------------------------- MODULE PoolRefinementProofs -------------------------
(***************************************************************************)
(* Every entry of ProgramEffects is an entry of LendingPool's book, for    *)
(* any number of positions, any amounts, rates, quotes and configurations, *)
(* and any scale of the arithmetic.                                        *)
(***************************************************************************)
EXTENDS ProgramEffects, PoolRefinement, TLAPS

LEMMA InitRefines == Init => Pool!Init
  <1> SUFFICES ASSUME Init PROVE Pool!Init
    OBVIOUS
  <1>1. /\ market.vault.supply.atoms_per_share = UOne
        /\ market.vault.borrow.atoms_per_share = UOne
        /\ market.vault.protocol_fee_shares = 0 /\ market.vault.curator_fee_shares = 0
    BY DEF Init, NewVault, initialize
  <1>2. FeeBook = [o \in Pool!FeeOwners |-> 0]
    BY <1>1 DEF FeeBook, Pool!FeeOwners
  <1>3. ClaimBook = [s \in Suppliers |-> 0]
    BY DEF Init, ClaimBook
  <1>4. /\ DebtBook = [b \in Borrowers |-> 0] /\ PledgeBook = [b \in Borrowers |-> 0]
        /\ CustodyBook = [b \in Borrowers |-> 0]
    BY DEF Init, DebtBook, PledgeBook, CustodyBook
  <1> QED BY <1>1, <1>2, <1>3, <1>4 DEF Init, Pool!Init

-----------------------------------------------------------------------------
(***************************************************************************)
(* The parts that entries have in common.                                  *)
(***************************************************************************)
LEMMA WorthIsFair ==
    ASSUME NEW n, NEW atoms, NEW price, Worth(n, atoms, price)
    PROVE  Pool!Fair(n, atoms, price)
  BY DEF Worth, Pool!Fair

LEMMA CashIsInt ==
    ASSUME Base
    PROVE  supply_tokens \in Int /\ collateral_tokens \in Int
  <1>1. supply_tokens \in 0..SupplyMint /\ collateral_tokens \in 0..CollateralMint
    BY DEF Base, TypeOK
  <1> QED BY <1>1

\* The accrual before an entry that leaves the fees alone.
LEMMA InterestAccrues ==
    ASSUME Base, NEW m, AccruesTo(m),
           market'.vault.borrow.atoms_per_share = m.vault.borrow.atoms_per_share,
           SameFeesAndClock(m.vault, market'.vault)
    PROVE  Pool!Accrue
  <1>1. /\ market.vault.borrow.atoms_per_share <= market'.vault.borrow.atoms_per_share
        /\ market.vault.protocol_fee_shares <= market'.vault.protocol_fee_shares
        /\ market.vault.curator_fee_shares <= market'.vault.curator_fee_shares
    BY DEF AccruesTo, Accrued, Base, DebtPriceOk, SameFeesAndClock
  <1>2. \A o \in Pool!FeeOwners : FeeBook[o] <= FeeBook'[o]
    BY <1>1 DEF FeeBook, Pool!FeeOwners
  <1> QED BY <1>1, <1>2 DEF Pool!Accrue

LEMMA ClaimChanges ==
    ASSUME Base, NEW m, AccruesTo(m), NEW s \in Suppliers, NEW r,
           SupplyEffect(m, supply_positions[s], r), SetSupply(s, r)
    PROVE  /\ Pool!Accrue
           /\ Pool!Only(ClaimBook, ClaimBook', s)
           /\ ClaimBook[s] = supply_positions[s].shares /\ ClaimBook'[s] = r.pos.shares
           /\ market'.vault.supply.atoms_per_share = m.vault.supply.atoms_per_share
           /\ DebtBook' = DebtBook /\ PledgeBook' = PledgeBook /\ CustodyBook' = CustodyBook
  <1>1. supply_positions \in [Suppliers -> SupplyPositions]
    BY DEF Base, TypeOK
  <1>2. /\ market' = r.m /\ supply_positions' = [supply_positions EXCEPT ![s] = r.pos]
        /\ borrow_positions' = borrow_positions
    BY DEF SetSupply
  <1>3. /\ r.m.vault.borrow = m.vault.borrow /\ SameFeesAndClock(m.vault, r.m.vault)
        /\ r.m.vault.supply.atoms_per_share = m.vault.supply.atoms_per_share
    BY DEF SupplyEffect
  <1>4. Pool!Accrue
    BY <1>2, <1>3, InterestAccrues
  <1>5. supply_positions'[s] = r.pos /\ \A y \in Suppliers \ {s} : supply_positions'[y] = supply_positions[y]
    BY <1>1, <1>2
  <1>6. Pool!Only(ClaimBook, ClaimBook', s)
    BY <1>5, Zenon DEF ClaimBook, Pool!Only
  <1>7. ClaimBook[s] = supply_positions[s].shares /\ ClaimBook'[s] = r.pos.shares
    BY <1>5 DEF ClaimBook
  <1>8. DebtBook' = DebtBook /\ PledgeBook' = PledgeBook /\ CustodyBook' = CustodyBook
    BY <1>2 DEF DebtBook, PledgeBook, CustodyBook
  <1> QED BY <1>2, <1>3, <1>4, <1>6, <1>7, <1>8

LEMMA DebtChanges ==
    ASSUME Base, NEW m, AccruesTo(m), NEW b \in Borrowers, NEW r, NEW d \in Int,
           PositionEffect(m, borrow_positions[b], r, d), SetBorrow(b, r)
    PROVE  /\ Pool!Accrue
           /\ ClaimBook' = ClaimBook
           /\ DebtBook' = [DebtBook EXCEPT ![b] = r.pos.shares]
           /\ PledgeBook' = [PledgeBook EXCEPT ![b] = r.pos.collateral]
           /\ CustodyBook' = [CustodyBook EXCEPT ![b] = r.pos.swept]
           /\ Pool!Only(DebtBook, DebtBook', b) /\ Pool!Only(PledgeBook, PledgeBook', b)
           /\ DebtBook[b] = borrow_positions[b].shares /\ DebtBook'[b] = r.pos.shares
           /\ PledgeBook[b] = borrow_positions[b].collateral
           /\ PledgeBook'[b] = borrow_positions[b].collateral + d
           /\ CustodyBook[b] = borrow_positions[b].swept
           /\ r.pos.swept = borrow_positions[b].swept => CustodyBook' = CustodyBook
           /\ market'.vault.borrow.atoms_per_share = m.vault.borrow.atoms_per_share
  <1>1. borrow_positions \in [Borrowers -> BorrowPositions]
    BY DEF Base, TypeOK
  <1>2. /\ market' = r.m /\ borrow_positions' = [borrow_positions EXCEPT ![b] = r.pos]
        /\ supply_positions' = supply_positions
    BY DEF SetBorrow
  <1>3. /\ r.m.vault.borrow.atoms_per_share = m.vault.borrow.atoms_per_share
        /\ SameFeesAndClock(m.vault, r.m.vault) /\ r.pos.collateral = borrow_positions[b].collateral + d
    BY DEF PositionEffect
  <1>4. Pool!Accrue
    BY <1>2, <1>3, InterestAccrues
  <1>5. borrow_positions'[b] = r.pos /\ \A y \in Borrowers \ {b} : borrow_positions'[y] = borrow_positions[y]
    BY <1>1, <1>2
  <1>6. DebtBook' = [DebtBook EXCEPT ![b] = r.pos.shares]
    BY <1>5, Zenon DEF DebtBook
  <1>7. PledgeBook' = [PledgeBook EXCEPT ![b] = r.pos.collateral]
    BY <1>5, Zenon DEF PledgeBook
  <1>8. CustodyBook' = [CustodyBook EXCEPT ![b] = r.pos.swept]
    BY <1>5, Zenon DEF CustodyBook
  <1>9. Pool!Only(DebtBook, DebtBook', b) /\ Pool!Only(PledgeBook, PledgeBook', b)
    BY <1>5, Zenon DEF DebtBook, PledgeBook, Pool!Only
  <1>10. /\ DebtBook[b] = borrow_positions[b].shares /\ DebtBook'[b] = r.pos.shares
         /\ PledgeBook[b] = borrow_positions[b].collateral /\ PledgeBook'[b] = r.pos.collateral
         /\ CustodyBook[b] = borrow_positions[b].swept
    BY <1>5 DEF DebtBook, PledgeBook, CustodyBook
  <1>11. r.pos.swept = borrow_positions[b].swept => CustodyBook' = CustodyBook
    BY <1>5 DEF CustodyBook
  <1>12. ClaimBook' = ClaimBook
    BY <1>2 DEF ClaimBook
  <1> QED BY <1>2, <1>3, <1>4, <1>6, <1>7, <1>8, <1>9, <1>10, <1>11, <1>12

\* What an entry on b's position, with the tokens it moves, does to the book.
LEMMA Booked ==
    ASSUME Base, NEW m, AccruesTo(m), NEW b \in Borrowers, NEW r, NEW a \in Int, NEW d \in Int,
           \/ BorrowEffect(m, borrow_positions[b], r, d)
           \/ PositionEffect(m, borrow_positions[b], r, d),
           Moves(b, r, a, d)
    PROVE  /\ Pool!Accrue /\ ClaimBook' = ClaimBook
           /\ supply_tokens \in Int /\ supply_tokens' = supply_tokens + a
           /\ collateral_tokens \in Int /\ collateral_tokens' = collateral_tokens + d
           /\ borrow_positions[b].collateral \in Nat
           /\ DebtBook' = [DebtBook EXCEPT ![b] = r.pos.shares]
           /\ PledgeBook' = [PledgeBook EXCEPT ![b] = r.pos.collateral]
           /\ CustodyBook' = [CustodyBook EXCEPT ![b] = r.pos.swept]
           /\ Pool!Only(DebtBook, DebtBook', b) /\ Pool!Only(PledgeBook, PledgeBook', b)
           /\ DebtBook[b] = borrow_positions[b].shares /\ DebtBook'[b] = r.pos.shares
           /\ PledgeBook[b] = borrow_positions[b].collateral
           /\ PledgeBook'[b] = borrow_positions[b].collateral + d
           /\ CustodyBook[b] = borrow_positions[b].swept
           /\ r.pos.swept = borrow_positions[b].swept => CustodyBook' = CustodyBook
           /\ market'.vault.borrow.atoms_per_share = m.vault.borrow.atoms_per_share
  <1>1. PositionEffect(m, borrow_positions[b], r, d)
    BY DEF BorrowEffect, PositionEffect
  <1>2. borrow_positions[b].collateral \in Nat
    BY DEF Base, TypeOK, BorrowPositions
  <1>3. SetBorrow(b, r) /\ supply_tokens' = supply_tokens + a /\ collateral_tokens' = collateral_tokens + d
    BY DEF Moves
  <1> QED BY <1>1, <1>2, <1>3, CashIsInt, DebtChanges, SMTT(20)

-----------------------------------------------------------------------------
(***************************************************************************)
(* Every entry is one of the book.                                         *)
(***************************************************************************)
LEMMA SupplierRefines ==
    ASSUME Base, NEW s \in Suppliers, SupplierEntry(s)
    PROVE  Pool!Supply(s) \/ Pool!Redeem(s)
  <1> DEFINE pos == supply_positions[s]
  <1>1. PICK m, r :
            /\ AccruesTo(m) /\ SupplyEffect(m, pos, r) /\ SetSupply(s, r)
            /\ UNCHANGED <<collateral_tokens, environment>>
            /\ \/ /\ Bought(pos, r, m.vault.supply.atoms_per_share)
                  /\ supply_tokens' = supply_tokens + r.atoms
               \/ /\ Sold(pos, r, m.vault.supply.atoms_per_share)
                  /\ supply_tokens' = supply_tokens + -r.atoms
    BY DEF SupplierEntry
  <1>2. /\ Pool!Accrue /\ Pool!Only(ClaimBook, ClaimBook', s)
        /\ ClaimBook[s] = pos.shares /\ ClaimBook'[s] = r.pos.shares
        /\ market'.vault.supply.atoms_per_share = m.vault.supply.atoms_per_share
        /\ DebtBook' = DebtBook /\ PledgeBook' = PledgeBook /\ CustodyBook' = CustodyBook
    BY <1>1, ClaimChanges
  <1>3. supply_tokens \in Int /\ collateral_tokens' = collateral_tokens
    BY <1>1, CashIsInt, SMTT(20)
  <1>4. CASE /\ Bought(pos, r, m.vault.supply.atoms_per_share)
             /\ supply_tokens' = supply_tokens + r.atoms
    <2>1. r.atoms \in Nat /\ pos.shares <= r.pos.shares
          /\ Worth(r.pos.shares - pos.shares, r.atoms, m.vault.supply.atoms_per_share)
      BY <1>4 DEF Bought
    <2>2. supply_tokens' - supply_tokens = r.atoms /\ supply_tokens <= supply_tokens'
      BY <1>3, <1>4, <2>1
    <2>3. Pool!Fair(ClaimBook'[s] - ClaimBook[s], supply_tokens' - supply_tokens,
                    market'.vault.supply.atoms_per_share)
      BY <1>2, <2>1, <2>2, WorthIsFair
    <2> QED BY <1>2, <1>3, <2>1, <2>2, <2>3 DEF Pool!Supply
  <1>5. CASE /\ Sold(pos, r, m.vault.supply.atoms_per_share)
             /\ supply_tokens' = supply_tokens + -r.atoms
    <2>1. r.atoms \in Nat /\ r.pos.shares <= pos.shares
          /\ Worth(pos.shares - r.pos.shares, r.atoms, m.vault.supply.atoms_per_share)
      BY <1>5 DEF Sold
    <2>2. supply_tokens - supply_tokens' = r.atoms /\ supply_tokens' <= supply_tokens
      BY <1>3, <1>5, <2>1
    <2>3. Pool!Fair(ClaimBook[s] - ClaimBook'[s], supply_tokens - supply_tokens',
                    market'.vault.supply.atoms_per_share)
      BY <1>2, <2>1, <2>2, WorthIsFair
    <2> QED BY <1>2, <1>3, <2>1, <2>2, <2>3 DEF Pool!Redeem
  <1> QED BY <1>1, <1>4, <1>5

LEMMA DrawRefines ==
    ASSUME Base, NEW b \in Borrowers, DrawEntry(b)
    PROVE  Pool!Draw(b)
  <1> DEFINE pos == borrow_positions[b]
             price == market'.vault.borrow.atoms_per_share
  <1>1. PICK m, r, a, d :
            /\ a \in Nat /\ d \in Nat /\ AccruesTo(m)
            /\ Draws(m, pos, r, a, d, config, oracle) /\ Moves(b, r, -a, d)
    BY DEF DrawEntry
  <1>2. -a \in Int /\ d \in Int
    BY <1>1
  <1>3. /\ BorrowEffect(m, pos, r, d) /\ pos.swept = 0 /\ r.pos.swept = 0
        /\ pos.shares <= r.pos.shares
        /\ Worth(r.pos.shares - pos.shares, a, m.vault.borrow.atoms_per_share)
    BY <1>1, SMTT(20) DEF Draws, Unlocked
  <1>4. /\ Pool!Accrue /\ ClaimBook' = ClaimBook /\ CustodyBook[b] = 0 /\ CustodyBook' = CustodyBook
        /\ supply_tokens \in Int /\ supply_tokens' = supply_tokens + -a
        /\ collateral_tokens \in Int /\ collateral_tokens' = collateral_tokens + d
        /\ Pool!Only(DebtBook, DebtBook', b) /\ Pool!Only(PledgeBook, PledgeBook', b)
        /\ DebtBook[b] = pos.shares /\ DebtBook'[b] = r.pos.shares
        /\ pos.collateral \in Nat /\ PledgeBook[b] = pos.collateral /\ PledgeBook'[b] = pos.collateral + d
        /\ price = m.vault.borrow.atoms_per_share
    BY <1>1, <1>3, <1>2, Booked, SMTT(20)
  <1>5. /\ supply_tokens - supply_tokens' = a /\ supply_tokens' <= supply_tokens
        /\ PledgeBook[b] <= PledgeBook'[b]
        /\ collateral_tokens' - collateral_tokens = PledgeBook'[b] - PledgeBook[b]
    BY <1>1, <1>4, SMTT(20)
  <1>6. Pool!Fair(DebtBook'[b] - DebtBook[b], supply_tokens - supply_tokens', price)
    BY <1>3, <1>4, <1>5, WorthIsFair, SMTT(20)
  <1> QED BY <1>3, <1>4, <1>5, <1>6, SMTT(20) DEF Pool!Draw

LEMMA ReleaseRefines ==
    ASSUME Base, NEW b \in Borrowers, ReleaseEntry(b)
    PROVE  Pool!Release(b)
  <1> DEFINE pos == borrow_positions[b]
             price == market'.vault.borrow.atoms_per_share
  <1>1. PICK m, r, a, d :
            /\ a \in Nat /\ d \in Nat /\ AccruesTo(m)
            /\ Releases(m, pos, r, a, d, config, oracle) /\ Moves(b, r, a, -d)
    BY DEF ReleaseEntry
  <1>2. a \in Int /\ -d \in Int
    BY <1>1
  <1>3. /\ BorrowEffect(m, pos, r, -d) /\ pos.swept = 0 /\ r.pos.swept = 0
        /\ r.pos.shares <= pos.shares
        /\ Worth(pos.shares - r.pos.shares, a, m.vault.borrow.atoms_per_share)
    BY <1>1, SMTT(20) DEF Releases, Unlocked
  <1>4. /\ Pool!Accrue /\ ClaimBook' = ClaimBook /\ CustodyBook[b] = 0 /\ CustodyBook' = CustodyBook
        /\ supply_tokens \in Int /\ supply_tokens' = supply_tokens + a
        /\ collateral_tokens \in Int /\ collateral_tokens' = collateral_tokens + -d
        /\ Pool!Only(DebtBook, DebtBook', b) /\ Pool!Only(PledgeBook, PledgeBook', b)
        /\ DebtBook[b] = pos.shares /\ DebtBook'[b] = r.pos.shares
        /\ pos.collateral \in Nat /\ PledgeBook[b] = pos.collateral /\ PledgeBook'[b] = pos.collateral + -d
        /\ price = m.vault.borrow.atoms_per_share
    BY <1>1, <1>3, <1>2, Booked, SMTT(20)
  <1>5. /\ supply_tokens' - supply_tokens = a /\ supply_tokens <= supply_tokens'
        /\ PledgeBook'[b] <= PledgeBook[b]
        /\ collateral_tokens - collateral_tokens' = PledgeBook[b] - PledgeBook'[b]
    BY <1>1, <1>4, SMTT(20)
  <1>6. Pool!Fair(DebtBook[b] - DebtBook'[b], supply_tokens' - supply_tokens, price)
    BY <1>3, <1>4, <1>5, WorthIsFair, SMTT(20)
  <1> QED BY <1>3, <1>4, <1>5, <1>6, SMTT(20) DEF Pool!Release

LEMMA SweepRefines ==
    ASSUME Base, NEW b \in Borrowers, SweepEntry(b)
    PROVE  Pool!Sweep(b)
  <1> DEFINE pos == borrow_positions[b]
  <1>1. PICK m, r :
            AccruesTo(m) /\ Sweeps(m, pos, r, config, oracle) /\ Moves(b, r, 0, -pos.collateral)
    BY DEF SweepEntry
  <1>2. -pos.collateral \in Int /\ pos.collateral \in Nat
    BY DEF Base, TypeOK, BorrowPositions
  <1>3. /\ BorrowEffect(m, pos, r, -pos.collateral) /\ pos.swept = 0 /\ r.pos.collateral = 0
        /\ r.pos.shares = pos.shares /\ r.pos.swept = pos.collateral
    BY <1>1, SMTT(20) DEF Sweeps
  <1>4. /\ Pool!Accrue /\ ClaimBook' = ClaimBook
        /\ supply_tokens \in Int /\ supply_tokens' = supply_tokens + 0
        /\ collateral_tokens \in Int /\ collateral_tokens' = collateral_tokens + -pos.collateral
        /\ DebtBook' = [DebtBook EXCEPT ![b] = r.pos.shares] /\ DebtBook[b] = pos.shares
        /\ PledgeBook' = [PledgeBook EXCEPT ![b] = r.pos.collateral] /\ PledgeBook[b] = pos.collateral
        /\ CustodyBook' = [CustodyBook EXCEPT ![b] = r.pos.swept] /\ CustodyBook[b] = pos.swept
    BY <1>1, <1>2, <1>3, Booked, SMTT(20)
  <1>5. supply_tokens' = supply_tokens /\ collateral_tokens - collateral_tokens' = pos.collateral
    BY <1>2, <1>4, SMTT(20)
  <1>6. DebtBook' = DebtBook
    <2>1. DebtBook = [x \in Borrowers |-> DebtBook[x]]
      BY SMTT(20) DEF DebtBook
    <2> QED BY <1>3, <1>4, <2>1, SMTT(20)
  <1> QED BY <1>3, <1>4, <1>5, <1>6, SMTT(20) DEF Pool!Sweep

LEMMA SettleRefines ==
    ASSUME Base, NEW b \in Borrowers, SettleEntry(b)
    PROVE  Pool!Settle(b)
  <1> DEFINE pos == borrow_positions[b]
             price == market'.vault.borrow.atoms_per_share
  <1>1. PICK m, r :
            AccruesTo(m) /\ Settles(m, pos, r, oracle) /\ Moves(b, r, r.atoms, r.returned)
    BY DEF SettleEntry
  <1>2. /\ r.returned \in Nat /\ BorrowEffect(m, pos, r, r.returned)
        /\ pos.swept # 0 /\ pos.collateral = 0 /\ r.pos.swept = 0
        /\ r.pos.collateral = r.returned /\ r.returned <= pos.swept
        /\ r.atoms \in Nat /\ r.pos.shares <= pos.shares
        /\ Worth(pos.shares - r.pos.shares, r.atoms, m.vault.borrow.atoms_per_share)
    BY <1>1, SMTT(20) DEF Settles, Sold
  <1>3. r.atoms \in Int /\ r.returned \in Int /\ 0 + r.returned = r.returned
    BY <1>2, SMTT(20)
  <1>4. /\ Pool!Accrue /\ ClaimBook' = ClaimBook
        /\ supply_tokens \in Int /\ supply_tokens' = supply_tokens + r.atoms
        /\ collateral_tokens \in Int /\ collateral_tokens' = collateral_tokens + r.returned
        /\ Pool!Only(DebtBook, DebtBook', b) /\ DebtBook[b] = pos.shares /\ DebtBook'[b] = r.pos.shares
        /\ Pool!Only(PledgeBook, PledgeBook', b) /\ PledgeBook[b] = pos.collateral
        /\ PledgeBook'[b] = pos.collateral + r.returned
        /\ CustodyBook' = [CustodyBook EXCEPT ![b] = r.pos.swept] /\ CustodyBook[b] = pos.swept
        /\ price = m.vault.borrow.atoms_per_share
    BY <1>1, <1>2, <1>3, Booked, SMTT(20)
  <1>5. /\ supply_tokens' - supply_tokens = r.atoms /\ supply_tokens <= supply_tokens'
        /\ collateral_tokens' - collateral_tokens = r.returned
    BY <1>2, <1>4, SMTT(20)
  <1>6. Pool!Fair(DebtBook[b] - DebtBook'[b], supply_tokens' - supply_tokens, price)
    BY <1>2, <1>4, <1>5, WorthIsFair, SMTT(20)
  <1> QED BY <1>2, <1>3, <1>4, <1>5, <1>6, SMTT(20) DEF Pool!Settle

LEMMA WriteOffRefines ==
    ASSUME Base, NEW b \in Borrowers, WriteOffEntry(b)
    PROVE  Pool!WriteOff(b)
  <1> DEFINE pos == borrow_positions[b]
  <1>1. PICK m, r :
            AccruesTo(m) /\ WritesOff(m, pos, r) /\ Moves(b, r, 0, -pos.collateral)
    BY DEF WriteOffEntry
  <1>2. -pos.collateral \in Int /\ pos.collateral \in Nat
    BY DEF Base, TypeOK, BorrowPositions
  <1>3. /\ PositionEffect(m, pos, r, -pos.collateral) /\ pos.swept = 0 /\ r.pos.swept = 0
        /\ r.pos.shares = 0 /\ r.pos.collateral = 0
    BY <1>1, SMTT(20) DEF WritesOff, Unlocked
  <1>4. /\ Pool!Accrue /\ ClaimBook' = ClaimBook
        /\ supply_tokens \in Int /\ supply_tokens' = supply_tokens + 0
        /\ collateral_tokens \in Int /\ collateral_tokens' = collateral_tokens + -pos.collateral
        /\ DebtBook' = [DebtBook EXCEPT ![b] = r.pos.shares]
        /\ PledgeBook' = [PledgeBook EXCEPT ![b] = r.pos.collateral] /\ PledgeBook[b] = pos.collateral
        /\ CustodyBook[b] = pos.swept /\ CustodyBook' = CustodyBook
    BY <1>1, <1>2, <1>3, Booked, SMTT(20)
  <1>5. supply_tokens' = supply_tokens /\ collateral_tokens - collateral_tokens' = pos.collateral
    BY <1>2, <1>4, SMTT(20)
  <1> QED BY <1>3, <1>4, <1>5, SMTT(20) DEF Pool!WriteOff

\* The books of an entry that changes no position.
LEMMA SameBooks ==
    ASSUME UNCHANGED positions
    PROVE  /\ ClaimBook' = ClaimBook /\ DebtBook' = DebtBook
           /\ PledgeBook' = PledgeBook /\ CustodyBook' = CustodyBook
  BY DEF positions, ClaimBook, DebtBook, PledgeBook, CustodyBook

\* A fee owner is paid at least for the shares they had before the accrual.
LEMMA PaidInFull ==
    ASSUME NEW old \in Nat, NEW n \in Nat, old <= n, NEW price \in Nat, NEW atoms \in Nat,
           NEW one \in Nat, n * price < (atoms + 1) * one
    PROVE  old * price < (atoms + 1) * one
  <1>1. PICK k \in Nat : n = old + k
    <2>1. n - old \in Nat /\ n = old + (n - old)
      OBVIOUS
    <2> QED BY <2>1
  <1>2. n * price = old * price + k * price /\ k * price \in Nat /\ old * price \in Nat
    BY <1>1
  <1>3. (atoms + 1) * one \in Nat
    OBVIOUS
  <1> QED BY <1>2, <1>3

LEMMA TreasuryRefines ==
    ASSUME Base, TreasuryEntry
    PROVE  Pool!Donate \/ \E o \in Pool!FeeOwners : Pool!RedeemFees(o)
  <1>1. PICK m, a :
            /\ a \in Nat /\ AccruesTo(m) /\ FeeEffect(m, market')
            /\ UNCHANGED <<positions, collateral_tokens>>
            /\ \/ FeesRedeemed(m, market', a) /\ supply_tokens' = supply_tokens + -a
               \/ SameFeesAndClock(m.vault, market'.vault) /\ supply_tokens' = supply_tokens + a
    BY Zenon DEF TreasuryEntry
  <1> DEFINE u == market.vault
             v == m.vault
             w == market'.vault
             price == w.supply.atoms_per_share
             one == UOne * UOne
  <1>2. w.borrow = v.borrow /\ u.borrow.atoms_per_share <= w.borrow.atoms_per_share
    BY <1>1 DEF AccruesTo, Accrued, FeeEffect, Base, DebtPriceOk
  <1>3. CASE SameFeesAndClock(v, w) /\ supply_tokens' = supply_tokens + a
    <2>1. Pool!Accrue
      BY <1>1, <1>2, <1>3, InterestAccrues
    <2>2. supply_tokens <= supply_tokens'
      BY <1>1, <1>3, CashIsInt
    <2>3. Pool!Donate
      BY <1>1, <2>1, <2>2, SameBooks DEF Pool!Donate
    <2> QED BY <2>3
  <1>4. CASE FeesRedeemed(m, market', a) /\ supply_tokens' = supply_tokens + -a
    <2>1. u.protocol_fee_shares <= v.protocol_fee_shares /\ u.curator_fee_shares <= v.curator_fee_shares
      BY <1>1, SMTT(20) DEF AccruesTo, Accrued
    <2>2. market \in Markets /\ m \in Markets /\ market' \in Markets
      BY <1>1 DEF AccruesTo, FeeEffect, Base, TypeOK
    <2>3. /\ u.protocol_fee_shares \in Nat /\ v.protocol_fee_shares \in Nat
          /\ u.curator_fee_shares \in Nat /\ v.curator_fee_shares \in Nat /\ price \in Nat
      BY <2>2 DEF Markets, Vaults, Trackers
    <2>4. supply_tokens - supply_tokens' = a /\ supply_tokens' <= supply_tokens
      BY <1>1, <1>4, CashIsInt
    <2>5. one \in Nat
      BY FixedPointAssumption
    <2> HIDE DEF one, price
    <2>6. CASE /\ w.curator_fee_shares = v.curator_fee_shares
               /\ FeePaid(v.protocol_fee_shares, w.protocol_fee_shares, a, price)
      <3>1. w.protocol_fee_shares = 0 /\ v.protocol_fee_shares * price < (a + 1) * one
        BY <2>6, SMTT(20) DEF FeePaid, one
      <3>2. u.protocol_fee_shares * price < (supply_tokens - supply_tokens' + 1) * one
        BY <1>1, <2>1, <2>3, <2>4, <2>5, <3>1, PaidInFull
      <3>3. /\ FeeBook["protocol"] = u.protocol_fee_shares /\ FeeBook'["protocol"] = 0
            /\ FeeBook["curator"] <= FeeBook'["curator"]
        BY <2>1, <2>6, <3>1 DEF FeeBook
      <3>4. Pool!RedeemFees("protocol")
        BY <1>1, <1>2, <2>4, <3>2, <3>3, SameBooks DEF Pool!RedeemFees, Pool!FeeOwners, one, price
      <3> QED BY <3>4 DEF Pool!FeeOwners
    <2>7. CASE /\ w.protocol_fee_shares = v.protocol_fee_shares
               /\ FeePaid(v.curator_fee_shares, w.curator_fee_shares, a, price)
      <3>1. w.curator_fee_shares = 0 /\ v.curator_fee_shares * price < (a + 1) * one
        BY <2>7 DEF FeePaid, one
      <3>2. u.curator_fee_shares * price < (supply_tokens - supply_tokens' + 1) * one
        BY <1>1, <2>1, <2>3, <2>4, <2>5, <3>1, PaidInFull, SMTT(20)
      <3>3. /\ FeeBook["curator"] = u.curator_fee_shares /\ FeeBook'["curator"] = 0
            /\ FeeBook["protocol"] <= FeeBook'["protocol"]
        BY <2>1, <2>7, <3>1, SMTT(20) DEF FeeBook
      <3>4. Pool!RedeemFees("curator")
        BY <1>1, <1>2, <2>4, <3>2, <3>3, SameBooks DEF Pool!RedeemFees, Pool!FeeOwners, one, price
      <3> QED BY <3>4 DEF Pool!FeeOwners
    <2> QED BY <1>4, <2>6, <2>7, SMTT(20) DEF FeesRedeemed, price
  <1> QED BY <1>1, <1>3, <1>4

LEMMA IdleRefines ==
    ASSUME IdleEntry
    PROVE  UNCHANGED Pool!vars
  <1>1. UNCHANGED <<market, positions, supply_tokens, collateral_tokens>>
    BY DEF IdleEntry
  <1>2. FeeBook' = FeeBook
    BY <1>1 DEF FeeBook
  <1> QED BY <1>1, <1>2, SameBooks DEF Pool!vars

LEMMA EntriesRefine ==
    ASSUME Base, Entry
    PROVE  [Pool!Next]_(Pool!vars)
  <1>1. ASSUME NEW b \in Borrowers, BorrowerEntry(b)
        PROVE  Pool!Draw(b) \/ Pool!Release(b) \/ Pool!Sweep(b) \/ Pool!Settle(b) \/ Pool!WriteOff(b)
    BY <1>1, DrawRefines, ReleaseRefines, SweepRefines, SettleRefines, WriteOffRefines DEF BorrowerEntry
  <1> QED BY <1>1, SupplierRefines, TreasuryRefines, IdleRefines DEF Entry, Pool!Next
=============================================================================
