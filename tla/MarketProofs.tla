---------------------------- MODULE MarketProofs ----------------------------
(***************************************************************************)
(* What the methods of Market do to a position and to the totals, and      *)
(* which health they leave behind, for every scale of the arithmetic.      *)
(***************************************************************************)
EXTENDS VaultProofs

-----------------------------------------------------------------------------
(***************************************************************************)
(* Positions.  What leaves a position's atom counter with a part of its    *)
(* shares is at most the counter.                                          *)
(***************************************************************************)
LEMMA ShareBounded ==
    ASSUME NEW shares \in Nat, NEW all_shares \in Nat, shares < all_shares, NEW atoms \in Nat,
           NEW a \in Share(shares, all_shares, atoms)
    PROVE  a \in Nat /\ a <= atoms
  <1>1. UOne \in Nat \ {0}
    BY FixedPointAssumption
  <1>2. PICK q \in u_safe_div(shares, all_shares) : a = (q * atoms) \div UOne
    BY DEF Share, u_rounded_down
  <1>3. q = (shares * UOne) \div all_shares
    BY CheckedUIsNat DEF u_safe_div
  <1>4. shares * UOne \in Nat /\ shares * UOne <= UOne * all_shares
    BY <1>1
  <1>5. q \in Nat /\ q <= UOne
    BY <1>1, <1>3, <1>4, DivBounded, SMTT(20)
  <1>6. q * atoms \in Nat /\ q * atoms <= atoms * UOne
    BY <1>1, <1>5
  <1> QED BY <1>1, <1>2, <1>6, DivBounded

LEMMA PositionWithdraw ==
    ASSUME NEW pos \in SupplyPositions, NEW shares \in Nat,
           NEW p \in position_withdraw(pos, shares)
    PROVE  p \in SupplyPositions /\ p.shares = pos.shares - shares
  <1>1. pos.shares \in Nat /\ pos.deposited \in Nat
    BY DEF SupplyPositions
  <1>2. CASE shares < pos.shares
    <2>1. PICK a \in Share(shares, pos.shares, pos.deposited) :
              p = [shares |-> pos.shares - shares, deposited |-> pos.deposited - a]
      BY <1>1, <1>2 DEF position_withdraw
    <2>2. a \in Nat /\ a <= pos.deposited
      BY <1>1, <1>2, ShareBounded
    <2>3. pos.shares - shares \in Nat /\ pos.deposited - a \in Nat
      BY <1>1, <1>2, <2>2
    <2> QED BY <2>1, <2>3 DEF SupplyPositions
  <1>3. CASE shares = pos.shares
    BY <1>1, <1>3 DEF position_withdraw, SupplyPositions
  <1>4. CASE shares > pos.shares
    BY <1>1, <1>4 DEF position_withdraw
  <1> QED BY <1>1, <1>2, <1>3, <1>4

\* p is pos with d fewer borrow shares and the same collateral.
Repaid(pos, p, d) ==
    /\ p \in BorrowPositions
    /\ p.shares = pos.shares - d
    /\ p.collateral = pos.collateral /\ p.swept = pos.swept

LEMMA PositionRepay ==
    ASSUME NEW pos \in BorrowPositions, NEW shares \in Nat,
           NEW p \in position_repay(pos, shares)
    PROVE  Repaid(pos, p, shares) /\ shares <= pos.shares
  <1>1. pos.shares \in Nat /\ pos.initial \in Nat /\ pos.collateral \in Nat /\ pos.swept \in Nat
    BY DEF BorrowPositions
  <1>2. CASE shares < pos.shares
    <2>1. PICK a \in Share(shares, pos.shares, pos.initial) :
              p = WithDebt(pos, pos.shares - shares, pos.initial - a)
      BY <1>1, <1>2 DEF position_repay
    <2>2. a \in Nat /\ a <= pos.initial
      BY <1>1, <1>2, ShareBounded
    <2>3. pos.shares - shares \in Nat /\ pos.initial - a \in Nat
      BY <1>1, <1>2, <2>2
    <2> QED BY <1>2, <2>1, <2>3, <1>1 DEF BorrowPositions, Repaid, WithDebt
  <1>3. CASE shares = pos.shares
    BY <1>1, <1>3 DEF position_repay, position_repay_all, WithDebt, BorrowPositions, Repaid
  <1>4. CASE shares > pos.shares
    BY <1>1, <1>4 DEF position_repay
  <1> QED BY <1>1, <1>2, <1>3, <1>4

LEMMA PositionRepayAll ==
    ASSUME NEW pos \in BorrowPositions
    PROVE  Repaid(pos, position_repay_all(pos), pos.shares)
  BY DEF BorrowPositions, position_repay_all, WithDebt, Repaid

LEMMA MoveCollateral ==
    ASSUME NEW m \in Markets, NEW pos \in BorrowPositions, NEW d \in Int,
           NEW x \in move_collateral(m, pos, d)
    PROVE  /\ x.m \in Markets /\ x.m.vault = m.vault /\ x.m.collateral = m.collateral + d
           /\ x.pos \in BorrowPositions /\ x.pos.collateral = pos.collateral + d
           /\ x.pos.shares = pos.shares /\ x.pos.swept = pos.swept
  <1>1. PICK t \in CheckedU64(m.collateral + d), p \in CheckedU64(pos.collateral + d) :
            x = [m |-> [m EXCEPT !.collateral = t], pos |-> [pos EXCEPT !.collateral = p]]
    BY DEF move_collateral
  <1>2. t \in Nat /\ t = m.collateral + d /\ p \in Nat /\ p = pos.collateral + d
    BY CheckedU64IsNat
  <1> QED BY <1>1, <1>2 DEF Markets, BorrowPositions

-----------------------------------------------------------------------------
(***************************************************************************)
(* Liquidations are natural numbers of atoms: the casts to u64 see to it,  *)
(* whatever the quotes and the thresholds are.                             *)
(***************************************************************************)
LEMMA RoundedAreNat ==
    ASSUME NEW x, NEW a \in i_rounded_down(x) \cup i_rounded_up(x)
    PROVE  a \in Nat
  <1>1. \A d \in CheckedU64(x \div IOne) : d \in Nat
    BY CheckedU64IsNat
  <1> QED BY <1>1 DEF i_rounded_down, i_rounded_up

LEMMA AdjustedIsNat ==
    ASSUME NEW l \in Liquidations, NEW max_repay \in Nat
    PROVE  adjust_for_max_repay(l, max_repay) \in Liquidations
  <1>1. l.repay \in Nat /\ l.collateral \in Nat /\ l.bonus \in Nat
    BY DEF Liquidations
  <1>2. CASE l.repay > max_repay
    <2>1. l.collateral * max_repay \in Nat /\ l.bonus * max_repay \in Nat /\ l.repay # 0
      BY <1>1, <1>2
    <2>2. /\ (l.collateral * max_repay) \div l.repay \in Nat
          /\ (l.bonus * max_repay) \div l.repay \in Nat
      BY <1>1, <2>1, DivNat
    <2> QED BY <1>2, <2>2 DEF adjust_for_max_repay, Liquidations
  <1>3. CASE ~(l.repay > max_repay)
    BY <1>3 DEF adjust_for_max_repay
  <1> QED BY <1>2, <1>3

LEMMA ComputedIsNat ==
    ASSUME NEW borrowed, NEW so, NEW su, NEW coll, NEW co, NEW cu, NEW ltv,
           NEW l \in compute_liquidation(borrowed, so, su, coll, co, cu, ltv)
    PROVE  l \in Liquidations
  <1>1. PICK value :
            \E c \in UNION {i_rounded_down(x) : x \in collateral_atoms(co, value, cu)},
               r \in UNION {i_rounded_up(x) : x \in borrow_atoms(so, value, su)} :
                l = [repay |-> r, collateral |-> c, bonus |-> 0]
    BY DEF compute_liquidation
  <1>2. \A c \in UNION {i_rounded_down(x) : x \in collateral_atoms(co, value, cu)} : c \in Nat
    BY RoundedAreNat
  <1>3. \A r \in UNION {i_rounded_up(x) : x \in borrow_atoms(so, value, su)} : r \in Nat
    BY RoundedAreNat
  <1> QED BY <1>1, <1>2, <1>3 DEF Liquidations

LEMMA ComputedWithFeeIsNat ==
    ASSUME NEW borrowed \in Nat, NEW so, NEW su, NEW coll, NEW co, NEW cu, NEW ltv, NEW fee,
           NEW max_repay \in Nat,
           NEW l \in compute_liquidation_with_fee(borrowed, so, su, coll, co, cu, ltv, fee, max_repay)
    PROVE  l \in Liquidations
  <1> DEFINE new_ltv == i_mul(ltv, IOne + fee)
             Adjusted == UNION {i_rounded_down(x) : x \in i_safe_div(coll * IOne, IOne + fee)}
             cap == MinOf(max_repay, borrowed)
  <1>1. cap \in Nat
    BY DEF MinOf
  <1>2. PICK adjusted \in Adjusted :
          \E k \in compute_liquidation(borrowed, so, su, adjusted, co, cu, new_ltv) :
            \E b \in CheckedU64(MinOf((adjust_for_max_repay(k, cap).collateral * fee) \div IOne,
                                      coll - adjust_for_max_repay(k, cap).collateral)) :
              l = [adjust_for_max_repay(k, cap) EXCEPT !.bonus = b]
    BY DEF compute_liquidation_with_fee
  <1>3. PICK k \in compute_liquidation(borrowed, so, su, adjusted, co, cu, new_ltv) :
            \E b \in CheckedU64(MinOf((adjust_for_max_repay(k, cap).collateral * fee) \div IOne,
                                      coll - adjust_for_max_repay(k, cap).collateral)) :
              l = [adjust_for_max_repay(k, cap) EXCEPT !.bonus = b]
    BY <1>2, Zenon
  <1>4. adjust_for_max_repay(k, cap) \in Liquidations
    BY <1>1, ComputedIsNat, AdjustedIsNat
  <1>5. PICK b : b \in Nat /\ l = [adjust_for_max_repay(k, cap) EXCEPT !.bonus = b]
    BY <1>3, CheckedU64IsNat
  <1> QED BY <1>4, <1>5 DEF Liquidations

LEMMA HealthIsNat ==
    ASSUME NEW m \in Markets, NEW shares \in Nat, NEW coll, NEW o, NEW h \in health_of(m, shares, coll, o)
    PROVE  h.borrowed \in Nat
  <1>1. PICK b \in shares_to_atoms_up(m.vault.borrow, shares) : h.borrowed = b
    BY DEF health_of
  <1>2. m.vault.borrow \in Trackers
    BY VaultTypes DEF Markets
  <1> QED BY <1>1, <1>2, AtomsUpAreNat

LEMMA ResultIsNat ==
    ASSUME NEW h, h.borrowed \in Nat, NEW coll \in Nat, NEW c, NEW o, NEW max_repay \in Nat,
           NEW l \in compute_liquidation_result(h, coll, c, o, max_repay)
    PROVE  l \in Liquidations
  <1> DEFINE whole == [repay |-> h.borrowed, collateral |-> coll, bonus |-> 0]
  <1>1. adjust_for_max_repay(whole, max_repay) \in Liquidations
    BY AdjustedIsNat DEF Liquidations
  <1> HIDE DEF whole
  <1>2. \/ l = adjust_for_max_repay(whole, max_repay)
        \/ l \in compute_liquidation_with_fee(h.borrowed, o.supply, SupplyUnit, coll, o.collateral,
                                              CollateralUnit, target_ltv_after_liquidation(c),
                                              c.bonus, max_repay)
    BY DEF compute_liquidation_result, whole
  <1> QED BY <1>1, <1>2, ComputedWithFeeIsNat

LEMMA TotalIsNat ==
    ASSUME NEW l \in Liquidations
    PROVE  total_collateral(l) \in Nat /\ l.repay \in Nat
  BY DEF total_collateral, Liquidations

-----------------------------------------------------------------------------
(***************************************************************************)
(* The methods of Market.                                                  *)
(***************************************************************************)
LEMMA MarketTypes ==
    ASSUME NEW m \in Markets
    PROVE  /\ m.vault \in Vaults /\ m.collateral \in Nat
           /\ m.vault.supply.total_shares \in Nat /\ m.vault.borrow.total_shares \in Nat
           /\ m.vault.supply.atoms_per_share \in Nat /\ m.vault.borrow.atoms_per_share \in Nat
           /\ m.vault.last_update \in Nat
  BY VaultTypes DEF Markets

LEMMA SetVault ==
    ASSUME NEW m \in Markets, NEW w \in Vaults
    PROVE  /\ [m EXCEPT !.vault = w] \in Markets
           /\ [m EXCEPT !.vault = w].vault = w
           /\ [m EXCEPT !.vault = w].collateral = m.collateral
  BY DEF Markets

LEMMA LendEffect ==
    ASSUME NEW m \in Markets, NEW pos \in SupplyPositions, NEW atoms \in Nat, NEW c,
           NEW out \in lend(m, pos, atoms, c)
    PROVE  SupplyEffect(m, pos, out) /\ Bought(pos, out, m.vault.supply.atoms_per_share)
           /\ out.atoms = atoms
  <1>0. PICK r \in vault_lend(m.vault, atoms) : \E p \in position_lend(pos, atoms, r.shares) :
            out = [m |-> [m EXCEPT !.vault = r.vault], pos |-> p, atoms |-> atoms]
    BY DEF lend
  <1>1. PICK p \in position_lend(pos, atoms, r.shares) :
            out = [m |-> [m EXCEPT !.vault = r.vault], pos |-> p, atoms |-> atoms]
    BY <1>0
  <1>2. r.shares \in Nat /\ SupplyMoved(m.vault, r.vault, r.shares) /\ SameFeesAndClock(m.vault, r.vault)
    BY MarketTypes, VaultLend
  <1>3. p \in SupplyPositions /\ p.shares = pos.shares + r.shares
    <2>1. pos.shares \in Nat /\ pos.deposited \in Nat
      BY DEF SupplyPositions
    <2>2. PICK s \in u_safe_add(pos.shares, r.shares), d \in CheckedU64(pos.deposited + atoms) :
              p = [shares |-> s, deposited |-> d]
      BY DEF position_lend
    <2>3. s \in Nat /\ s = pos.shares + r.shares /\ d \in Nat
      BY CheckedUIsNat, CheckedU64IsNat DEF u_safe_add
    <2> QED BY <2>2, <2>3 DEF SupplyPositions
  <1>4. r.vault \in Vaults
    BY <1>2 DEF SupplyMoved
  <1>5. out.pos = p /\ out.m \in Markets /\ out.m.vault = r.vault /\ out.m.collateral = m.collateral
    BY <1>1, <1>4, SetVault, Zenon
  <1>6. SupplyEffect(m, pos, out)
    BY <1>2, <1>3, <1>5, MarketTypes, SMTT(30) DEF SupplyEffect, SupplyMoved, SupplyPositions
  <1>7. Worth(r.shares, r.atoms, m.vault.supply.atoms_per_share) /\ r.atoms = atoms
    <2>1. r.atoms = atoms
      BY DEF vault_lend, OnSupply, deposit_atoms
    <2> QED BY <2>1, MarketTypes, SupplyWorth
  <1>8. out.pos.shares - pos.shares = r.shares /\ pos.shares <= out.pos.shares /\ out.atoms = atoms
    BY <1>1, <1>2, <1>3, <1>5 DEF SupplyPositions
  <1> QED BY <1>6, <1>7, <1>8 DEF Bought

LEMMA WithdrawEffect ==
    ASSUME NEW m \in Markets, NEW pos \in SupplyPositions, NEW atoms \in Nat,
           NEW out \in withdraw(m, pos, atoms)
    PROVE  SupplyEffect(m, pos, out) /\ Sold(pos, out, m.vault.supply.atoms_per_share)
  <1>0. PICK r \in vault_withdraw_atoms(m.vault, atoms) : \E p \in position_withdraw(pos, r.shares) :
            out = [m |-> [m EXCEPT !.vault = r.vault], pos |-> p, atoms |-> atoms]
    BY DEF withdraw
  <1>1. PICK p \in position_withdraw(pos, r.shares) :
            out = [m |-> [m EXCEPT !.vault = r.vault], pos |-> p, atoms |-> atoms]
    BY <1>0
  <1>2. r.shares \in Nat /\ SupplyMoved(m.vault, r.vault, -r.shares) /\ SameFeesAndClock(m.vault, r.vault)
    BY MarketTypes, VaultWithdrawAtoms
  <1>3. p \in SupplyPositions /\ p.shares = pos.shares - r.shares
    BY <1>2, PositionWithdraw
  <1>4. r.vault \in Vaults
    BY <1>2 DEF SupplyMoved
  <1>5. out.pos = p /\ out.m \in Markets /\ out.m.vault = r.vault /\ out.m.collateral = m.collateral
    BY <1>1, <1>4, SetVault, Zenon
  <1>6. SupplyEffect(m, pos, out)
    BY <1>2, <1>3, <1>5, MarketTypes DEF SupplyEffect, SupplyMoved, SupplyPositions
  <1>7. Worth(r.shares, r.atoms, m.vault.supply.atoms_per_share) /\ r.atoms = atoms
    <2>1. r.atoms = atoms
      BY DEF vault_withdraw_atoms, OnSupply, withdraw_atoms
    <2> QED BY <2>1, MarketTypes, SupplyWorth
  <1>8. pos.shares - out.pos.shares = r.shares /\ out.pos.shares <= pos.shares /\ out.atoms = atoms
    BY <1>1, <1>2, <1>3, <1>5 DEF SupplyPositions
  <1> QED BY <1>6, <1>7, <1>8 DEF Sold

LEMMA WithdrawAllEffect ==
    ASSUME NEW m \in Markets, NEW pos \in SupplyPositions, NEW out \in withdraw_all(m, pos)
    PROVE  SupplyEffect(m, pos, out) /\ Sold(pos, out, m.vault.supply.atoms_per_share)
  <1>1. PICK r \in vault_withdraw_shares(m.vault, pos.shares) :
            out = [m |-> [m EXCEPT !.vault = r.vault],
                   pos |-> [shares |-> 0, deposited |-> 0], atoms |-> r.atoms]
    BY DEF withdraw_all
  <1>2. pos.shares \in Nat
    BY DEF SupplyPositions
  <1>3. SupplyMoved(m.vault, r.vault, -pos.shares) /\ SameFeesAndClock(m.vault, r.vault)
    BY <1>2, MarketTypes, VaultWithdrawShares
  <1>4. r.vault \in Vaults
    BY <1>3 DEF SupplyMoved
  <1>5. /\ out.pos \in SupplyPositions /\ out.pos.shares = 0
        /\ out.m \in Markets /\ out.m.vault = r.vault /\ out.m.collateral = m.collateral
    BY <1>1, <1>4, SetVault, Zenon DEF SupplyPositions
  <1>6. SupplyEffect(m, pos, out)
    BY <1>2, <1>3, <1>5, MarketTypes DEF SupplyEffect, SupplyMoved
  <1>7. /\ Worth(r.shares, r.atoms, m.vault.supply.atoms_per_share) /\ r.shares = pos.shares
        /\ r.atoms \in Nat
    <2>1. r.shares = pos.shares
      BY DEF vault_withdraw_shares, OnSupply, withdraw_shares_down
    <2> QED BY <1>2, <2>1, MarketTypes, SupplyWorth, VaultWithdrawShares
  <1>8. pos.shares - out.pos.shares = pos.shares /\ out.pos.shares <= pos.shares /\ out.atoms = r.atoms
    BY <1>1, <1>2, <1>5
  <1> QED BY <1>6, <1>7, <1>8 DEF Sold

LEMMA RedeemEffect ==
    ASSUME NEW m \in Markets, NEW out \in redeem_protocol_fees(m) \cup redeem_curator_fees(m)
    PROVE  /\ out.atoms \in Nat /\ FeeEffect(m, out.m)
           /\ LET v == m.vault
                  w == out.m.vault
              IN  \/ /\ out \in redeem_protocol_fees(m)
                     /\ w.curator_fee_shares = v.curator_fee_shares
                     /\ FeePaid(v.protocol_fee_shares, w.protocol_fee_shares, out.atoms,
                                w.supply.atoms_per_share)
                  \/ /\ out \in redeem_curator_fees(m)
                     /\ w.protocol_fee_shares = v.protocol_fee_shares
                     /\ FeePaid(v.curator_fee_shares, w.curator_fee_shares, out.atoms,
                                w.supply.atoms_per_share)
  <1>0. m.vault \in Vaults /\ m.vault.protocol_fee_shares \in Nat /\ m.vault.curator_fee_shares \in Nat
        /\ m.vault.supply.total_shares \in Nat /\ m.vault.supply.atoms_per_share \in Nat
    BY MarketTypes, VaultTypes
  <1>1. CASE out \in redeem_protocol_fees(m)
    <2>1. PICK r \in vault_redeem_protocol_fees(m.vault) :
              out = [m |-> [m EXCEPT !.vault = r.vault], atoms |-> r.atoms]
      BY <1>1 DEF redeem_protocol_fees
    <2>2. /\ r.atoms \in Nat /\ SupplyMoved(m.vault, r.vault, -m.vault.protocol_fee_shares)
          /\ r.vault.protocol_fee_shares = 0
          /\ r.vault.curator_fee_shares = m.vault.curator_fee_shares
          /\ r.vault.last_update = m.vault.last_update
          /\ m.vault.protocol_fee_shares * m.vault.supply.atoms_per_share
               < (r.atoms + 1) * (UOne * UOne)
      BY <1>0, VaultRedeemProtocol
    <2>3. r.vault \in Vaults
      BY <2>2 DEF SupplyMoved
    <2>4. out.m \in Markets /\ out.m.vault = r.vault /\ out.m.collateral = m.collateral
          /\ out.atoms = r.atoms
      BY <2>1, <2>3, SetVault, Zenon
    <2>5. FeeEffect(m, out.m)
      BY <1>0, <2>2, <2>4 DEF FeeEffect, FeeShareSum, SupplyMoved
    <2> QED BY <1>1, <2>2, <2>4, <2>5 DEF FeePaid, SupplyMoved
  <1>2. CASE out \in redeem_curator_fees(m)
    <2>1. PICK r \in vault_redeem_curator_fees(m.vault) :
              out = [m |-> [m EXCEPT !.vault = r.vault], atoms |-> r.atoms]
      BY <1>2 DEF redeem_curator_fees
    <2>2. /\ r.atoms \in Nat /\ SupplyMoved(m.vault, r.vault, -m.vault.curator_fee_shares)
          /\ r.vault.curator_fee_shares = 0
          /\ r.vault.protocol_fee_shares = m.vault.protocol_fee_shares
          /\ r.vault.last_update = m.vault.last_update
          /\ m.vault.curator_fee_shares * m.vault.supply.atoms_per_share
               < (r.atoms + 1) * (UOne * UOne)
      BY <1>0, VaultRedeemCurator
    <2>3. r.vault \in Vaults
      BY <2>2 DEF SupplyMoved
    <2>4. out.m \in Markets /\ out.m.vault = r.vault /\ out.m.collateral = m.collateral
          /\ out.atoms = r.atoms
      BY <2>1, <2>3, SetVault, Zenon
    <2>5. FeeEffect(m, out.m)
      BY <1>0, <2>2, <2>4 DEF FeeEffect, FeeShareSum, SupplyMoved
    <2> QED BY <1>2, <2>2, <2>4, <2>5 DEF FeePaid, SupplyMoved
  <1> QED BY <1>1, <1>2

LEMMA DonateEffect ==
    ASSUME NEW m \in Markets, NEW atoms \in Nat, NEW out \in donate_supply_atoms(m, atoms)
    PROVE  FeeEffect(m, out.m) /\ SameFeesAndClock(m.vault, out.m.vault)
  <1>1. PICK v \in vault_donate_supply(m.vault, atoms) : out.m = [m EXCEPT !.vault = v]
    BY DEF donate_supply_atoms
  <1>2. SupplyRepriced(m.vault, v) /\ m.vault.supply.atoms_per_share <= v.supply.atoms_per_share
    BY MarketTypes, VaultDonate
  <1>3. v \in Vaults
    BY <1>2 DEF SupplyRepriced
  <1> QED BY <1>1, <1>2, <1>3, SetVault, MarketTypes
          DEF FeeEffect, FeeShareSum, SupplyRepriced, SameFeesAndClock

LEMMA PositionTypes ==
    ASSUME NEW pos \in BorrowPositions
    PROVE  pos.shares \in Nat /\ pos.initial \in Nat /\ pos.collateral \in Nat /\ pos.swept \in Nat
  BY DEF BorrowPositions

LEMMA CollateralEffect ==
    ASSUME NEW m \in Markets, NEW pos \in BorrowPositions, NEW d \in Int,
           NEW x \in move_collateral(m, pos, d)
    PROVE  /\ BorrowEffect(m, pos, x, d) /\ x.pos.swept = pos.swept
           /\ x.m.vault = m.vault /\ x.pos.shares = pos.shares
  <1>1. /\ x.m \in Markets /\ x.m.vault = m.vault /\ x.m.collateral = m.collateral + d
        /\ x.pos \in BorrowPositions /\ x.pos.collateral = pos.collateral + d
        /\ x.pos.shares = pos.shares /\ x.pos.swept = pos.swept
    BY MoveCollateral
  <1> QED BY <1>1 DEF BorrowEffect, SameFeesAndClock

LEMMA DepositCollateralEffect ==
    ASSUME NEW m \in Markets, NEW pos \in BorrowPositions, NEW atoms \in Nat,
           NEW out \in deposit_collateral(m, pos, atoms)
    PROVE  /\ BorrowEffect(m, pos, out, atoms) /\ Unlocked(pos, out)
           /\ out.m.vault = m.vault /\ out.pos.shares = pos.shares
  <1>1. out \in move_collateral(m, pos, atoms) /\ pos.swept = 0
    BY DEF deposit_collateral, capital_sweep_pending
  <1> QED BY <1>1, CollateralEffect DEF Unlocked

LEMMA WithdrawCollateralEffect ==
    ASSUME NEW m \in Markets, NEW pos \in BorrowPositions, NEW atoms \in Nat, NEW c, NEW o,
           NEW out \in withdraw_collateral(m, pos, atoms, c, o)
    PROVE  /\ BorrowEffect(m, pos, out, -atoms) /\ Unlocked(pos, out)
           /\ out.m.vault = m.vault /\ out.pos.shares = pos.shares
           /\ LtvNotAbove(out.m, out.pos, o, c.max_ltv)
  <1>1. /\ out \in move_collateral(m, pos, -atoms) /\ pos.swept = 0
        /\ LtvNotAbove(m, out.pos, o, c.max_ltv)
    BY DEF withdraw_collateral, capital_sweep_pending, LtvNotAbove
  <1>2. out.m.vault = m.vault
    BY <1>1, CollateralEffect
  <1>3. LtvNotAbove(out.m, out.pos, o, c.max_ltv)
    BY <1>1, <1>2 DEF LtvNotAbove, borrow_position_health, health_of
  <1> QED BY <1>1, <1>3, CollateralEffect DEF Unlocked

\* A new vault and a position whose borrow shares moved by d.
LEMMA DebtEffect ==
    ASSUME NEW m \in Markets, NEW pos \in BorrowPositions, NEW w, NEW d \in Int,
           BorrowMoved(m.vault, w, d), NEW p \in BorrowPositions, p.shares = pos.shares + d,
           p.collateral = pos.collateral, NEW out,
           out.m = [m EXCEPT !.vault = w], out.pos = p
    PROVE  BorrowEffect(m, pos, out, 0)
  <1>1. w \in Vaults
    BY DEF BorrowMoved
  <1>2. out.m \in Markets /\ out.m.vault = w /\ out.m.collateral = m.collateral
    BY <1>1, SetVault
  <1> QED BY <1>2, MarketTypes, PositionTypes DEF BorrowEffect, BorrowMoved

LEMMA BorrowOpEffect ==
    ASSUME NEW m \in Markets, NEW pos \in BorrowPositions, NEW atoms \in Nat, NEW c, NEW o,
           NEW out \in borrow(m, pos, atoms, c, o)
    PROVE  /\ BorrowEffect(m, pos, out, 0) /\ Unlocked(pos, out)
           /\ Bought(pos, out, m.vault.borrow.atoms_per_share) /\ out.atoms = atoms
           /\ LtvNotAbove(out.m, out.pos, o, c.max_ltv)
  <1>1. pos.swept = 0 /\ LtvNotAbove(out.m, out.pos, o, c.max_ltv)
    BY DEF borrow, capital_sweep_pending, LtvNotAbove
  <1>2. PICK r \in vault_borrow(m.vault, atoms) : \E p \in position_borrow(pos, atoms, r.shares) :
            out = [m |-> [m EXCEPT !.vault = r.vault], pos |-> p, atoms |-> atoms]
    BY DEF borrow
  <1>3. PICK p \in position_borrow(pos, atoms, r.shares) :
            out = [m |-> [m EXCEPT !.vault = r.vault], pos |-> p, atoms |-> atoms]
    BY <1>2
  <1>4. r.shares \in Nat /\ BorrowMoved(m.vault, r.vault, r.shares)
    BY MarketTypes, VaultBorrow
  <1>5. /\ p \in BorrowPositions /\ p.shares = pos.shares + r.shares
        /\ p.collateral = pos.collateral /\ p.swept = pos.swept
    <2>1. PICK s \in u_safe_add(pos.shares, r.shares), i \in CheckedU64(pos.initial + atoms) :
              p = WithDebt(pos, s, i)
      BY DEF position_borrow
    <2>2. s \in Nat /\ s = pos.shares + r.shares /\ i \in Nat
      BY CheckedUIsNat, CheckedU64IsNat DEF u_safe_add
    <2> QED BY <2>1, <2>2, PositionTypes DEF WithDebt, BorrowPositions
  <1>6. BorrowEffect(m, pos, out, 0)
    BY <1>3, <1>4, <1>5, DebtEffect, SMTT(20)
  <1>7. Worth(r.shares, r.atoms, m.vault.borrow.atoms_per_share) /\ r.atoms = atoms
    <2>1. r.atoms = atoms
      BY DEF vault_borrow, OnBorrow, deposit_atoms
    <2> QED BY <2>1, MarketTypes, BorrowWorth
  <1>8. out.pos.shares - pos.shares = r.shares /\ pos.shares <= out.pos.shares /\ out.atoms = atoms
    BY <1>3, <1>4, <1>5, PositionTypes
  <1>9. Bought(pos, out, m.vault.borrow.atoms_per_share) /\ out.atoms = atoms
    BY <1>7, <1>8 DEF Bought
  <1> QED BY <1>1, <1>3, <1>5, <1>6, <1>9 DEF Unlocked

LEMMA RepayEffect ==
    ASSUME NEW m \in Markets, NEW pos \in BorrowPositions, NEW atoms \in Nat,
           NEW out \in repay(m, pos, atoms)
    PROVE  /\ BorrowEffect(m, pos, out, 0) /\ Unlocked(pos, out)
           /\ Sold(pos, out, m.vault.borrow.atoms_per_share)
  <1>1. pos.swept = 0
    BY DEF repay, capital_sweep_pending
  <1>2. PICK r \in vault_repay_atoms(m.vault, atoms) : \E p \in position_repay(pos, r.shares) :
            out = [m |-> [m EXCEPT !.vault = r.vault], pos |-> p, atoms |-> atoms]
    BY DEF repay
  <1>3. PICK p \in position_repay(pos, r.shares) :
            out = [m |-> [m EXCEPT !.vault = r.vault], pos |-> p, atoms |-> atoms]
    BY <1>2
  <1>4. r.shares \in Nat /\ BorrowMoved(m.vault, r.vault, -r.shares)
    BY MarketTypes, VaultRepayAtoms
  <1>5. Repaid(pos, p, r.shares)
    BY <1>4, PositionRepay
  <1>6. p \in BorrowPositions /\ p.shares = pos.shares + -r.shares
        /\ p.collateral = pos.collateral /\ p.swept = pos.swept
    BY <1>4, <1>5, PositionTypes DEF Repaid
  <1>7. BorrowEffect(m, pos, out, 0)
    BY <1>3, <1>4, <1>6, DebtEffect, SMTT(20)
  <1>8. Worth(r.shares, r.atoms, m.vault.borrow.atoms_per_share) /\ r.atoms = atoms
    <2>1. r.atoms = atoms
      BY DEF vault_repay_atoms, OnBorrow, withdraw_atoms
    <2> QED BY <2>1, MarketTypes, BorrowWorth
  <1>9. pos.shares - out.pos.shares = r.shares /\ out.pos.shares <= pos.shares /\ out.atoms = atoms
    BY <1>3, <1>4, <1>6, PositionTypes
  <1>10. Sold(pos, out, m.vault.borrow.atoms_per_share)
    BY <1>8, <1>9 DEF Sold
  <1> QED BY <1>1, <1>3, <1>6, <1>7, <1>10 DEF Unlocked

LEMMA RepayAllEffect ==
    ASSUME NEW m \in Markets, NEW pos \in BorrowPositions, NEW out \in repay_all(m, pos)
    PROVE  /\ BorrowEffect(m, pos, out, 0) /\ Unlocked(pos, out)
           /\ Sold(pos, out, m.vault.borrow.atoms_per_share)
  <1>1. pos.swept = 0
    BY DEF repay_all, capital_sweep_pending
  <1>2. PICK r \in vault_repay_shares(m.vault, pos.shares) :
            out = [m |-> [m EXCEPT !.vault = r.vault], pos |-> position_repay_all(pos),
                   atoms |-> r.atoms]
    BY DEF repay_all
  <1>3. pos.shares \in Nat /\ BorrowMoved(m.vault, r.vault, -pos.shares)
    BY MarketTypes, PositionTypes, VaultRepayShares
  <1> DEFINE p == position_repay_all(pos)
  <1>4. Repaid(pos, p, pos.shares)
    BY PositionRepayAll
  <1> HIDE DEF p
  <1>5. p \in BorrowPositions /\ p.shares = pos.shares + -pos.shares
        /\ p.collateral = pos.collateral /\ p.swept = pos.swept
    BY <1>3, <1>4 DEF Repaid
  <1>6. out.m = [m EXCEPT !.vault = r.vault] /\ out.pos = p
    BY <1>2 DEF p
  <1>7. BorrowEffect(m, pos, out, 0)
    BY <1>3, <1>5, <1>6, DebtEffect
  <1>8. /\ Worth(r.shares, r.atoms, m.vault.borrow.atoms_per_share) /\ r.shares = pos.shares
        /\ r.atoms \in Nat
    BY <1>3, MarketTypes, BorrowWorth, VaultRepayShares
  <1>9. pos.shares - out.pos.shares = pos.shares /\ out.pos.shares <= pos.shares /\ out.atoms = r.atoms
    BY <1>2, <1>3, <1>5, <1>6
  <1>10. Sold(pos, out, m.vault.borrow.atoms_per_share)
    BY <1>8, <1>9 DEF Sold
  <1> QED BY <1>1, <1>5, <1>6, <1>7, <1>10 DEF Unlocked

\* Two steps of one instruction.
LEMMA BorrowChain ==
    ASSUME NEW m \in Markets, NEW pos \in BorrowPositions, NEW x, NEW r, NEW d \in Int, NEW e \in Int,
           BorrowEffect(m, pos, x, d), BorrowEffect(x.m, x.pos, r, e)
    PROVE  BorrowEffect(m, pos, r, d + e)
  <1>1. x.m \in Markets /\ x.pos \in BorrowPositions
    BY DEF BorrowEffect
  <1>2. r.m \in Markets /\ r.pos \in BorrowPositions
    BY DEF BorrowEffect
  <1>3. SameFeesAndClock(m.vault, r.m.vault)
    BY DEF BorrowEffect, SameFeesAndClock
  <1>4. r.m.vault.borrow.total_shares + pos.shares = m.vault.borrow.total_shares + r.pos.shares
    BY <1>1, <1>2, MarketTypes, PositionTypes, SMTT(30) DEF BorrowEffect
  <1>5. r.m.collateral = m.collateral + (d + e) /\ r.pos.collateral = pos.collateral + (d + e)
    BY <1>1, <1>2, MarketTypes, PositionTypes, SMTT(30) DEF BorrowEffect
  <1> QED BY <1>2, <1>3, <1>4, <1>5 DEF BorrowEffect

\* The repayment of a liquidation is capped by the position's shares.
LEMMA CappedRepaymentEffect ==
    ASSUME NEW m \in Markets, NEW pos \in BorrowPositions, NEW l \in Liquidations,
           NEW r \in CappedRepayment(m, pos, l)
    PROVE  /\ r.shares \in Nat /\ BorrowMoved(m.vault, r.vault, -r.shares)
           /\ r.liquidation \in Liquidations
           /\ Worth(r.shares, r.liquidation.repay, m.vault.borrow.atoms_per_share)
  <1>1. PICK q \in vault_repay_atoms_capped(m.vault, l.repay, pos.shares) :
            r = [vault |-> q.vault, shares |-> q.shares,
                 liquidation |-> adjust_for_max_repay(l, q.atoms)]
    BY DEF CappedRepayment
  <1>2. q.atoms \in Nat /\ q.shares \in Nat /\ BorrowMoved(m.vault, q.vault, -q.shares)
    BY MarketTypes, PositionTypes, TotalIsNat, VaultRepayCapped
  <1>3. Worth(q.shares, q.atoms, m.vault.borrow.atoms_per_share) /\ q.atoms <= l.repay
    BY MarketTypes, PositionTypes, TotalIsNat, RepayCappedWorth
  <1>4. adjust_for_max_repay(l, q.atoms).repay = q.atoms
    BY <1>2, <1>3, TotalIsNat DEF adjust_for_max_repay, Liquidations
  <1> QED BY <1>1, <1>2, <1>3, <1>4, AdjustedIsNat, SMTT(20)

\* A repaid position and a new vault, before collateral moves.
LEMMA RepaidEffect ==
    ASSUME NEW m \in Markets, NEW pos \in BorrowPositions, NEW w, NEW shares \in Nat,
           BorrowMoved(m.vault, w, -shares), NEW p, Repaid(pos, p, shares),
           NEW n \in Markets, n.vault = w, NEW q \in BorrowPositions, q.shares = p.shares,
           NEW d \in Int, n.collateral = m.collateral + d, q.collateral = pos.collateral + d,
           NEW out, out.m = n, out.pos = q
    PROVE  BorrowEffect(m, pos, out, d)
  <1>1. w.borrow.total_shares + pos.shares = m.vault.borrow.total_shares + q.shares
    BY MarketTypes, PositionTypes DEF BorrowMoved, Repaid
  <1> QED BY <1>1 DEF BorrowEffect, BorrowMoved

LEMMA LiquidateEffect ==
    ASSUME NEW m \in Markets, NEW pos \in BorrowPositions, NEW c, NEW o, NEW max_repay \in Nat,
           NEW out \in liquidate(m, pos, c, o, max_repay)
    PROVE  /\ out.seized \in Nat /\ BorrowEffect(m, pos, out, -out.seized) /\ Unlocked(pos, out)
           /\ Sold(pos, out, m.vault.borrow.atoms_per_share)
           /\ \E h \in borrow_position_health(m, pos, o) :
                 ~(h.ltv < c.unhealthy_ltv) /\ LtvNotAbove(out.m, out.pos, o, h.ltv)
  <1>1. pos.swept = 0
    BY DEF liquidate, capital_sweep_pending
  <1> DEFINE Seized(r, x) ==
                out = [m |-> [x.m EXCEPT !.vault = r.vault], pos |-> x.pos,
                       atoms |-> r.liquidation.repay, seized |-> total_collateral(r.liquidation)]
  <1>3. \E h \in borrow_position_health(m, pos, o) :
            /\ LtvNotAbove(out.m, out.pos, o, h.ltv)
            /\ \E l \in compute_liquidation_result(h, pos.collateral, c, o, max_repay) :
                 \E r \in CappedRepayment(m, pos, l) :
                   \E p \in position_repay(pos, r.shares) :
                     \E x \in move_collateral(m, p, -total_collateral(r.liquidation)) : Seized(r, x)
    BY DEF liquidate
  <1> HIDE DEF Seized
  <1>2. PICK h, l, r, p, x :
            /\ h \in borrow_position_health(m, pos, o)
            /\ l \in compute_liquidation_result(h, pos.collateral, c, o, max_repay)
            /\ r \in CappedRepayment(m, pos, l)
            /\ p \in position_repay(pos, r.shares)
            /\ x \in move_collateral(m, p, -total_collateral(r.liquidation))
            /\ Seized(r, x)
            /\ LtvNotAbove(out.m, out.pos, o, h.ltv)
    BY <1>3, Zenon
  <1> USE DEF Seized
  <1>6. ~(h.ltv < c.unhealthy_ltv)
    BY <1>2, Zenon DEF compute_liquidation_result
  <1>7. h.borrowed \in Nat
    BY <1>2, PositionTypes, HealthIsNat DEF borrow_position_health
  <1>8. l \in Liquidations
    BY <1>2, <1>7, PositionTypes, ResultIsNat
  <1>9. /\ r.shares \in Nat /\ BorrowMoved(m.vault, r.vault, -r.shares)
        /\ r.liquidation \in Liquidations
        /\ Worth(r.shares, r.liquidation.repay, m.vault.borrow.atoms_per_share)
    BY <1>2, <1>8, CappedRepaymentEffect
  <1> DEFINE seized == total_collateral(r.liquidation)
  <1>10. seized \in Nat /\ -seized \in Int
    BY <1>9, TotalIsNat
  <1>11. Repaid(pos, p, r.shares) /\ p \in BorrowPositions
    BY <1>2, <1>9, PositionRepay DEF Repaid
  <1>12. /\ x.m \in Markets /\ x.m.collateral = m.collateral + -seized
         /\ x.pos \in BorrowPositions /\ x.pos.collateral = p.collateral + -seized
         /\ x.pos.shares = p.shares /\ x.pos.swept = p.swept
    BY <1>2, <1>10, <1>11, MoveCollateral
  <1>13. r.vault \in Vaults
    BY <1>9 DEF BorrowMoved
  <1>14. /\ out.m \in Markets /\ out.m.vault = r.vault /\ out.m.collateral = x.m.collateral
         /\ out.pos = x.pos /\ out.seized = seized
    BY <1>2, <1>12, <1>13, SetVault, Zenon
  <1> HIDE DEF seized
  <1>15. x.pos.collateral = pos.collateral + -seized /\ x.pos.swept = pos.swept
    BY <1>11, <1>12 DEF Repaid
  <1>16. BorrowEffect(m, pos, out, -seized)
    BY <1>9, <1>10, <1>11, <1>12, <1>14, <1>15, RepaidEffect, Zenon
  <1>17. /\ pos.shares - out.pos.shares = r.shares /\ out.pos.shares <= pos.shares
         /\ out.atoms = r.liquidation.repay /\ out.atoms \in Nat
    BY <1>2, <1>9, <1>11, <1>12, <1>14, TotalIsNat, PositionTypes, SMTT(20) DEF Repaid
  <1>18. Sold(pos, out, m.vault.borrow.atoms_per_share)
    BY <1>9, <1>17, SMTT(20) DEF Sold
  <1> QED BY <1>2, <1>6, <1>1, <1>10, <1>14, <1>15, <1>16, <1>18 DEF Unlocked

LEMMA BeginSweepEffect ==
    ASSUME NEW m \in Markets, NEW pos \in BorrowPositions, NEW c, NEW o,
           NEW out \in begin_capital_sweep(m, pos, c, o)
    PROVE  /\ out.swept \in Nat /\ BorrowEffect(m, pos, out, -out.swept)
           /\ pos.swept = 0 /\ out.pos.collateral = 0
           /\ out.m.vault = m.vault /\ out.pos.shares = pos.shares
           /\ out.swept = pos.collateral /\ out.pos.swept = pos.collateral
           /\ \E h \in borrow_position_health(m, pos, o) : c.unhealthy_ltv <= h.ltv
  <1>1. pos.swept = 0 /\ \E h \in borrow_position_health(m, pos, o) : c.unhealthy_ltv <= h.ltv
    BY DEF begin_capital_sweep, capital_sweep_pending
  <1>2. PICK t \in CheckedU64(m.collateral - pos.collateral) :
            out = [m |-> [m EXCEPT !.collateral = t], pos |-> WithCollateral(pos, 0, pos.collateral),
                   swept |-> pos.collateral]
    BY DEF begin_capital_sweep
  <1>3. t \in Nat /\ t = m.collateral - pos.collateral
    BY CheckedU64IsNat
  <1>4. /\ out.m \in Markets /\ out.m.vault = m.vault /\ out.m.collateral = t
        /\ out.pos \in BorrowPositions /\ out.pos.collateral = 0 /\ out.pos.shares = pos.shares
        /\ out.swept = pos.collateral /\ out.pos.swept = pos.collateral
    BY <1>2, <1>3, PositionTypes DEF Markets, BorrowPositions, WithCollateral
  <1> QED BY <1>1, <1>3, <1>4, PositionTypes, MarketTypes, SMTT(30) DEF BorrowEffect, SameFeesAndClock

\* A pending sweep holds the position's whole collateral, so storing the
\* returned collateral overwrites none.
LEMMA SettleSweepEffect ==
    ASSUME NEW m \in Markets, NEW pos \in BorrowPositions,
           pos.swept # 0 => pos.collateral = 0,
           NEW c, NEW o, NEW max_repay \in Nat, NEW max_return,
           NEW out \in settle_capital_sweep(m, pos, c, o, max_repay, max_return)
    PROVE  /\ out.returned \in Nat /\ BorrowEffect(m, pos, out, out.returned)
           /\ Sold(pos, out, m.vault.borrow.atoms_per_share)
           /\ pos.swept # 0 /\ out.pos.swept = 0 /\ out.pos.collateral = out.returned
           /\ out.pos.collateral <= pos.swept /\ out.pos.shares <= pos.shares
           /\ \E ltv : LtvNotAbove(out.m, out.pos, o, ltv)
  <1>0. \E ltv : LtvNotAbove(out.m, out.pos, o, ltv)
    BY SMTT(20) DEF settle_capital_sweep
  <1> DEFINE Outcome(r, x, p, t) ==
                out = [m |-> [vault |-> r.vault, collateral |-> t], pos |-> WithCollateral(p, x, 0),
                       atoms |-> r.liquidation.repay, returned |-> x]
             Returned(r) == CheckedU64(pos.swept - total_collateral(r.liquidation))
             Computed(h) == IF h.ltv < c.unhealthy_ltv
                            THEN {NoLiquidation}
                            ELSE compute_liquidation_result(h, pos.swept, c, o, max_repay)
  <1>2. PICK h, l, r, x, p, t :
            /\ h \in swept_position_health(m, pos, o)
            /\ l \in Computed(h)
            /\ r \in CappedRepayment(m, pos, l)
            /\ x \in Returned(r)
            /\ p \in position_repay(pos, r.shares) /\ t \in CheckedU64(m.collateral + x)
            /\ Outcome(r, x, p, t)
    BY SMTT(20) DEF settle_capital_sweep
  <1>1. h \in health_of(m, pos.shares, pos.swept, o) /\ pos.swept # 0 /\ pos.collateral = 0
    BY <1>2 DEF swept_position_health, capital_sweep_pending
  <1>7. h.borrowed \in Nat
    BY <1>1, PositionTypes, HealthIsNat
  <1>8. l \in Liquidations
    <2>1. NoLiquidation \in Liquidations
      BY DEF NoLiquidation, Liquidations
    <2> QED BY <1>2, <1>7, <2>1, PositionTypes, ResultIsNat
  <1>9. /\ r.shares \in Nat /\ BorrowMoved(m.vault, r.vault, -r.shares)
        /\ r.liquidation \in Liquidations
        /\ Worth(r.shares, r.liquidation.repay, m.vault.borrow.atoms_per_share)
    BY <1>2, <1>8, CappedRepaymentEffect
  <1>10. x \in Nat /\ x = pos.swept - total_collateral(r.liquidation) /\ x <= pos.swept
    <2>1. total_collateral(r.liquidation) \in Nat /\ pos.swept \in Nat
      BY <1>9, TotalIsNat, PositionTypes
    <2>2. x \in Nat /\ x = pos.swept - total_collateral(r.liquidation)
      BY <1>2, CheckedU64IsNat
    <2> QED BY <2>1, <2>2
  <1>11. t \in Nat /\ t = m.collateral + x
    BY <1>2, CheckedU64IsNat
  <1>12. Repaid(pos, p, r.shares) /\ p \in BorrowPositions /\ r.shares <= pos.shares
    BY <1>2, <1>9, PositionRepay, SMTT(20) DEF Repaid
  <1>13. r.vault \in Vaults
    BY <1>9, SMTT(20) DEF BorrowMoved
  <1>14. /\ out.m \in Markets /\ out.m.vault = r.vault /\ out.m.collateral = m.collateral + x
         /\ out.pos \in BorrowPositions /\ out.pos.shares = p.shares
         /\ out.pos.collateral = x /\ out.pos.swept = 0 /\ out.returned = x
         /\ out.atoms = r.liquidation.repay
    BY <1>2, <1>10, <1>11, <1>12, <1>13, PositionTypes, SMTT(20) DEF Markets, BorrowPositions, WithCollateral
  <1> HIDE DEF Outcome, Returned, Computed
  <1>15. out.pos.collateral = pos.collateral + x
    <2>1. out.pos.collateral = x /\ pos.collateral = 0
      BY <1>1, <1>14
    <2>2. x = 0 + x
      BY <1>10
    <2> QED BY <2>1, <2>2
  <1>16. BorrowEffect(m, pos, out, x)
    <2>1. x \in Int
      BY <1>10
    <2> QED BY <2>1, <1>9, <1>12, <1>14, <1>15, RepaidEffect, Zenon
  <1>17. out.pos.shares <= pos.shares /\ pos.shares - out.pos.shares = r.shares
    <2>1. out.pos.shares = pos.shares - r.shares
      BY <1>12, <1>14 DEF Repaid
    <2>2. pos.shares \in Nat /\ r.shares \in Nat
      BY <1>9, PositionTypes, SMTT(20)
    <2> QED BY <2>1, <2>2
  <1>18. Sold(pos, out, m.vault.borrow.atoms_per_share)
    BY <1>9, <1>14, <1>17, TotalIsNat, SMTT(20) DEF Sold
  <1> QED BY <1>0, <1>1, <1>10, <1>14, <1>16, <1>17, <1>18, SMTT(20)

LEMMA SocializeLossEffect ==
    ASSUME NEW m \in Markets, NEW pos \in BorrowPositions, NEW o,
           NEW out \in socialize_loss(m, pos, o)
    PROVE  /\ out.seized \in Nat /\ PositionEffect(m, pos, out, -out.seized) /\ Unlocked(pos, out)
           /\ out.pos.shares = 0 /\ out.pos.collateral = 0 /\ out.seized = pos.collateral
  <1>1. pos.swept = 0
    BY DEF socialize_loss, capital_sweep_pending
  <1>3. PICK r \in vault_socialize_loss(m.vault, pos.shares),
             x \in move_collateral(m, position_repay_all(pos), -pos.collateral) :
              out = [m |-> [x.m EXCEPT !.vault = r.vault], pos |-> x.pos, seized |-> pos.collateral]
    BY Zenon DEF socialize_loss
  <1>4. pos.collateral \in Nat /\ -pos.collateral \in Int /\ pos.shares \in Nat
    BY PositionTypes
  <1>5. /\ r.vault \in Vaults /\ SameFeesAndClock(m.vault, r.vault)
        /\ r.vault.supply.total_shares = m.vault.supply.total_shares
        /\ r.vault.borrow.atoms_per_share = m.vault.borrow.atoms_per_share
        /\ r.vault.borrow.total_shares = m.vault.borrow.total_shares - pos.shares
    BY <1>4, MarketTypes, VaultSocialize
  <1> DEFINE p == position_repay_all(pos)
  <1>6. Repaid(pos, p, pos.shares)
    BY PositionRepayAll
  <1>7. /\ p \in BorrowPositions /\ p.shares = 0
        /\ p.collateral = pos.collateral /\ p.swept = pos.swept
    BY <1>4, <1>6, SMTT(20) DEF Repaid
  <1>8. /\ x.m \in Markets /\ x.m.collateral = m.collateral + -pos.collateral
        /\ x.pos \in BorrowPositions /\ x.pos.collateral = p.collateral + -pos.collateral
        /\ x.pos.shares = p.shares /\ x.pos.swept = p.swept
    BY <1>4, <1>7, MoveCollateral
  <1> HIDE DEF p
  <1>9. /\ out.m \in Markets /\ out.m.vault = r.vault /\ out.m.collateral = x.m.collateral
        /\ out.pos = x.pos /\ out.seized = pos.collateral
    BY <1>3, <1>5, <1>8, SetVault, Zenon
  <1>10. r.vault.borrow.total_shares + pos.shares = m.vault.borrow.total_shares + out.pos.shares
    <2>1. out.pos.shares = 0
      BY <1>7, <1>8, <1>9, SMTT(20)
    <2>2. m.vault.borrow.total_shares \in Nat
      BY MarketTypes, SMTT(20)
    <2> QED BY <1>4, <1>5, <2>1, <2>2, SMTT(30)
  <1>11. PositionEffect(m, pos, out, -out.seized) /\ Unlocked(pos, out)
    BY <1>1, <1>4, <1>5, <1>7, <1>8, <1>9, <1>10, SMTT(20) DEF PositionEffect, Unlocked
  <1>12. pos.collateral + -pos.collateral = 0
    BY <1>4
  <1> QED BY <1>4, <1>7, <1>8, <1>9, <1>11, <1>12, SMTT(20)

-----------------------------------------------------------------------------
(***************************************************************************)
(* Every method on a borrow position draws, releases, sweeps, settles or   *)
(* writes off.                                                             *)
(***************************************************************************)

\* Nothing for nothing, as in an instruction that moves collateral only.
LEMMA WorthNothing ==
    ASSUME NEW m \in Markets, NEW pos \in BorrowPositions, NEW n, n = pos.shares
    PROVE  n <= pos.shares /\ pos.shares <= n /\ Worth(n - pos.shares, 0, m.vault.borrow.atoms_per_share)
           /\ Worth(pos.shares - n, 0, m.vault.borrow.atoms_per_share)
  <1> DEFINE price == m.vault.borrow.atoms_per_share
  <1>1. n \in Nat /\ price \in Nat
    BY PositionTypes, MarketTypes
  <1> HIDE DEF price
  <1>2. UOne \in Nat \ {0}
    BY FixedPointAssumption
  <1>3. UOne * UOne \in Nat \ {0}
    BY <1>2
  <1>4. 0 * price - 0 * (UOne * UOne) = 0
    BY <1>1, <1>3
  <1>5. Worth(0, 0, price)
    BY <1>3, <1>4 DEF Worth
  <1>6. n - n = 0 /\ n <= n
    BY <1>1
  <1> QED BY <1>5, <1>6 DEF price

LEMMA MinusZero == \A k \in Int : k + -0 = k /\ k + 0 = k
  OBVIOUS

LEMMA DepositDraws ==
    ASSUME NEW m \in Markets, NEW pos \in BorrowPositions, NEW atoms \in Nat, NEW c, NEW o,
           NEW r \in deposit_collateral(m, pos, atoms)
    PROVE  Draws(m, pos, r, 0, atoms, c, o)
  BY DepositCollateralEffect, WorthNothing DEF Draws

LEMMA BorrowDraws ==
    ASSUME NEW m \in Markets, NEW pos \in BorrowPositions, NEW atoms \in Nat, NEW c, NEW o,
           NEW r \in borrow(m, pos, atoms, c, o)
    PROVE  Draws(m, pos, r, atoms, 0, c, o)
  BY BorrowOpEffect, SMTT(20) DEF Draws, Bought

LEMMA DepositBorrowDraws ==
    ASSUME NEW m \in Markets, NEW pos \in BorrowPositions, NEW d \in Nat, NEW atoms \in Nat,
           NEW c, NEW o, NEW x \in deposit_collateral(m, pos, d),
           NEW r \in borrow(x.m, x.pos, atoms, c, o)
    PROVE  Draws(m, pos, r, atoms, d, c, o)
  <1>1. /\ BorrowEffect(m, pos, x, d) /\ Unlocked(pos, x)
        /\ x.m.vault = m.vault /\ x.pos.shares = pos.shares
    BY DepositCollateralEffect
  <1>2. x.m \in Markets /\ x.pos \in BorrowPositions
    BY <1>1 DEF BorrowEffect
  <1>3. Draws(x.m, x.pos, r, atoms, 0, c, o)
    BY <1>2, BorrowDraws
  <1>4. d \in Int /\ 0 \in Int /\ d + 0 = d
    OBVIOUS
  <1>5. BorrowEffect(m, pos, r, d)
    <2>1. BorrowEffect(m, pos, r, d + 0)
      BY <1>1, <1>3, <1>4, BorrowChain, SMTT(20) DEF Draws
    <2> QED BY <1>4, <2>1, SMTT(20)
  <1> QED BY <1>1, <1>3, <1>5, SMTT(20) DEF Draws, Unlocked

LEMMA WithdrawReleases ==
    ASSUME NEW m \in Markets, NEW pos \in BorrowPositions, NEW d \in Nat, NEW c, NEW o,
           NEW r \in withdraw_collateral(m, pos, d, c, o)
    PROVE  Releases(m, pos, r, 0, d, c, o)
  BY WithdrawCollateralEffect, WorthNothing, SMTT(20) DEF Releases

LEMMA RepayReleases ==
    ASSUME NEW m \in Markets, NEW pos \in BorrowPositions, NEW atoms \in Nat, NEW c, NEW o,
           NEW r \in repay(m, pos, atoms) \cup repay_all(m, pos)
    PROVE  r.atoms \in Nat /\ Releases(m, pos, r, r.atoms, 0, c, o)
  <1>1. /\ BorrowEffect(m, pos, r, 0) /\ Unlocked(pos, r)
        /\ Sold(pos, r, m.vault.borrow.atoms_per_share)
    BY RepayEffect, RepayAllEffect
  <1>2. m.collateral \in Int /\ pos.collateral \in Int
    BY MarketTypes, PositionTypes, SMTT(20)
  <1>3. BorrowEffect(m, pos, r, -0)
    BY <1>1, <1>2, MinusZero, SMTT(20) DEF BorrowEffect
  <1> QED BY <1>1, <1>3 DEF Releases, Sold

LEMMA RepayWithdrawReleases ==
    ASSUME NEW m \in Markets, NEW pos \in BorrowPositions, NEW atoms \in Nat, NEW d \in Nat,
           NEW c, NEW o, NEW x \in repay(m, pos, atoms) \cup repay_all(m, pos),
           NEW r \in withdraw_collateral(x.m, x.pos, d, c, o)
    PROVE  x.atoms \in Nat /\ Releases(m, pos, r, x.atoms, d, c, o)
  <1>1. /\ BorrowEffect(m, pos, x, 0) /\ Unlocked(pos, x)
        /\ Sold(pos, x, m.vault.borrow.atoms_per_share)
    BY RepayEffect, RepayAllEffect
  <1>2. x.m \in Markets /\ x.pos \in BorrowPositions
    BY <1>1, SMTT(20) DEF BorrowEffect
  <1>3. /\ BorrowEffect(x.m, x.pos, r, -d) /\ Unlocked(x.pos, r) /\ r.pos.shares = x.pos.shares
        /\ LtvNotAbove(r.m, r.pos, o, c.max_ltv)
    BY <1>2, WithdrawCollateralEffect
  <1>4. -d \in Int /\ 0 \in Int /\ 0 + -d = -d
    OBVIOUS
  <1>5. BorrowEffect(m, pos, r, -d)
    <2>1. BorrowEffect(m, pos, r, 0 + -d)
      BY <1>1, <1>3, <1>4, BorrowChain, SMTT(20)
    <2> QED BY <1>4, <2>1
  <1> QED BY <1>1, <1>3, <1>5, SMTT(20) DEF Releases, Unlocked, Sold

LEMMA LiquidateReleases ==
    ASSUME NEW m \in Markets, NEW pos \in BorrowPositions, NEW c, NEW o, NEW max_repay \in Nat,
           NEW r \in liquidate(m, pos, c, o, max_repay)
    PROVE  r.atoms \in Nat /\ r.seized \in Nat /\ Releases(m, pos, r, r.atoms, r.seized, c, o)
  BY LiquidateEffect DEF Releases, Sold, Liquidated

LEMMA BeginSweeps ==
    ASSUME NEW m \in Markets, NEW pos \in BorrowPositions, NEW c, NEW o,
           NEW r \in begin_capital_sweep(m, pos, c, o)
    PROVE  Sweeps(m, pos, r, c, o) /\ r.swept = pos.collateral
  BY BeginSweepEffect, SMTT(20) DEF Sweeps

LEMMA SettlementSettles ==
    ASSUME NEW m \in Markets, NEW pos \in BorrowPositions,
           pos.swept # 0 => pos.collateral = 0,
           NEW c, NEW o, NEW max_repay \in Nat, NEW max_return,
           NEW r \in settle_capital_sweep(m, pos, c, o, max_repay, max_return)
    PROVE  Settles(m, pos, r, o)
  BY SettleSweepEffect DEF Settles

LEMMA LossWritesOff ==
    ASSUME NEW m \in Markets, NEW pos \in BorrowPositions, NEW o,
           NEW r \in socialize_loss(m, pos, o)
    PROVE  WritesOff(m, pos, r) /\ r.seized = pos.collateral
  BY SocializeLossEffect DEF WritesOff
=============================================================================
