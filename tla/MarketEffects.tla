---------------------------- MODULE MarketEffects ----------------------------
(***************************************************************************)
(* What the methods of SupplyVault and Market do, in the words the proofs  *)
(* are about.  MarketProofs shows that every method has one of these       *)
(* effects; no code is modelled here.                                      *)
(***************************************************************************)
EXTENDS Market

\* What n shares and atoms are worth: every conversion is off by less than one
\* share or one atom, in units of 1/UOne^2 atoms.
Worth(n, atoms, price) ==
    LET off == n * price - atoms * (UOne * UOne)
    IN  \/ -price < off /\ off < price
        \/ -(UOne * UOne) < off /\ off < UOne * UOne

\* A price with no low bits survives the conversion to an IFixedPoint and back;
\* the borrow price always is such a price.
Aligned(price) == \E k \in Nat : price = k * LowBits

FeeShareSum(v) == v.protocol_fee_shares + v.curator_fee_shares

SameFeesAndClock(v, w) ==
    /\ w.protocol_fee_shares = v.protocol_fee_shares
    /\ w.curator_fee_shares = v.curator_fee_shares
    /\ w.last_update = v.last_update

\* Accrual: the shares it mints are fee shares, no fee owner loses any, the
\* debt keeps its shares and an aligned borrow price does not fall.
Accrued(v, w) ==
    /\ w \in Vaults
    /\ w.borrow.total_shares = v.borrow.total_shares
    /\ w.supply.total_shares + FeeShareSum(v) = v.supply.total_shares + FeeShareSum(w)
    /\ v.protocol_fee_shares <= w.protocol_fee_shares
    /\ v.curator_fee_shares <= w.curator_fee_shares
    /\ Aligned(v.borrow.atoms_per_share) =>
          /\ Aligned(w.borrow.atoms_per_share)
          /\ v.borrow.atoms_per_share <= w.borrow.atoms_per_share

-----------------------------------------------------------------------------
(***************************************************************************)
(* The methods of Market, from the market m and the position pos to the    *)
(* outcome r.  One on the supply side moves the supply shares of the vault *)
(* and of one position together; one on the borrow side moves the borrow   *)
(* shares together, and the collateral of the position and of the vault by *)
(* the d atoms that are transferred.                                       *)
(***************************************************************************)
SupplyEffect(m, pos, r) ==
    /\ r.m \in Markets /\ r.pos \in SupplyPositions
    /\ r.m.collateral = m.collateral
    /\ r.m.vault.borrow = m.vault.borrow
    /\ SameFeesAndClock(m.vault, r.m.vault)
    /\ r.m.vault.supply.atoms_per_share = m.vault.supply.atoms_per_share
    /\ r.m.vault.supply.total_shares + pos.shares = m.vault.supply.total_shares + r.pos.shares

BorrowEffect(m, pos, r, d) ==
    /\ r.m \in Markets /\ r.pos \in BorrowPositions
    /\ SameFeesAndClock(m.vault, r.m.vault)
    /\ r.m.vault.supply = m.vault.supply
    /\ r.m.vault.borrow.atoms_per_share = m.vault.borrow.atoms_per_share
    /\ r.m.vault.borrow.total_shares + pos.shares = m.vault.borrow.total_shares + r.pos.shares
    /\ r.m.collateral = m.collateral + d
    /\ r.pos.collateral = pos.collateral + d

\* The same of a socialised loss too, which also lowers the supply price.
PositionEffect(m, pos, r, d) ==
    /\ r.m \in Markets /\ r.pos \in BorrowPositions
    /\ SameFeesAndClock(m.vault, r.m.vault)
    /\ r.m.vault.supply.total_shares = m.vault.supply.total_shares
    /\ r.m.vault.borrow.atoms_per_share = m.vault.borrow.atoms_per_share
    /\ r.m.vault.borrow.total_shares + pos.shares = m.vault.borrow.total_shares + r.pos.shares
    /\ r.m.collateral = m.collateral + d
    /\ r.pos.collateral = pos.collateral + d

\* The position's shares grow, or shrink, by what r.atoms are worth.
Bought(pos, r, price) ==
    /\ r.atoms \in Nat /\ pos.shares <= r.pos.shares
    /\ Worth(r.pos.shares - pos.shares, r.atoms, price)

Sold(pos, r, price) ==
    /\ r.atoms \in Nat /\ r.pos.shares <= pos.shares
    /\ Worth(pos.shares - r.pos.shares, r.atoms, price)

\* No sweep is pending before or after.
Unlocked(pos, r) == pos.swept = 0 /\ r.pos.swept = 0

\* The protocol's, or the curator's, fee shares n are paid out in full.
FeePaid(n, left, atoms, price) == left = 0 /\ n * price < (atoms + 1) * (UOne * UOne)

\* Redeemed fee shares leave the vault's total with their owner.
FeeEffect(m, n) ==
    /\ n \in Markets
    /\ n.collateral = m.collateral
    /\ n.vault.borrow = m.vault.borrow
    /\ n.vault.last_update = m.vault.last_update
    /\ m.vault.supply.atoms_per_share <= n.vault.supply.atoms_per_share
    /\ n.vault.supply.total_shares + FeeShareSum(m.vault)
         = m.vault.supply.total_shares + FeeShareSum(n.vault)

FeesRedeemed(m, n, atoms) ==
    LET v == m.vault
        w == n.vault
    IN  \/ /\ w.curator_fee_shares = v.curator_fee_shares
           /\ FeePaid(v.protocol_fee_shares, w.protocol_fee_shares, atoms, w.supply.atoms_per_share)
        \/ /\ w.protocol_fee_shares = v.protocol_fee_shares
           /\ FeePaid(v.curator_fee_shares, w.curator_fee_shares, atoms, w.supply.atoms_per_share)

-----------------------------------------------------------------------------
(***************************************************************************)
(* What the borrower's instructions and a liquidation have in common.  One *)
(* draws: it adds debt against atoms, or collateral, or both, and leaves a *)
(* loan-to-value within max_ltv if it adds debt.  The others release: they *)
(* take debt against atoms, or collateral, or both; the collateral leaves  *)
(* under the same limit, or unhealthy and no more so than it was.          *)
(***************************************************************************)
Draws(m, pos, r, atoms, d, c, o) ==
    /\ BorrowEffect(m, pos, r, d) /\ Unlocked(pos, r)
    /\ pos.shares <= r.pos.shares
    /\ Worth(r.pos.shares - pos.shares, atoms, m.vault.borrow.atoms_per_share)
    /\ r.pos.shares = pos.shares \/ LtvNotAbove(r.m, r.pos, o, c.max_ltv)

Liquidated(m, pos, r, c, o) ==
    \E h \in borrow_position_health(m, pos, o) :
        ~(h.ltv < c.unhealthy_ltv) /\ LtvNotAbove(r.m, r.pos, o, h.ltv)

Releases(m, pos, r, atoms, d, c, o) ==
    /\ BorrowEffect(m, pos, r, -d) /\ Unlocked(pos, r)
    /\ r.pos.shares <= pos.shares
    /\ Worth(pos.shares - r.pos.shares, atoms, m.vault.borrow.atoms_per_share)
    /\ d = 0 \/ LtvNotAbove(r.m, r.pos, o, c.max_ltv) \/ Liquidated(m, pos, r, c, o)

\* The whole collateral of an unhealthy position is taken into custody.
Sweeps(m, pos, r, c, o) ==
    /\ BorrowEffect(m, pos, r, -pos.collateral) /\ r.m.vault = m.vault
    /\ pos.swept = 0 /\ r.pos.swept = pos.collateral
    /\ r.pos.collateral = 0 /\ r.pos.shares = pos.shares
    /\ \E h \in borrow_position_health(m, pos, o) : c.unhealthy_ltv <= h.ltv

\* Debt is repaid and the rest of the collateral comes back.
Settles(m, pos, r, o) ==
    /\ r.returned \in Nat /\ BorrowEffect(m, pos, r, r.returned)
    /\ Sold(pos, r, m.vault.borrow.atoms_per_share)
    /\ pos.swept # 0 /\ pos.collateral = 0 /\ r.pos.swept = 0
    /\ r.pos.collateral = r.returned /\ r.returned <= pos.swept
    /\ \E ltv : LtvNotAbove(r.m, r.pos, o, ltv)

\* The debt is forgiven and the collateral leaves.
WritesOff(m, pos, r) ==
    /\ PositionEffect(m, pos, r, -pos.collateral) /\ Unlocked(pos, r)
    /\ r.pos.shares = 0 /\ r.pos.collateral = 0

-----------------------------------------------------------------------------
(***************************************************************************)
(* Health at the quotes o.                                                 *)
(***************************************************************************)

\* The bounds of the quotes that the program uses: an atom has a value.
FairQuotes(o) ==
    /\ lower_bound_rate(o.collateral) \in Nat \ {0}
    /\ upper_bound_rate(o.supply) \in Nat \ {0}
    /\ CollateralUnit <= lower_bound_rate(o.collateral)
    /\ SupplyUnit <= upper_bound_rate(o.supply)

DebtValue(o, b) == borrow_value(o.supply, b, SupplyUnit)
PledgeValue(o, c) == collateral_value(o.collateral, c, CollateralUnit)

\* The loan-to-value of a debt of b atoms on c atoms of collateral.
Rated(o, b, c, ltv) ==
    \/ DebtValue(o, b) = 0 /\ ltv = 0
    \/ /\ DebtValue(o, b) # 0 /\ PledgeValue(o, c) # 0
       /\ ltv = (DebtValue(o, b) * IOne) \div PledgeValue(o, c)
=============================================================================
