------------------------------- MODULE Market -------------------------------
(***************************************************************************)
(* autara-lib/src/state/market.rs with the positions it works on           *)
(* (borrow_position.rs, supply_position.rs, collateral_vault.rs).          *)
(*                                                                         *)
(* Each operator is one method of Market.  It takes the market m, which is *)
(* [vault, collateral] (the supply vault and the collateral vault's total),*)
(* the position pos it may change, the market's configuration c and the    *)
(* two oracle quotes o, and returns the set of its outcomes: a record with *)
(* the new m, the new pos and the atoms that must be transferred.          *)
(***************************************************************************)
EXTENDS SupplyVault, Liquidation

CONSTANTS SupplyUnit,        \* 10^decimals of the supply mint
          CollateralUnit,    \* 10^decimals of the collateral mint
          TargetMargin       \* TARGET_LTV_LIQUIDATION_MARGIN, 0.9 as IFixedPoint

ASSUME MarketAssumption ==
    /\ SupplyUnit \in Nat \ {0}
    /\ CollateralUnit \in Nat \ {0}
    /\ TargetMargin \in 0..IOne

Markets == [vault : Vaults, collateral : Nat]

SupplyPositions == [shares : Nat, deposited : Nat]

BorrowPositions == [shares : Nat, initial : Nat, collateral : Nat, swept : Nat]

capital_sweep_pending(pos) == pos.swept # 0

\* The part of a position's atom counter that leaves with its shares.
Share(shares, all_shares, atoms) ==
    {u_rounded_down(q * atoms) : q \in u_safe_div(shares, all_shares)}

\* SupplyPosition::lend, withdraw, withdraw_all.
position_lend(pos, atoms, shares) ==
    {[shares |-> s, deposited |-> d] :
        s \in u_safe_add(pos.shares, shares), d \in CheckedU64(pos.deposited + atoms)}

position_withdraw(pos, shares) ==
    CASE shares < pos.shares ->
            {[shares |-> pos.shares - shares, deposited |-> pos.deposited - a] :
                a \in Share(shares, pos.shares, pos.deposited)}
      [] shares = pos.shares -> {[shares |-> 0, deposited |-> 0]}
      [] shares > pos.shares -> {}

\* BorrowPosition::borrow, repay, repay_all, deposit and withdraw.
WithDebt(pos, s, i) ==
    [shares |-> s, initial |-> i, collateral |-> pos.collateral, swept |-> pos.swept]

position_borrow(pos, atoms, shares) ==
    {WithDebt(pos, s, i) :
        s \in u_safe_add(pos.shares, shares), i \in CheckedU64(pos.initial + atoms)}

position_repay_all(pos) == WithDebt(pos, 0, 0)

\* Mutant: repaying more than is owed clears the position.
position_repay_Saturating(pos, shares) ==
    IF shares < pos.shares
    THEN {WithDebt(pos, pos.shares - shares, pos.initial - a) :
             a \in Share(shares, pos.shares, pos.initial)}
    ELSE {position_repay_all(pos)}

position_repay(pos, shares) ==
    CASE shares < pos.shares ->
            {WithDebt(pos, pos.shares - shares, pos.initial - a) :
                a \in Share(shares, pos.shares, pos.initial)}
      [] shares = pos.shares -> {position_repay_all(pos)}
      [] shares > pos.shares -> {}

\* Mutant: the position's own balance is not checked.
move_collateral_Unchecked(m, pos, atoms) ==
    {[m |-> [m EXCEPT !.collateral = t], pos |-> [pos EXCEPT !.collateral = @ + atoms]] :
        t \in CheckedU64(m.collateral + atoms)}

WithCollateral(pos, c, s) ==
    [shares |-> pos.shares, initial |-> pos.initial, collateral |-> c, swept |-> s]

\* A deposit (atoms > 0) or withdrawal (atoms < 0) of collateral, in the
\* position and in the vault's total.
move_collateral(m, pos, atoms) ==
    {[m |-> [m EXCEPT !.collateral = t], pos |-> [pos EXCEPT !.collateral = p]] :
        t \in CheckedU64(m.collateral + atoms), p \in CheckedU64(pos.collateral + atoms)}

\* borrow_position_health_with_collateral_atoms: debt without collateral value
\* is a division by zero, so it has no health.
health_of(m, shares, collateral, o) ==
    UNION {LET bv == borrow_value(o.supply, b, SupplyUnit)
               cv == collateral_value(o.collateral, collateral, CollateralUnit)
           IN  {[ltv |-> ltv, borrowed |-> b] :
                    ltv \in IF bv = 0 THEN {0} ELSE i_safe_div(bv, cv)} :
           b \in shares_to_atoms_up(m.vault.borrow, shares)}

borrow_position_health(m, pos, o) == health_of(m, pos.shares, pos.collateral, o)

\* Every withdrawal from the supply side checks the utilisation it leaves.
UtilisationWithin(m, max) == \E u \in utilisation_rate(m.vault) : u <= max

lend(m, pos, atoms, c) ==
    {out \in UNION {{[m |-> [m EXCEPT !.vault = r.vault], pos |-> p, atoms |-> atoms] :
                        p \in position_lend(pos, atoms, r.shares)} :
                    r \in vault_lend(m.vault, atoms)} :
        \E s \in total_supply(out.m.vault) : s <= c.max_supply}

withdraw(m, pos, atoms) ==
    {out \in UNION {{[m |-> [m EXCEPT !.vault = r.vault], pos |-> p, atoms |-> atoms] :
                        p \in position_withdraw(pos, r.shares)} :
                    r \in vault_withdraw_atoms(m.vault, atoms)} :
        UtilisationWithin(out.m, IOne)}

withdraw_all(m, pos) ==
    {out \in {[m |-> [m EXCEPT !.vault = r.vault],
               pos |-> [shares |-> 0, deposited |-> 0], atoms |-> r.atoms] :
                 r \in vault_withdraw_shares(m.vault, pos.shares)} :
        UtilisationWithin(out.m, IOne)}

redeem_protocol_fees(m) ==
    {out \in {[m |-> [m EXCEPT !.vault = r.vault], atoms |-> r.atoms] :
                 r \in vault_redeem_protocol_fees(m.vault)} :
        UtilisationWithin(out.m, IOne)}

redeem_curator_fees(m) ==
    {out \in {[m |-> [m EXCEPT !.vault = r.vault], atoms |-> r.atoms] :
                 r \in vault_redeem_curator_fees(m.vault)} :
        UtilisationWithin(out.m, IOne)}

donate_supply_atoms(m, atoms) ==
    {[m |-> [m EXCEPT !.vault = v], atoms |-> atoms] : v \in vault_donate_supply(m.vault, atoms)}

\* Mutant: no check for a pending sweep.
deposit_collateral_Unlocked(m, pos, atoms) == move_collateral(m, pos, atoms)

deposit_collateral(m, pos, atoms) ==
    IF capital_sweep_pending(pos) THEN {} ELSE move_collateral(m, pos, atoms)

\* Mutant: the health of the position before the withdrawal is checked.
withdraw_collateral_StaleHealth(m, pos, atoms, c, o) ==
    {out \in IF capital_sweep_pending(pos) THEN {} ELSE move_collateral(m, pos, -atoms) :
        \E h \in borrow_position_health(m, pos, o) : h.ltv <= c.max_ltv}

withdraw_collateral(m, pos, atoms, c, o) ==
    {out \in IF capital_sweep_pending(pos) THEN {} ELSE move_collateral(m, pos, -atoms) :
        /\ ~(out.pos.collateral = 0 /\ out.pos.shares # 0)
        /\ \E h \in borrow_position_health(m, out.pos, o) : h.ltv <= c.max_ltv}

borrow(m, pos, atoms, c, o) ==
    {out \in UNION {{[m |-> [m EXCEPT !.vault = r.vault], pos |-> p, atoms |-> atoms] :
                        p \in position_borrow(pos, atoms, r.shares)} :
                    r \in IF capital_sweep_pending(pos) THEN {} ELSE vault_borrow(m.vault, atoms)} :
        /\ \E h \in borrow_position_health(out.m, out.pos, o) : h.ltv <= c.max_ltv
        /\ UtilisationWithin(out.m, c.max_utilisation)}

repay(m, pos, atoms) ==
    UNION {{[m |-> [m EXCEPT !.vault = r.vault], pos |-> p, atoms |-> atoms] :
                p \in position_repay(pos, r.shares)} :
           r \in IF capital_sweep_pending(pos) THEN {} ELSE vault_repay_atoms(m.vault, atoms)}

repay_all(m, pos) ==
    {[m |-> [m EXCEPT !.vault = r.vault], pos |-> position_repay_all(pos), atoms |-> r.atoms] :
        r \in IF capital_sweep_pending(pos) THEN {} ELSE vault_repay_shares(m.vault, pos.shares)}

target_ltv_after_liquidation(c) ==
    LET margin == i_mul(c.unhealthy_ltv, TargetMargin)
    IN  IF margin >= c.max_ltv THEN margin ELSE c.max_ltv

\* Mutant: no special case from 100% LTV on.
compute_liquidation_result_AlwaysBonus(h, collateral, c, o, max_repay) ==
    IF h.ltv < c.unhealthy_ltv
    THEN {}
    ELSE compute_liquidation_with_fee(h.borrowed, o.supply, SupplyUnit,
                                      collateral, o.collateral, CollateralUnit,
                                      target_ltv_after_liquidation(c), c.bonus, max_repay)

\* compute_liquidation_result_with_fee_for_collateral, of a position whose
\* health h was computed with that collateral.  From 100% LTV on there is no
\* bonus and the whole collateral is offered for the whole debt.
compute_liquidation_result(h, collateral, c, o, max_repay) ==
    IF h.ltv < c.unhealthy_ltv
    THEN {}
    ELSE IF h.ltv >= IOne
    THEN {adjust_for_max_repay([repay |-> h.borrowed, collateral |-> collateral, bonus |-> 0],
                               max_repay)}
    ELSE compute_liquidation_with_fee(h.borrowed, o.supply, SupplyUnit,
                                      collateral, o.collateral, CollateralUnit,
                                      target_ltv_after_liquidation(c), c.bonus, max_repay)

\* What the debt repaid really allows: the shares repaid are capped by the
\* position's, and the liquidation is scaled down to the atoms they are worth.
CappedRepayment(m, pos, l) ==
    {[vault |-> r.vault, shares |-> r.shares, liquidation |-> adjust_for_max_repay(l, r.atoms)] :
        r \in vault_repay_atoms_capped(m.vault, l.repay, pos.shares)}

LtvNotAbove(m, pos, o, ltv) == \E h \in borrow_position_health(m, pos, o) : h.ltv <= ltv

liquidate(m, pos, c, o, max_repay) ==
    LET Seize(r) ==
            {[m |-> [x.m EXCEPT !.vault = r.vault], pos |-> x.pos,
              atoms |-> r.liquidation.repay,
              seized |-> total_collateral(r.liquidation)] :
                x \in UNION {move_collateral(m, p, -total_collateral(r.liquidation)) :
                             p \in position_repay(pos, r.shares)}}
    IN  UNION {UNION {{out \in UNION {Seize(r) : r \in CappedRepayment(m, pos, l)} :
                            LtvNotAbove(out.m, out.pos, o, h.ltv)} :
                      l \in compute_liquidation_result(h, pos.collateral, c, o, max_repay)} :
               h \in IF capital_sweep_pending(pos) THEN {} ELSE borrow_position_health(m, pos, o)}

\* Mutant: the vault's total does not follow the position.
begin_capital_sweep_TotalKept(m, pos, c, o) ==
    {[m |-> m, pos |-> WithCollateral(pos, 0, pos.collateral),
      swept |-> pos.collateral] :
        h \in {x \in borrow_position_health(m, pos, o) :
                  ~capital_sweep_pending(pos) /\ c.unhealthy_ltv <= x.ltv /\ x.ltv < IOne}}

\* The whole collateral of an unhealthy but solvent position goes to the
\* curator; the position is locked until it is settled.
begin_capital_sweep(m, pos, c, o) ==
    {[m |-> [m EXCEPT !.collateral = t], pos |-> WithCollateral(pos, 0, pos.collateral),
      swept |-> pos.collateral] :
        t \in IF /\ ~capital_sweep_pending(pos)
                 /\ \E h \in borrow_position_health(m, pos, o) :
                        c.unhealthy_ltv <= h.ltv /\ h.ltv < IOne
              THEN CheckedU64(m.collateral - pos.collateral)
              ELSE {}}

\* The health of a swept position counts the collateral the curator holds.
swept_position_health(m, pos, o) ==
    IF capital_sweep_pending(pos) THEN health_of(m, pos.shares, pos.swept, o) ELSE {}

\* Mutant: the sweep of a position that became healthy is not settled.
settle_capital_sweep_UnhealthyOnly(m, pos, c, o, max_repay, max_return) ==
    LET Returned(l) == {x \in CheckedU64(pos.swept - total_collateral(l)) : x <= max_return}
        Settle(r) ==
            UNION {{[m |-> [vault |-> r.vault, collateral |-> t],
                     pos |-> WithCollateral(p, x, 0),
                     atoms |-> r.liquidation.repay, returned |-> x] :
                        p \in position_repay(pos, r.shares), t \in CheckedU64(m.collateral + x)} :
                   x \in Returned(r.liquidation)}
    IN  UNION {UNION {UNION {Settle(r) : r \in CappedRepayment(m, pos, l)} :
                      l \in compute_liquidation_result(h, pos.swept, c, o, max_repay)} :
               h \in swept_position_health(m, pos, o)}

\* The curator repays and keeps what a liquidation at settlement time would
\* seize, and returns the rest.  A position that became healthy is returned
\* whole.  The returned collateral is checked against the curator's cap before
\* and after the repayment is capped.
settle_capital_sweep(m, pos, c, o, max_repay, max_return) ==
    LET Computed(h) ==
            IF h.ltv < c.unhealthy_ltv
            THEN {NoLiquidation}
            ELSE compute_liquidation_result(h, pos.swept, c, o, max_repay)
        Returned(l) == {x \in CheckedU64(pos.swept - total_collateral(l)) : x <= max_return}
        Settle(r) ==
            UNION {{[m |-> [vault |-> r.vault, collateral |-> t],
                     pos |-> WithCollateral(p, x, 0),
                     atoms |-> r.liquidation.repay, returned |-> x] :
                        p \in position_repay(pos, r.shares), t \in CheckedU64(m.collateral + x)} :
                   x \in Returned(r.liquidation)}
    IN  UNION {UNION {{out \in UNION {Settle(r) : r \in CappedRepayment(m, pos, l)} :
                            LtvNotAbove(out.m, out.pos, o, h.ltv)} :
                      l \in {l \in Computed(h) : Returned(l) # {}}} :
               h \in swept_position_health(m, pos, o)}

\* The debt of an insolvent position is taken from the suppliers, its
\* collateral goes to the curator's receiver.
socialize_loss(m, pos, o) ==
    UNION {{[m |-> [x.m EXCEPT !.vault = r.vault], pos |-> x.pos, seized |-> pos.collateral] :
                x \in move_collateral(m, position_repay_all(pos), -pos.collateral)} :
           r \in IF /\ ~capital_sweep_pending(pos)
                    /\ \E h \in borrow_position_health(m, pos, o) : h.ltv >= IOne
                 THEN vault_socialize_loss(m.vault, pos.shares)
                 ELSE {}}
=============================================================================
