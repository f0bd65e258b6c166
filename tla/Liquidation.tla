----------------------------- MODULE Liquidation -----------------------------
(***************************************************************************)
(* autara-lib/src/operation/liquidation.rs: how much debt a liquidation    *)
(* repays and how much collateral it seizes.  A liquidation is the record  *)
(* [repay, collateral, bonus] of LiquidationResultWithBonus, in atoms.     *)
(***************************************************************************)
EXTENDS OracleRate

Liquidations == [repay : Nat, collateral : Nat, bonus : Nat]

NoLiquidation == [repay |-> 0, collateral |-> 0, bonus |-> 0]

total_collateral(l) == l.collateral + l.bonus

adjust_for_max_repay(l, max_repay) ==
    IF l.repay > max_repay
    THEN [repay |-> max_repay,
          collateral |-> (l.collateral * max_repay) \div l.repay,
          bonus |-> (l.bonus * max_repay) \div l.repay]
    ELSE l

\* Mutant: the seized collateral is not taken out of the value that backs the
\* remaining debt.
compute_liquidation_CollateralStays(borrowed, so, su, collateral, co, cu, new_ltv) ==
    LET value == borrow_value(so, borrowed, su) - i_mul(collateral_value(co, collateral, cu), new_ltv)
    IN  {[repay |-> r, collateral |-> c, bonus |-> 0] :
            c \in UNION {i_rounded_down(x) : x \in collateral_atoms(co, value, cu)},
            r \in UNION {i_rounded_up(x) : x \in borrow_atoms(so, value, su)}}

\* The value v with borrow_value - v = new_ltv * (collateral_value - v), for the
\* oracle and unit so, su of the debt and co, cu of the collateral.  The code's
\* cast of a negative value to u64 is an error.
compute_liquidation(borrowed, so, su, collateral, co, cu, new_ltv) ==
    UNION {{[repay |-> r, collateral |-> c, bonus |-> 0] :
                c \in UNION {i_rounded_down(x) : x \in collateral_atoms(co, value, cu)},
                r \in UNION {i_rounded_up(x) : x \in borrow_atoms(so, value, su)}} :
           value \in i_safe_div(borrow_value(so, borrowed, su)
                                  - i_mul(collateral_value(co, collateral, cu), new_ltv),
                                IOne - new_ltv)}

MinOf(a, b) == IF a <= b THEN a ELSE b

\* Mutant: the bonus is computed before the liquidation is scaled down to the
\* liquidator's budget.
compute_liquidation_with_fee_BonusOnAll(borrowed, so, su, collateral, co, cu, new_ltv, fee, max_repay) ==
    {[adjust_for_max_repay(l, MinOf(max_repay, borrowed)) EXCEPT
         !.bonus = MinOf((l.collateral * fee) \div IOne, collateral - l.collateral)] :
        l \in UNION {compute_liquidation(borrowed, so, su, adjusted, co, cu,
                                         i_mul(new_ltv, IOne + fee)) :
                     adjusted \in UNION {i_rounded_down(x) :
                                         x \in i_safe_div(collateral * IOne, IOne + fee)}}}

compute_liquidation_with_fee(borrowed, so, su, collateral, co, cu, new_ltv, fee, max_repay) ==
    LET adjusted_new_ltv == i_mul(new_ltv, IOne + fee)
        WithBonus(l) ==
            LET bonus == (l.collateral * fee) \div IOne
            IN  {[l EXCEPT !.bonus = b] :
                    b \in CheckedU64(MinOf(bonus, collateral - l.collateral))}
    IN  UNION {UNION {WithBonus(adjust_for_max_repay(l, MinOf(max_repay, borrowed))) :
                      l \in compute_liquidation(borrowed, so, su, adjusted, co, cu,
                                                adjusted_new_ltv)} :
               adjusted \in UNION {i_rounded_down(x) :
                                   x \in i_safe_div(collateral * IOne, IOne + fee)}}
=============================================================================
