----------------------------- MODULE OracleRate -----------------------------
(***************************************************************************)
(* autara-lib/src/oracle: an oracle quotes rate +/- confidence.  Debt is   *)
(* valued at the upper bound and collateral at the lower bound.  A quote   *)
(* is the record [rate, confidence, publish_time] of IFixedPoint bits and  *)
(* a time; 10^decimals of a mint is the parameter unit.                    *)
(***************************************************************************)
EXTENDS FixedPoint

lower_bound_rate(q) == q.rate - q.confidence

upper_bound_rate(q) == q.rate + q.confidence

\* POSITIVE_POWER_OF_TEN[decimals] is an IFixedPoint, so each value is one
\* fixed-point product or quotient.
collateral_value(q, atoms, unit) == (lower_bound_rate(q) * atoms) \div unit

borrow_value(q, atoms, unit) == (upper_bound_rate(q) * atoms) \div unit

collateral_atoms(q, value, unit) == i_safe_div(value * unit, lower_bound_rate(q))

borrow_atoms(q, value, unit) == i_safe_div(value * unit, upper_bound_rate(q))

\* OracleRate::validate, then OraclePrice::validate: age and relative
\* confidence against the market's OracleValidationConfig.
ValidRate(q) == /\ q.rate > 0
                /\ q.confidence >= 0
                /\ q.confidence < q.rate

load_and_validate(q, now, max_age, max_confidence) ==
    /\ ValidRate(q)
    /\ now - q.publish_time <= max_age
    /\ \A c \in i_safe_div(q.confidence, q.rate) : c <= max_confidence
=============================================================================
