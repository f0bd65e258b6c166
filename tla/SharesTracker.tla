---------------------------- MODULE SharesTracker ----------------------------
(***************************************************************************)
(* autara-lib/src/math/shares_tracker.rs: a pool of atoms divided into     *)
(* shares, of which every share is worth atoms_per_share.  The supply side *)
(* and the borrow side of a market each own one tracker.                   *)
(*                                                                         *)
(* An operation takes the tracker and returns the set of its outcomes      *)
(* (see FixedPoint): a record with the new tracker, and the shares and     *)
(* atoms it moved.                                                         *)
(***************************************************************************)
EXTENDS FixedPoint

Trackers == [total_shares : Nat, atoms_per_share : Nat]

initialize == [total_shares |-> 0, atoms_per_share |-> UOne]

atoms_to_shares(t, atoms) == u_safe_div(u_from_u64(atoms), t.atoms_per_share)

shares_to_atoms_down(t, shares) ==
    {u_rounded_down(x) : x \in u_safe_mul(shares, t.atoms_per_share)}

shares_to_atoms_up(t, shares) ==
    {u_rounded_up(x) : x \in u_safe_mul(shares, t.atoms_per_share)}

\* total_shares moves by the shares that enter or leave the pool.
WithShares(t, n) == [t EXCEPT !.total_shares = n]

WithPrice(t, n) == [t EXCEPT !.atoms_per_share = n]

deposit_atoms(t, atoms) ==
    UNION {{[tracker |-> WithShares(t, n), shares |-> s, atoms |-> atoms] :
                n \in u_safe_add(t.total_shares, s)} :
           s \in atoms_to_shares(t, atoms)}

withdraw_atoms(t, atoms) ==
    UNION {{[tracker |-> WithShares(t, n), shares |-> s, atoms |-> atoms] :
                n \in u_safe_sub(t.total_shares, s)} :
           s \in atoms_to_shares(t, atoms)}

withdraw_shares_down(t, shares) ==
    {[tracker |-> WithShares(t, n), shares |-> shares, atoms |-> a] :
        a \in shares_to_atoms_down(t, shares), n \in u_safe_sub(t.total_shares, shares)}

withdraw_shares_up(t, shares) ==
    {[tracker |-> WithShares(t, n), shares |-> shares, atoms |-> a] :
        a \in shares_to_atoms_up(t, shares), n \in u_safe_sub(t.total_shares, shares)}

\* The only caller rounds up (SupplyVault::repay_atoms_capped).
withdraw_atoms_capped(t, atoms, max_shares) ==
    UNION {IF s > max_shares
           THEN withdraw_shares_up(t, max_shares)
           ELSE withdraw_atoms(t, atoms) :
           s \in atoms_to_shares(t, atoms)}

\* Mutant: the interest replaces the price instead of being added to it.
apply_interest_rate_NotAdded(t, rate) ==
    {WithPrice(t, p) : p \in u_from_ifixed(i_mul(rate, i_from_ufixed(t.atoms_per_share)))}

\* interest.safe_add(atoms_per_share) is an IFixedPoint addition: the price
\* loses its low bits whenever interest is applied.
apply_interest_rate(t, rate) ==
    LET aps == i_from_ufixed(t.atoms_per_share)
    IN  IF t.total_shares = 0
        THEN {t}
        ELSE {WithPrice(t, p) : p \in u_from_ifixed(i_mul(rate, aps) + aps)}

FeeShares(fee_atoms, price) ==
    UNION {u_from_ifixed(q) : q \in i_safe_div(fee_atoms, i_from_ufixed(price))}

\* Mutant: the fee is a part of the total, not of the interest on it.
apply_interest_rate_with_fee_OnTotal(t, rate, fee) ==
    LET aps == i_from_ufixed(t.atoms_per_share)
    IN  {[tracker |-> WithPrice(t, p), shares |-> 0] :
            p \in u_from_ifixed(i_mul(rate - i_from_ufixed(fee), aps) + aps)}

\* The fee is taken as new shares at the new price; the outcome's shares are
\* the fee shares.  The curves produce no negative rate, whose error path is
\* left out.
apply_interest_rate_with_fee(t, rate, fee) ==
    LET aps == i_from_ufixed(t.atoms_per_share)
        fee_atoms(total) == i_mul(rate * total, i_from_ufixed(fee))
        net_rate(total) == (rate * total - fee_atoms(total)) \div total
        NewPrice(total) == u_from_ifixed(i_mul(net_rate(total), aps) + aps)
        Accrued(p, s) ==
            {[tracker |-> WithPrice(WithShares(t, n), p), shares |-> s] :
                n \in u_safe_add(s, t.total_shares)}
    IN  UNION {IF total = 0
               THEN {[tracker |-> t, shares |-> 0]}
               ELSE UNION {UNION {Accrued(p, s) : s \in FeeShares(fee_atoms(total), p)} :
                           p \in NewPrice(total)} :
               total \in shares_to_atoms_down(t, t.total_shares)}

donate_atoms(t, atoms) ==
    UNION {{WithPrice(t, p) : p \in u_safe_add(t.atoms_per_share, d)} :
           d \in u_safe_div(u_from_u64(atoms), t.total_shares)}

socialize_loss_atoms(t, atoms) ==
    UNION {{WithPrice(t, p) : p \in u_safe_sub(t.atoms_per_share, d)} :
           d \in u_safe_div(u_from_u64(atoms), t.total_shares)}
=============================================================================
