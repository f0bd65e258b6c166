----------------------------- MODULE SupplyVault -----------------------------
(***************************************************************************)
(* autara-lib/src/state/supply_vault.rs: the lending pool of a market.  It *)
(* owns one tracker for the suppliers' shares and one for the borrowers',  *)
(* and the fee shares that neither the protocol nor the curator has        *)
(* redeemed yet.                                                           *)
(***************************************************************************)
EXTENDS SharesTracker

CONSTANT OneInBps    \* bps::ONE_IN_BPS (10000 in the program)

ASSUME OneInBpsAssumption == OneInBps \in Nat \ {0}

Vaults == [supply : Trackers, borrow : Trackers,
           protocol_fee_shares : Nat, curator_fee_shares : Nat, last_update : Nat]

NewVault(now) == [supply |-> initialize, borrow |-> initialize,
                  protocol_fee_shares |-> 0, curator_fee_shares |-> 0, last_update |-> now]

total_supply(v) == shares_to_atoms_down(v.supply, v.supply.total_shares)

total_borrow(v) == shares_to_atoms_up(v.borrow, v.borrow.total_shares)

\* No debt is a utilisation of zero; debt without supply is an error.
utilisation_rate(v) ==
    UNION {IF b = 0 THEN {0} ELSE i_safe_div(b * IOne, s * IOne) :
           s \in total_supply(v), b \in total_borrow(v)}

\* get_summary can fail, and every user instruction logs a summary after its
\* state change: a summary that fails aborts the instruction.
SummaryOk(v) ==
    /\ utilisation_rate(v) # {}
    /\ shares_to_atoms_down(v.supply, v.curator_fee_shares) # {}
    /\ shares_to_atoms_down(v.supply, v.protocol_fee_shares) # {}

bps_from_fixed_point(bps, x) == {y \div OneInBps : y \in CheckedU(x * bps)}

\* sync_clock: the borrow rate over the elapsed time, whatever the curve made
\* it, is the input rate.  Borrowers pay rate, suppliers earn rate * utilisation
\* of the vault before the accrual, less the market fee, which is split between
\* protocol and curator.
accrue(v, now, rate, fee, protocol_share) ==
    LET Split(borrow, r) ==
            UNION {{[supply |-> r.tracker, borrow |-> borrow,
                     protocol_fee_shares |-> p, curator_fee_shares |-> c,
                     last_update |-> now] :
                       p \in u_safe_add(v.protocol_fee_shares, protocol),
                       c \in UNION {u_safe_add(v.curator_fee_shares, d) :
                                    d \in u_safe_sub(r.shares, protocol)}} :
                   protocol \in bps_from_fixed_point(protocol_share, r.shares)}
    IN  UNION {UNION {UNION {Split(borrow, r) :
                        r \in apply_interest_rate_with_fee(v.supply, i_mul(rate, u), fee)} :
                      borrow \in apply_interest_rate(v.borrow, rate)} :
               u \in utilisation_rate(v)}

sync_clock(v, now, rate, fee, protocol_share) ==
    IF now > v.last_update THEN accrue(v, now, rate, fee, protocol_share) ELSE {v}

\* A supply-side or borrow-side tracker outcome as a vault outcome.
OnSupply(v, outcomes) ==
    {[vault |-> [v EXCEPT !.supply = r.tracker], shares |-> r.shares, atoms |-> r.atoms] :
        r \in outcomes}

OnBorrow(v, outcomes) ==
    {[vault |-> [v EXCEPT !.borrow = r.tracker], shares |-> r.shares, atoms |-> r.atoms] :
        r \in outcomes}

vault_lend(v, atoms) == OnSupply(v, deposit_atoms(v.supply, atoms))

vault_withdraw_atoms(v, atoms) == OnSupply(v, withdraw_atoms(v.supply, atoms))

vault_withdraw_shares(v, shares) == OnSupply(v, withdraw_shares_down(v.supply, shares))

vault_borrow(v, atoms) == OnBorrow(v, deposit_atoms(v.borrow, atoms))

vault_repay_atoms(v, atoms) == OnBorrow(v, withdraw_atoms(v.borrow, atoms))

vault_repay_shares(v, shares) == OnBorrow(v, withdraw_shares_up(v.borrow, shares))

vault_repay_atoms_capped(v, atoms, max_shares) ==
    OnBorrow(v, withdraw_atoms_capped(v.borrow, atoms, max_shares))

\* Mutant: the redeemed fee shares are not cleared.
vault_redeem_protocol_fees_Kept(v) == vault_withdraw_shares(v, v.protocol_fee_shares)

vault_redeem_protocol_fees(v) ==
    vault_withdraw_shares([v EXCEPT !.protocol_fee_shares = 0], v.protocol_fee_shares)

vault_redeem_curator_fees(v) ==
    vault_withdraw_shares([v EXCEPT !.curator_fee_shares = 0], v.curator_fee_shares)

\* Mutant: the debt is forgiven and the suppliers keep their price.
vault_socialize_loss_Forgiven(v, debt_shares) == vault_repay_shares(v, debt_shares)

\* The debt leaves the borrow side and is taken out of the supply price.
vault_socialize_loss(v, debt_shares) ==
    UNION {{[r EXCEPT !.vault.supply = t] : t \in socialize_loss_atoms(v.supply, r.atoms)} :
           r \in vault_repay_shares(v, debt_shares)}

vault_donate_supply(v, atoms) ==
    {[v EXCEPT !.supply = t] : t \in donate_atoms(v.supply, atoms)}
=============================================================================
