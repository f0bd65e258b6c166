------------------------- MODULE AutaraProgramProofs -------------------------
(***************************************************************************)
(* The theorems about the lending program.  ProgramEntries proves that     *)
(* every step is one of the entries of ProgramEffects; ConservationProofs, *)
(* PoolRefinementProofs and HealthProofs prove what each entry preserves.  *)
(***************************************************************************)
EXTENDS ProgramEntries, ConservationProofs, PoolRefinementProofs, HealthProofs

LEMMA StepsEnter ==
    ASSUME Base, [Next]_vars
    PROVE  Entry
  <1>1. TypeOK /\ SweptIsWhole
    BY DEF Base
  <1> QED BY <1>1, StepsAreEntries, SMTT(20)

LEMMA EveryStep ==
    ASSUME Base, [Next]_vars
    PROVE  BaseStep
  BY StepsEnter, EveryEntry, SMTT(20)

-----------------------------------------------------------------------------
\* The invariant is inductive: create_market establishes it and every
\* instruction of the program preserves it.
THEOREM BaseInvariance == Spec => []Base
  <1>1. Base /\ [Next]_vars => Base'
    BY EveryStep DEF BaseStep
  <1> QED BY <1>1, InitBase, PTL DEF Spec

\* No instruction leaves the u64 and fixed-point ranges: every balance, share
\* count and price stays a natural number and the token accounts stay within
\* the tokens that exist.
THEOREM TypeCorrect == Spec => []TypeOK
  <1>1. Base => TypeOK
    BY DEF Base
  <1> QED BY <1>1, BaseInvariance, PTL

\* Interest never lowers the debt of a share: no accrual and no other step of
\* sync_clock, for any rate, lowers the price of a borrow share.
THEOREM BorrowPriceIsMonotone == Spec => BorrowPriceNeverFalls
  <1>1. Base /\ [Next]_vars =>
            [market.vault.borrow.atoms_per_share <= market'.vault.borrow.atoms_per_share]_vars
    BY EveryStep DEF BaseStep, BorrowPriceKept
  <1> QED BY <1>1, BaseInvariance, PTL DEF Spec, BorrowPriceNeverFalls

\* A pending sweep locks its position until settle_capital_sweep.
THEOREM SweepLocks == Spec => SweptPositionLocked
  <1>1. Base /\ [Next]_vars =>
            [\A b \in Borrowers :
                capital_sweep_pending(borrow_positions[b]) =>
                    LeftAloneOrSettled(borrow_positions[b], borrow_positions'[b])]_vars
    BY EveryStep DEF BaseStep, LocksKept
  <1> QED BY <1>1, BaseInvariance, PTL DEF Spec, SweptPositionLocked

\* Only socialize_loss lowers the price of a supply share by more than the low
\* bits that the conversion to IFixedPoint drops: lend, withdraw, fee
\* redemption and accrual with its lending fee never take from the suppliers,
\* for any rate and any fee a configuration may set.
THEOREM SuppliersLoseOnlyByLoss == Spec => SupplyPriceFallsOnlyByLoss
  <1>1. Base /\ [Next]_vars =>
            [\/ \E b \in Borrowers : SocializeLoss(b)
             \/ market'.vault.supply.atoms_per_share
                  > market.vault.supply.atoms_per_share - LowBits]_vars
    BY EveryStep DEF BaseStep, SupplyPriceKept
  <1> QED BY <1>1, BaseInvariance, PTL DEF Spec, SupplyPriceFallsOnlyByLoss

\* The conservation invariants are inductive together: every instruction of
\* the program preserves them.
THEOREM Invariance == Spec => []IInv
  <1>1. IInv /\ [Next]_vars => IInv'
    <2>1. IInv => Base
      BY DEF IInv
    <2> QED BY <2>1, StepsEnter, EntriesConserve, SMTT(20)
  <1> QED BY <1>1, InitOk, PTL DEF Spec

\* Supply shares, fee shares included, are conserved by every instruction of
\* the program, whatever its roundings do.
THEOREM SupplySharesAreConserved == Spec => []SupplySharesConserved
  <1>1. IInv => SupplySharesConserved
    BY DEF IInv
  <1> QED BY <1>1, Invariance, PTL

\* Borrow shares are conserved by borrow, repay, liquidate,
\* settle_capital_sweep and socialize_loss.
THEOREM BorrowSharesAreConserved == Spec => []BorrowSharesConserved
  <1>1. IInv => BorrowSharesConserved
    BY DEF IInv
  <1> QED BY <1>1, Invariance, PTL

\* The collateral vault, the positions and the token account agree on the
\* collateral, through sweeps and liquidations.
THEOREM CollateralIsConserved == Spec => []CollateralConserved
  <1>1. IInv => CollateralConserved
    BY DEF IInv
  <1> QED BY <1>1, Invariance, PTL

\* The program implements the account book: no instruction, whatever its
\* roundings, touches an account it is not about, trades at another price than
\* the one it leaves, or moves tokens without an entry.
THEOREM ProgramImplementsPool == Spec => ImplementsPool
  <1>1. Base /\ [Next]_vars => [Pool!Next]_(Pool!vars)
    BY StepsEnter, EntriesRefine, SMTT(20)
  <1> QED BY <1>1, InitRefines, BaseInvariance, PTL DEF Spec, ImplementsPool, Pool!Spec

\* Backed debt is inductive with the quotes that an instruction can meet.
BackedInv == Base /\ QuotesPublished /\ DebtIsBacked

\* Debt without collateral cannot arise, as long as an atom of either token has
\* a value at every quote that load_and_validate accepts: every instruction that
\* takes collateral away or adds debt computes the health of what it leaves.
THEOREM BackedInvariance == ASSUME AtomsHaveValue PROVE Spec => []BackedInv
  <1>1. Init => BackedInv
    BY InitBase, InitBacked, SMTT(20) DEF BackedInv
  <1>2. BackedInv /\ [Next]_vars => BackedInv'
    <2> SUFFICES ASSUME BackedInv, [Next]_vars PROVE BackedInv'
      OBVIOUS
    <2>1. Base /\ QuotesPublished /\ DebtIsBacked
      BY DEF BackedInv
    <2>2. Entry
      BY <2>1, StepsEnter, SMTT(20)
    <2>3. Base'
      BY <2>1, EveryStep, SMTT(20) DEF BaseStep
    <2>4. QuotesPublished' /\ DebtIsBacked'
      BY <2>1, <2>2, EntriesStayBacked, SMTT(20)
    <2> QED BY <2>3, <2>4, SMTT(20) DEF BackedInv
  <1> QED BY <1>1, <1>2, PTL DEF Spec

\* Every position that owes has collateral, in the vault or with the curator, so
\* its health can be computed and it can be liquidated or written off.
THEOREM DebtStaysBacked == ASSUME AtomsHaveValue PROVE Spec => []DebtIsBacked
  <1>1. BackedInv => DebtIsBacked
    BY DEF BackedInv
  <1> QED BY <1>1, BackedInvariance, PTL

\* No instruction makes a healthy position liquidatable, its owner's, another
\* user's or the curator's: only a price or the passing of time does.  What a
\* position owes must be a u64, or borrow_position_health fails on it before
\* the step and may find it unhealthy after a partial repayment.
THEOREM HealthyTillPriceOrTime == ASSUME AtomsHaveValue PROVE Spec /\ []DebtFits => HealthyUntilPriceOrTime
  <1>1. BackedInv /\ DebtFits /\ [Next]_vars =>
            [\A b \in Borrowers :
                Unhealthy(b)' /\ ~capital_sweep_pending(borrow_positions[b]) =>
                    \/ Unhealthy(b)
                    \/ oracle' # oracle
                    \/ now' # now]_vars
    <2> SUFFICES ASSUME BackedInv, DebtFits, [Next]_vars, NEW b \in Borrowers, Unhealthy(b)',
                        ~capital_sweep_pending(borrow_positions[b]), oracle' = oracle, now' = now
                 PROVE  Unhealthy(b)
      OBVIOUS
    <2>1. Base /\ QuotesPublished /\ DebtIsBacked
      BY DEF BackedInv
    <2>2. Entry
      BY <2>1, StepsEnter, SMTT(20)
    <2> QED BY <2>1, <2>2, EntriesKeepHealth, SMTT(20)
  <1> QED BY <1>1, BackedInvariance, PTL DEF Spec, HealthyUntilPriceOrTime
=============================================================================
