---------------------------- MODULE PoolRefinement ----------------------------
(***************************************************************************)
(* AutaraProgram implements LendingPool: the book is read off the          *)
(* positions and the token accounts, never off the market's own totals.    *)
(***************************************************************************)
EXTENDS AutaraProgram

ClaimBook == [s \in Suppliers |-> supply_positions[s].shares]

DebtBook == [b \in Borrowers |-> borrow_positions[b].shares]

PledgeBook == [b \in Borrowers |-> borrow_positions[b].collateral]

CustodyBook == [b \in Borrowers |-> borrow_positions[b].swept]

FeeBook == [o \in {"protocol", "curator"} |->
               IF o = "protocol" THEN market.vault.protocol_fee_shares
                                 ELSE market.vault.curator_fee_shares]

Pool == INSTANCE LendingPool WITH
    One         <- UOne * UOne,
    Par         <- UOne,
    claims      <- ClaimBook,
    fees        <- FeeBook,
    debts       <- DebtBook,
    pledged     <- PledgeBook,
    custody     <- CustodyBook,
    cash        <- supply_tokens,
    vault       <- collateral_tokens,
    claim_price <- market.vault.supply.atoms_per_share,
    debt_price  <- market.vault.borrow.atoms_per_share

\* Every instruction of the program is one entry of the account book: it
\* changes one user's account, for tokens that really move, at the price of
\* that moment, and leaves every other user's account alone.
ImplementsPool == Pool!Spec
=============================================================================
