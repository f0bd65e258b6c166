----------------------------- MODULE LendingPool -----------------------------
(***************************************************************************)
(* What a market promises its users, without totals, trackers, oracles or  *)
(* a clock: an account book of who holds which claims and debts and whose  *)
(* collateral lies where.  AutaraProgram implements it (PoolRefinement).   *)
(*                                                                         *)
(* A step changes the account of one user, and every change of an account  *)
(* is paid for: claims and debts are traded for cash at the one price that *)
(* holds for everybody, collateral moves atom for atom.                    *)
(***************************************************************************)
EXTENDS Integers

CONSTANTS Suppliers, Borrowers,
          One,              \* the value of one atom, in units of price
          Par               \* the price of a share of a new market

FeeOwners == {"protocol", "curator"}

VARIABLES claims,           \* shares of each supplier
          fees,             \* shares of each fee owner
          debts,            \* borrow shares of each borrower
          pledged,          \* collateral atoms of each borrower in the market
          custody,          \* those the curator has taken to sell
          cash,             \* supply atoms the market holds
          vault,            \* collateral atoms the market holds
          claim_price,      \* value of a claim
          debt_price        \* value of a unit of debt

vars == <<claims, fees, debts, pledged, custody, cash, vault, claim_price, debt_price>>

Init ==
    /\ claims = [s \in Suppliers |-> 0]
    /\ fees = [o \in FeeOwners |-> 0]
    /\ debts = [b \in Borrowers |-> 0]
    /\ pledged = [b \in Borrowers |-> 0]
    /\ custody = [b \in Borrowers |-> 0]
    /\ cash = 0
    /\ vault = 0
    /\ claim_price = Par
    /\ debt_price = Par

\* n shares against atoms, at price, off by less than one share or one atom.
Fair(n, atoms, price) ==
    LET off == n * price - atoms * One
    IN  \/ -price < off /\ off < price
        \/ -One < off /\ off < One

\* Nobody's entry of the book but x's changes.
Only(book, new, x) == new = [book EXCEPT ![x] = new[x]]

\* Interest may accrue in any step: debts become dearer and fees grow.
Accrue ==
    /\ debt_price <= debt_price'
    /\ \A o \in FeeOwners : fees[o] <= fees'[o]

Supply(s) ==
    /\ Accrue
    /\ Only(claims, claims', s)
    /\ claims[s] <= claims'[s] /\ cash <= cash'
    /\ Fair(claims'[s] - claims[s], cash' - cash, claim_price')
    /\ UNCHANGED <<debts, pledged, custody, vault>>

Redeem(s) ==
    /\ Accrue
    /\ Only(claims, claims', s)
    /\ claims'[s] <= claims[s] /\ cash' <= cash
    /\ Fair(claims[s] - claims'[s], cash - cash', claim_price')
    /\ UNCHANGED <<debts, pledged, custody, vault>>

\* Pledge, borrow, or both.
Draw(b) ==
    /\ Accrue
    /\ custody[b] = 0
    /\ Only(debts, debts', b) /\ Only(pledged, pledged', b)
    /\ debts[b] <= debts'[b] /\ cash' <= cash
    /\ Fair(debts'[b] - debts[b], cash - cash', debt_price')
    /\ pledged[b] <= pledged'[b]
    /\ vault' - vault = pledged'[b] - pledged[b]
    /\ UNCHANGED <<claims, custody>>

\* Repay and take collateral, or either: by the owner or by a liquidator.
Release(b) ==
    /\ Accrue
    /\ custody[b] = 0
    /\ Only(debts, debts', b) /\ Only(pledged, pledged', b)
    /\ debts'[b] <= debts[b] /\ cash <= cash'
    /\ Fair(debts[b] - debts'[b], cash' - cash, debt_price')
    /\ pledged'[b] <= pledged[b]
    /\ vault - vault' = pledged[b] - pledged'[b]
    /\ UNCHANGED <<claims, custody>>

\* The curator takes the whole collateral.
Sweep(b) ==
    /\ Accrue
    /\ custody[b] = 0
    /\ custody' = [custody EXCEPT ![b] = pledged[b]]
    /\ pledged' = [pledged EXCEPT ![b] = 0]
    /\ vault - vault' = pledged[b]
    /\ UNCHANGED <<claims, debts, cash>>

\* The curator repays debt and returns what is left of the collateral.
Settle(b) ==
    /\ Accrue
    /\ custody[b] # 0 /\ pledged[b] = 0
    /\ custody' = [custody EXCEPT ![b] = 0]
    /\ Only(debts, debts', b) /\ Only(pledged, pledged', b)
    /\ debts'[b] <= debts[b] /\ cash <= cash'
    /\ Fair(debts[b] - debts'[b], cash' - cash, debt_price')
    /\ pledged'[b] <= custody[b]
    /\ vault' - vault = pledged'[b]
    /\ UNCHANGED claims

\* The debt of b is forgiven at the suppliers' expense; its collateral leaves.
WriteOff(b) ==
    /\ Accrue
    /\ custody[b] = 0
    /\ debts' = [debts EXCEPT ![b] = 0]
    /\ pledged' = [pledged EXCEPT ![b] = 0]
    /\ vault - vault' = pledged[b]
    /\ UNCHANGED <<claims, custody, cash>>

\* Fees accrued in this very step are paid out with the others.
RedeemFees(o) ==
    /\ debt_price <= debt_price'
    /\ \A p \in FeeOwners \ {o} : fees[p] <= fees'[p]
    /\ fees'[o] = 0
    /\ cash' <= cash
    /\ fees[o] * claim_price' < (cash - cash' + 1) * One
    /\ UNCHANGED <<claims, debts, pledged, custody, vault>>

\* A gift to the suppliers, or interest alone.
Donate ==
    /\ Accrue
    /\ cash <= cash'
    /\ UNCHANGED <<claims, debts, pledged, custody, vault>>

Next ==
    \/ \E s \in Suppliers : Supply(s) \/ Redeem(s)
    \/ \E b \in Borrowers : Draw(b) \/ Release(b) \/ Sweep(b) \/ Settle(b) \/ WriteOff(b)
    \/ \E o \in FeeOwners : RedeemFees(o)
    \/ Donate

Spec == Init /\ [][Next]_vars
=============================================================================
