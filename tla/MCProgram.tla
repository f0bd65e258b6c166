------------------------------ MODULE MCProgram ------------------------------
(***************************************************************************)
(* Small instances of AutaraProgram.                                       *)
(***************************************************************************)
EXTENDS PoolRefinement

Q(r, c) == [rate |-> r, confidence |-> c]

BaseConfig == [max_ltv |-> 2, unhealthy_ltv |-> 3, bonus |-> 1, max_utilisation |-> 4,
               max_supply |-> 6, fee |-> 4, protocol_share |-> 2, max_age |-> 1,
               max_confidence |-> 2]

\* The curator may lower or raise either LTV bound, lower the utilisation cap
\* and turn the fee off.
SomeConfigs == {BaseConfig,
                [BaseConfig EXCEPT !.max_ltv = 1, !.unhealthy_ltv = 2],
                [BaseConfig EXCEPT !.max_utilisation = 2, !.fee = 0],
                [BaseConfig EXCEPT !.max_supply = 1, !.max_age = 0]}

\* One atom of supply is worth 1, one of collateral 2, 5/4 or 1; two prices of
\* the collateral are published with a confidence, one too uncertain to be used.
CrowdQuotes == {Q(8, 0), Q(5, 0), Q(4, 0)}
TimeQuotes == {Q(8, 0), Q(5, 2), Q(5, 4)}
SomeQuotes == [supply |-> {Q(4, 0)}, collateral |-> CrowdQuotes \cup TimeQuotes]

(***************************************************************************)
(* Two slices of the state space, which together are small enough: two     *)
(* borrowers at one time and under one configuration, with losses and      *)
(* donations; and one borrower while time passes, the configuration        *)
(* changes and prices are uncertain, with one token less.                  *)
(***************************************************************************)
VARIABLE slice

Quote == [rate |-> oracle.collateral.rate, confidence |-> oracle.collateral.confidence]

Crowd == now = 0 /\ config = BaseConfig /\ Quote \in CrowdQuotes

Time ==
  /\ \A b \in Borrowers \ {CHOOSE x \in Borrowers : TRUE} :
       borrow_positions[b].collateral = 0 /\ borrow_positions[b].shares = 0
  /\ market.vault.supply.atoms_per_share \notin SharePrices \ {UOne}   \* no loss
  /\ supply_tokens <= 2
  /\ Quote \in TimeQuotes

InSlice == IF slice = "crowd" THEN Crowd ELSE Time

SliceInit == Init /\ slice \in {"crowd", "time"} /\ InSlice

SliceNext == Next /\ slice' = slice /\ InSlice'

SliceSpec == SliceInit /\ [][SliceNext]_<<vars, slice>>
=============================================================================
