---------------------------- MODULE MCLiquidation ----------------------------
(***************************************************************************)
(* Small instances of LiquidationSteps.                                    *)
(***************************************************************************)
EXTENDS LiquidationSteps

Pyth == [kind |-> "pyth", feed_id |-> "F", program_id |-> "P", required_signatures |-> 0]

Chaos(n) == [kind |-> "chaos", feed_id |-> "F", program_id |-> "C", required_signatures |-> n]

\* An account of the feed, with one decimal.
Account(p, price, conf) ==
    [key |-> oracle_feed_pubkey(p), owner |-> p.program_id,
     layout |-> IF p.kind = "pyth" THEN "new" ELSE "chaos", id |-> p.feed_id,
     price |-> price, conf |-> conf, expo |-> -1, publish_time |-> 0, signatures |-> 1]

Feed(p, account) == [provider |-> p, account |-> account]

OneToOne == {Feed(Pyth, Account(Pyth, 10, 0))}

\* Rates of 16, 19, 24 and 32 units, some with a confidence, and accounts that
\* no market reads.
FourRates ==
    { Feed(Pyth, [Account(Pyth, 1, 0) EXCEPT !.expo = 0]),
      Feed(Chaos(1), Account(Chaos(1), 12, 0)),
      Feed(Pyth, Account(Pyth, 15, 1)),
      Feed(Pyth, Account(Pyth, 20, 2)),
      Feed(Pyth, Account(Pyth, 10, 10)),
      Feed(Pyth, [Account(Pyth, 1, 0) EXCEPT !.expo = 2]),
      Feed(Pyth, [Account(Pyth, 10, 0) EXCEPT !.layout = "legacy"]),
      Feed(Pyth, [Account(Pyth, 10, 0) EXCEPT !.owner = "C"]),
      Feed(Chaos(0), Account(Chaos(0), 10, 0)),
      Feed(Chaos(2), Account(Chaos(2), 10, 0)),
      Feed(Chaos(1), Account(Pyth, 10, 0)) }

DebtSizes == 1..24

CollateralSizes == 1..20

BudgetSizes == {1, 2, 5, 30}

TwoConfigs == {[max_ltv |-> 10, unhealthy_ltv |-> 13, bonus |-> 1],
               [max_ltv |-> 8, unhealthy_ltv |-> 12, bonus |-> 2]}
=============================================================================
