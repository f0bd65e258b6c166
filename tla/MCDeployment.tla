---------------------------- MODULE MCDeployment ----------------------------
EXTENDS Deployment

\* A run with every step, by a tool that holds the authority of both mints.
Full == [dry |-> FALSE, matching |-> TRUE, placeholder |-> FALSE, faucet |-> TRUE,
         admin |-> None, params |-> "custom", steps |-> AllSteps, pairs |-> <<>>,
         authority |-> "none",
         override |-> [t \in Tokens |-> IF t = "GOLD" THEN "none" ELSE "right"]]

\* The same in a dry run and with another program key; the oracle alone with
\* placeholder mints; a wrong mint authority; another admin with pairs that have
\* no feed or no token.
SomeConfigs ==
  { Full,
    [Full EXCEPT !.dry = TRUE],
    [Full EXCEPT !.matching = FALSE],
    [Full EXCEPT !.matching = FALSE, !.placeholder = TRUE, !.faucet = FALSE, !.steps = {"oracle"}],
    [Full EXCEPT !.steps = {"supply"}, !.authority = "wrong"],
    [Full EXCEPT !.steps = {"config", "market"}, !.admin = "other",
                 !.pairs = <<<<"BTC", "GOLD">>, <<"BTC", "XYZ">>>>] }

\* The CI action `deploy`: the two programs, and no config.
UploadOnly == {[Full EXCEPT !.steps = {"program", "oracle"}]}

ThreeTokens == <<"BTC", "USDC", "GOLD">>
=============================================================================
