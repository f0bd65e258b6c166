----------------------------- MODULE Deployment -----------------------------
(***************************************************************************)
(* Bringing the protocol up on a network: `autara-cli token setup`, which  *)
(* creates the mints; autara-deploy, which uploads the programs, creates   *)
(* the global config, mints the initial supply and creates the markets;    *)
(* autara-server, which creates markets when it starts; and                *)
(* `autara-deploy verify`.  The operator runs one command at a time, next  *)
(* to the server.  Each may be killed and started again, and a transaction *)
(* whose sender has given up may still be executed later.                  *)
(*                                                                         *)
(* Amounts of a token are counted in its mint_amount.  A configuration is  *)
(* the environment of one run of the tool:                                 *)
(*   dry, matching    DRY_RUN; the program key is the compiled-in id       *)
(*   placeholder      a mint of TOKENS is one of the testnet's             *)
(*   faucet           USE_FAUCET                                           *)
(*   admin, params    ADMIN, None when unset; the parameters of the markets*)
(*   steps            the STEP_ flags that are set                         *)
(*   pairs            MARKET_PAIRS, <<>> when unset                        *)
(*   authority        the mint authority key: "none" when it is unset,     *)
(*                    "right" when it is the mint's, else "wrong"          *)
(*   override         token |-> its own mint authority key, in the same way*)
(***************************************************************************)
EXTENDS Integers, Sequences, FiniteSets, SequencesExt

CONSTANTS TokenSeq,     \* TOKENS, in the order of the manifest
          Fed,          \* the labels pyth_feed_for_label knows a feed of
          Networks,     \* subset of {"testnet", "mainnet"}
          Configs,      \* the environments autara-deploy is run with
          AdminKey,     \* admin_default_pubkey: payer and curator of the tool
          ServerKey,    \* the signer of autara-server
          Spenders,     \* the tokens whose recipient uses what was minted
          MaxFaults,    \* bound: failed requests, given-up transactions, kills
          None

VARIABLES network,
          chain,
          late,         \* transactions given up by their senders
          tokens_json,  \* whether the file token setup writes is there
          tool,         \* the command of the operator that runs, or Idle
          server,       \* autara-server
          artifact,     \* deployments/<network>.json, or None
          lost_mints,   \* history: token |-> mint_to transactions given up
          spent,        \* history: the tokens whose recipient spent them
          faults

vars == <<network, chain, late, tokens_json, tool, server, artifact, lost_mints, spent, faults>>

Tokens == ToSet(TokenSeq)

Programs == {"program", "oracle"}

\* The keypairs of the tool, and an admin whose key it does not hold.
Accounts == {"deployer", AdminKey, "other"}

configured(p) == {p[1], p[2]} \subseteq Tokens

pyth_feed_for_label(label) == label \in Fed

has_feeds(p) == pyth_feed_for_label(p[1]) /\ pyth_feed_for_label(p[2])

\* Every ordered pair of tokens that both have a feed, as <<supply, collateral>>.
AllPairs ==
  LET with(t) == SelectSeq([i \in DOMAIN TokenSeq |-> <<t, TokenSeq[i]>>],
                           LAMBDA p : p[1] # p[2] /\ has_feeds(p))
  IN  FlattenSeq([i \in DOMAIN TokenSeq |-> with(TokenSeq[i])])

Markets == {AdminKey, ServerKey} \X ToSet(AllPairs)

Idle == [pc |-> "idle"]

Init ==
  /\ network \in Networks
  /\ chain = [executable |-> {}, global_config |-> None, funds |-> {},
              mint |-> [t \in Tokens |-> "none"], supply |-> [t \in Tokens |-> 0],
              ata |-> {}, balance |-> [t \in Tokens |-> 0],
              market |-> [m \in Markets |-> None]]
  /\ late = {}
  /\ tokens_json = FALSE
  /\ tool = Idle
  /\ server = Idle
  /\ artifact = None
  /\ lost_mints = [t \in Tokens |-> 0]
  /\ spent = {}
  /\ faults = 0

Fault == faults < MaxFaults /\ faults' = faults + 1

-----------------------------------------------------------------------------
(***************************************************************************)
(* Transactions.  Execute is the set of chains a transaction can leave,    *)
(* empty when it fails.                                                    *)
(***************************************************************************)
When(guard, c) == IF guard THEN {c} ELSE {}

\* system_instruction::create_account, then initialize_mint.
CreateMintAccount(c, t) == When(c.mint[t] = "none", [c EXCEPT !.mint[t] = "allocated"])

InitializeMint(c, t) == When(c.mint[t] = "allocated", [c EXCEPT !.mint[t] = "ready"])

\* The associated token account of the recipient is created once.
CreateAta(c, t) ==
  When(c.mint[t] = "ready" /\ t \notin c.ata, [c EXCEPT !.ata = @ \cup {t}])

MintTo(c, t) ==
  When(c.mint[t] = "ready" /\ t \in c.ata,
       [c EXCEPT !.supply[t] = @ + 1, !.balance[t] = @ + 1])

\* The program creates the account of the config before anything else.
CreateGlobalConfig(c, admin) ==
  When("program" \in c.executable /\ AdminKey \in c.funds /\ c.global_config = None,
       [c EXCEPT !.global_config = admin])

\* The accounts of create_market: a config and two mints that can be decoded.
CreateMarket(c, m, params) ==
  When(/\ "program" \in c.executable
       /\ c.global_config # None
       /\ \A t \in {m[2][1], m[2][2]} : c.mint[t] = "ready"
       /\ c.market[m] = None,
       [c EXCEPT !.market[m] = params])

Execute(c, x) ==
  CASE x.op = "create_account" -> CreateMintAccount(c, x.token)
    [] x.op = "initialize_mint" -> InitializeMint(c, x.token)
    [] x.op = "create_ata" -> CreateAta(c, x.token)
    [] x.op = "mint_to" -> MintTo(c, x.token)
    [] x.op = "create_global_config" -> CreateGlobalConfig(c, x.admin)
    [] x.op = "create_market" -> CreateMarket(c, x.market, x.params)

\* The three ends of send, seen by the sender: executed, refused, and given up,
\* because a request fails, the transaction stays queued or the process is
\* killed.  What is given up may be executed later.
Processed(x) ==
  /\ chain' \in Execute(chain, x)
  /\ UNCHANGED <<late, lost_mints, faults>>

Failed(x) ==
  /\ Execute(chain, x) = {}
  /\ UNCHANGED <<chain, late, lost_mints, faults>>

GivenUp(x) ==
  /\ Fault
  /\ late' = late \cup {[tx |-> x, nonce |-> faults]}
  /\ lost_mints' = IF x.op = "mint_to" THEN [lost_mints EXCEPT ![x.token] = @ + 1] ELSE lost_mints
  /\ UNCHANGED chain

\* A read of an account, which is taken for absent when the request fails.
Absent(there) ==
  \/ ~there /\ UNCHANGED faults
  \/ there /\ Fault

Present(there) == there /\ UNCHANGED faults

-----------------------------------------------------------------------------
(***************************************************************************)
(* `autara-cli token setup`.                                               *)
(***************************************************************************)
SetupVars == <<network, server, artifact, spent>>

StartSetup ==
  /\ tool.pc = "idle"
  /\ tool' = [pc |-> "check", todo |-> TokenSeq]
  /\ UNCHANGED <<chain, late, lost_mints, faults, tokens_json>>
  /\ UNCHANGED SetupVars

\* The next token of the list; tokens.json is written after the last.
NextToken ==
  IF Len(tool.todo) = 1
  THEN tool' = Idle /\ tokens_json' = TRUE
  ELSE tool' = [pc |-> "check", todo |-> Tail(tool.todo)] /\ UNCHANGED tokens_json

CheckMint ==
  /\ tool.pc = "check"
  /\ LET there == chain.mint[Head(tool.todo)] # "none"
     IN  \/ Present(there) /\ NextToken
         \/ Absent(there) /\ tool' = [tool EXCEPT !.pc = "allocate"] /\ UNCHANGED tokens_json
  /\ UNCHANGED <<chain, late, lost_mints>>
  /\ UNCHANGED SetupVars

\* create_mint_on_chain sends two transactions, one after the other.  The second
\* is not refused once the first was executed: nothing else initializes a mint.
AllocateMint ==
  /\ tool.pc = "allocate"
  /\ LET x == [op |-> "create_account", token |-> Head(tool.todo)]
     IN  \/ Processed(x) /\ tool' = [tool EXCEPT !.pc = "initialize"]
         \/ (Failed(x) \/ GivenUp(x)) /\ tool' = Idle
  /\ UNCHANGED tokens_json
  /\ UNCHANGED SetupVars

InitializeNewMint ==
  /\ tool.pc = "initialize"
  /\ LET x == [op |-> "initialize_mint", token |-> Head(tool.todo)]
     IN  \/ Processed(x) /\ NextToken
         \/ GivenUp(x) /\ tool' = Idle /\ UNCHANGED tokens_json
  /\ UNCHANGED SetupVars

SetupStep == CheckMint \/ AllocateMint \/ InitializeNewMint

-----------------------------------------------------------------------------
(***************************************************************************)
(* autara-deploy: the guards of a real run, then its stages in order.      *)
(***************************************************************************)
RunVars == <<network, tokens_json, server, spent>>

Stages == <<"fund", "program", "oracle", "config", "mints", "supply", "market", "write">>

AllSteps == {"program", "oracle", "config", "mints", "supply", "market"}

LendingSteps == {"program", "config", "mints", "market"}

\* The environment as the tool reads it: a mainnet never faucets, whatever
\* USE_FAUCET says, and the admin is the tool's own key unless ADMIN is set.
from_env(env) ==
  [env EXCEPT !.faucet = network # "mainnet" /\ @,
              !.admin = IF @ = None THEN AdminKey ELSE @]

mint_authority_for(cfg, t) == IF cfg.override[t] # "none" THEN cfg.override[t] ELSE cfg.authority

mainnet_safety_violations(cfg) == network = "mainnet" /\ (cfg.faucet \/ cfg.placeholder)

\* A dry run stops before the first transaction, and so does a real run with
\* the wrong program key or with an unsafe mainnet configuration.
refused(cfg) ==
  \/ cfg.dry
  \/ ~cfg.matching /\ cfg.steps \cap LendingSteps # {}
  \/ mainnet_safety_violations(cfg)

effective_market_pairs(cfg) == IF cfg.pairs # <<>> THEN cfg.pairs ELSE AllPairs

\* What a stage loops over: the mints to check, the tokens to mint (one without
\* an authority key is skipped), the markets.
Work(cfg, stage) ==
  CASE stage = "mints" -> TokenSeq
    [] stage = "supply" -> SelectSeq(TokenSeq, LAMBDA t : mint_authority_for(cfg, t) # "none")
    [] stage = "market" -> effective_market_pairs(cfg)
    [] OTHER -> <<>>

\* The stage after this one among those that are switched on and have work.
NextStage(cfg, stage) ==
  LET on(s) == /\ s \in {"fund", "write"} \cup cfg.steps
               /\ s \in {"mints", "supply", "market"} => Work(cfg, s) # <<>>
      at(s) == CHOOSE i \in DOMAIN Stages : Stages[i] = s
      rest == {i \in DOMAIN Stages : i > at(stage) /\ on(Stages[i])}
  IN  Stages[CHOOSE i \in rest : \A j \in rest : i <= j]

After(r, stage) ==
  LET next == NextStage(r.cfg, stage)
  IN  [r EXCEPT !.pc = next, !.todo = Work(r.cfg, next)]

NextItem(r, stage) ==
  IF Len(r.todo) = 1 THEN After(r, stage) ELSE [r EXCEPT !.pc = stage, !.todo = Tail(@)]

StartRun(env) ==
  /\ tool.pc = "idle"
  /\ ~refused(from_env(env))
  /\ tool' = [pc |-> "fund", cfg |-> from_env(env), todo |-> <<>>,
              record |-> [config |-> FALSE, markets |-> {}]]
  /\ UNCHANGED <<chain, late, lost_mints, faults, artifact>>
  /\ UNCHANGED RunVars

\* The faucet pays the deployer, then the admin, and the first error ends the
\* run.  A mainnet run ends unless the deployer and the configured admin are
\* funded already.
FundAccounts ==
  /\ tool.pc = "fund"
  /\ \/ /\ tool.cfg.faucet
        /\ \/ /\ chain' = [chain EXCEPT !.funds = @ \cup {"deployer", AdminKey}]
              /\ tool' = After(tool, "fund")
              /\ UNCHANGED faults
           \/ /\ Fault
              /\ chain' \in {chain, [chain EXCEPT !.funds = @ \cup {"deployer"}]}
              /\ tool' = Idle
     \/ /\ ~tool.cfg.faucet
        /\ LET funded == {"deployer", tool.cfg.admin} \subseteq chain.funds
           IN  tool' = IF network = "mainnet" /\ ~funded THEN Idle ELSE After(tool, "fund")
        /\ UNCHANGED <<chain, faults>>
  /\ UNCHANGED <<late, lost_mints, artifact>>
  /\ UNCHANGED RunVars

\* deploy_program for the lending program and for the oracle: the upload ends
\* with the program executable, as it already may be, or with an error.
DeployProgram(p) ==
  /\ tool.pc = p
  /\ \/ /\ "deployer" \in chain.funds \/ p \in chain.executable
        /\ chain' = [chain EXCEPT !.executable = @ \cup {p}]
        /\ tool' = After(tool, p)
        /\ UNCHANGED faults
     \/ /\ "deployer" \notin chain.funds /\ p \notin chain.executable
        /\ tool' = Idle
        /\ UNCHANGED <<chain, faults>>
     \/ /\ Fault
        /\ tool' = Idle
        /\ UNCHANGED chain
  /\ UNCHANGED <<late, lost_mints, artifact>>
  /\ UNCHANGED RunVars

\* The config that is already there is accepted as it is.
create_global_config ==
  /\ tool.pc = "config"
  /\ LET x == [op |-> "create_global_config", admin |-> tool.cfg.admin]
         done == After([tool EXCEPT !.record.config = TRUE], "config")
     IN  \/ Processed(x) /\ tool' = done
         \/ Failed(x) /\ tool' = IF chain.global_config # None THEN done ELSE Idle
         \/ GivenUp(x) /\ tool' = Idle
  /\ UNCHANGED artifact
  /\ UNCHANGED RunVars

\* Only the account of the mint is looked for.
ensure_token_mints ==
  /\ tool.pc = "mints"
  /\ LET there == chain.mint[Head(tool.todo)] # "none"
     IN  \/ Present(there) /\ tool' = NextItem(tool, "mints")
         \/ Absent(there) /\ tool' = Idle
  /\ UNCHANGED <<chain, late, lost_mints, artifact>>
  /\ UNCHANGED RunVars

\* Mutant: every run mints.
holds_enough_Never(t) == FALSE

holds_enough(t) == t \in chain.ata /\ chain.balance[t] >= 1

\* The gate of mint_initial_supply reads the mint, and the balance of the
\* recipient decides what is sent.
mint_initial_supply ==
  /\ tool.pc = "supply"
  /\ LET t == Head(tool.todo)
         gate == chain.mint[t] = "ready" /\ mint_authority_for(tool.cfg, t) = "right"
     IN  \/ ~gate /\ tool' = Idle /\ UNCHANGED faults
         \/ gate /\ Fault /\ tool' = Idle
         \/ /\ gate
            /\ \/ /\ Present(t \in chain.ata)
                  /\ tool' = IF holds_enough(t) THEN NextItem(tool, "supply")
                            ELSE [tool EXCEPT !.pc = "mint_to"]
               \/ Absent(t \in chain.ata) /\ tool' = [tool EXCEPT !.pc = "create_ata"]
  /\ UNCHANGED <<chain, late, lost_mints, artifact>>
  /\ UNCHANGED RunVars

create_ata ==
  /\ tool.pc = "create_ata"
  /\ LET x == [op |-> "create_ata", token |-> Head(tool.todo)]
     IN  \/ Processed(x) /\ tool' = [tool EXCEPT !.pc = "mint_to"]
         \/ (Failed(x) \/ GivenUp(x)) /\ tool' = Idle
  /\ UNCHANGED artifact
  /\ UNCHANGED RunVars

mint_to ==
  /\ tool.pc = "mint_to"
  /\ LET x == [op |-> "mint_to", token |-> Head(tool.todo)]
     IN  \/ Processed(x) /\ tool' = NextItem(tool, "supply")
         \/ GivenUp(x) /\ tool' = Idle
  /\ UNCHANGED artifact
  /\ UNCHANGED RunVars

record_market(p) == [tool EXCEPT !.record.markets = @ \cup {p}]

\* Mutant: a market that is there is created again.
market_exists_Ignored(m) == FALSE

market_exists(m) == chain.market[m] # None

\* A pair with a label that is not in TOKENS ends the run, one without a feed is
\* skipped, and a market that exists is recorded as it is.
CheckMarket ==
  /\ tool.pc = "market"
  /\ LET p == Head(tool.todo)
     IN  \/ ~configured(p) /\ tool' = Idle /\ UNCHANGED faults
         \/ configured(p) /\ ~has_feeds(p) /\ tool' = NextItem(tool, "market") /\ UNCHANGED faults
         \/ /\ configured(p) /\ has_feeds(p)
            /\ LET there == market_exists(<<AdminKey, p>>)
               IN  \/ Present(there) /\ tool' = NextItem(record_market(p), "market")
                   \/ Absent(there) /\ tool' = [tool EXCEPT !.pc = "create_market"]
  /\ UNCHANGED <<chain, late, lost_mints, artifact>>
  /\ UNCHANGED RunVars

create_market ==
  /\ tool.pc = "create_market"
  /\ LET p == Head(tool.todo)
         x == [op |-> "create_market", market |-> <<AdminKey, p>>, params |-> tool.cfg.params]
     IN  \/ Processed(x) /\ tool' = NextItem(record_market(p), "market")
         \/ (Failed(x) \/ GivenUp(x)) /\ tool' = Idle
  /\ UNCHANGED artifact
  /\ UNCHANGED RunVars

\* The file is replaced, and only by a run that gets this far.
WriteArtifact ==
  /\ tool.pc = "write"
  /\ artifact' = tool.record
  /\ tool' = Idle
  /\ UNCHANGED <<chain, late, lost_mints, faults>>
  /\ UNCHANGED RunVars

RunStep ==
  \/ FundAccounts \/ (\E p \in Programs : DeployProgram(p)) \/ create_global_config
  \/ ensure_token_mints \/ mint_initial_supply \/ create_ata \/ mint_to
  \/ CheckMarket \/ create_market \/ WriteArtifact

-----------------------------------------------------------------------------
(***************************************************************************)
(* autara-server, until it serves requests.  Its client reads the state of *)
(* the protocol first, the config included, and a config that is not there *)
(* is an error of that read.  The branch that would create the config asks *)
(* get_global_config, which answers Some(..) always, and is never taken.   *)
(***************************************************************************)
ServerVars == <<network, tokens_json, tool, artifact, spent>>

\* The faucet pays the signer, where there is one; its errors are only logged.
StartServer ==
  /\ server.pc = "idle"
  /\ tokens_json
  /\ server' = [pc |-> "reload", todo |-> AllPairs]
  /\ \/ network # "mainnet" /\ chain' = [chain EXCEPT !.funds = @ \cup {ServerKey}] /\ UNCHANGED faults
     \/ network # "mainnet" /\ Fault /\ UNCHANGED chain
     \/ network = "mainnet" /\ UNCHANGED <<chain, faults>>
  /\ UNCHANGED <<late, lost_mints>>
  /\ UNCHANGED ServerVars

full_reload ==
  /\ server.pc = "reload"
  /\ \/ Present(chain.global_config # None) /\ server' = [server EXCEPT !.pc = "market"]
     \/ Absent(chain.global_config # None) /\ server' = Idle
  /\ UNCHANGED <<chain, late, lost_mints>>
  /\ UNCHANGED ServerVars

ServerNext ==
  server' = IF Len(server.todo) = 1 THEN [pc |-> "up"] ELSE [pc |-> "market", todo |-> Tail(server.todo)]

ServerCheckMarket ==
  /\ server.pc = "market"
  /\ LET there == chain.market[<<ServerKey, Head(server.todo)>>] # None
     IN  \/ Present(there) /\ ServerNext
         \/ Absent(there) /\ server' = [server EXCEPT !.pc = "create_market"]
  /\ UNCHANGED <<chain, late, lost_mints>>
  /\ UNCHANGED ServerVars

\* An error is logged, and the loop goes on.
ServerCreateMarket ==
  /\ server.pc = "create_market"
  /\ LET x == [op |-> "create_market", market |-> <<ServerKey, Head(server.todo)>>,
               params |-> "default"]
     IN  Processed(x) \/ Failed(x) \/ GivenUp(x)
  /\ ServerNext
  /\ UNCHANGED ServerVars

ServerStep == full_reload \/ ServerCheckMarket \/ ServerCreateMarket

-----------------------------------------------------------------------------
(***************************************************************************)
(* `autara-deploy verify`: reads in order, the result of each recorded.    *)
(***************************************************************************)
VerifyVars == <<network, chain, late, tokens_json, server, artifact, lost_mints, spent>>

StartVerify(env) ==
  /\ tool.pc = "idle"
  /\ tool' = [pc |-> "verify_program", ok |-> TRUE, cfg |->
                [admin |-> from_env(env).admin, params |-> env.params, pairs |-> env.pairs,
                 expect_supply |-> "supply" \in env.steps]]
  /\ UNCHANGED faults
  /\ UNCHANGED VerifyVars

\* A check fails on what it reads, and when it cannot read.
Check(at, next, passes) ==
  /\ tool.pc = at
  /\ \/ tool' = [tool EXCEPT !.pc = next, !.ok = @ /\ passes] /\ UNCHANGED faults
     \/ tool' = [tool EXCEPT !.pc = next, !.ok = FALSE] /\ Fault
  /\ UNCHANGED VerifyVars

verify_program == Check("verify_program", "verify_config", "program" \in chain.executable)

verify_global_config == Check("verify_config", "verify_mints", chain.global_config = tool.cfg.admin)

\* Mutant: a mint that exists passes.
verify_mints_Exists == Check("verify_mints", "verify_markets", \A t \in Tokens : chain.mint[t] # "none")

\* --expect-supply goes with the minting step.
verify_mints ==
  Check("verify_mints", "verify_markets",
        \A t \in Tokens : /\ chain.mint[t] = "ready"
                          /\ tool.cfg.expect_supply => chain.supply[t] >= 1)

verify_markets ==
  Check("verify_markets", "verify_oracles",
        \A p \in ToSet(effective_market_pairs(tool.cfg)) :
          configured(p) /\ has_feeds(p)
            /\ chain.market[<<AdminKey, p>>] = tool.cfg.params)

\* The feeds are owned by the oracle program and at most 60 s old, or not.
verify_oracles == \E fresh \in BOOLEAN : Check("verify_oracles", "report", fresh)

EndVerify ==
  /\ tool.pc = "report"
  /\ tool' = Idle
  /\ UNCHANGED faults
  /\ UNCHANGED VerifyVars

VerifyStep ==
  verify_program \/ verify_global_config \/ verify_mints \/ verify_markets \/ verify_oracles \/ EndVerify

-----------------------------------------------------------------------------
(***************************************************************************)
(* The rest of the world.                                                  *)
(***************************************************************************)
\* `autara-deploy fund`, or a transfer by the operator where there is no faucet.
Fund ==
  /\ ~(Accounts \subseteq chain.funds)
  /\ chain' = [chain EXCEPT !.funds = @ \cup Accounts]
  /\ UNCHANGED <<network, late, tokens_json, tool, server, artifact, lost_mints, spent, faults>>

\* The recipient of a token uses what was minted.
Spend(t) ==
  /\ chain.balance[t] > 0
  /\ t \notin spent
  /\ chain' = [chain EXCEPT !.balance[t] = @ - 1]
  /\ spent' = spent \cup {t}
  /\ UNCHANGED <<network, late, tokens_json, tool, server, artifact, lost_mints, faults>>

\* A transaction that was given up is executed after all, or never.
ExecuteLate(x) ==
  /\ late' = late \ {x}
  /\ chain' \in Execute(chain, x.tx) \cup {chain}
  /\ UNCHANGED <<network, tokens_json, tool, server, artifact, lost_mints, spent, faults>>

\* A process is killed between two requests.
Kill ==
  /\ Fault
  /\ \/ tool.pc # "idle" /\ tool' = Idle /\ UNCHANGED server
     \/ server.pc # "idle" /\ server' = Idle /\ UNCHANGED tool
  /\ UNCHANGED <<network, chain, late, tokens_json, artifact, lost_mints, spent>>

Next ==
  \/ StartSetup \/ SetupStep
  \/ (\E cfg \in Configs : StartRun(cfg)) \/ RunStep
  \/ StartServer \/ ServerStep
  \/ (\E cfg \in Configs : StartVerify(cfg)) \/ VerifyStep
  \/ Fund \/ (\E t \in Spenders : Spend(t)) \/ (\E x \in late : ExecuteLate(x)) \/ Kill

\* A process that runs goes on.  The operator repeats the setup and the run with
\* every step, funds the accounts when the tool asks for it, and restarts the
\* server.
Fairness ==
  /\ WF_vars(SetupStep \/ RunStep \/ VerifyStep)
  /\ WF_vars(ServerStep)
  /\ WF_vars(Fund)
  /\ WF_vars(StartServer)
  /\ SF_vars(StartSetup)
  /\ SF_vars(\E cfg \in Configs : cfg.steps = AllSteps /\ StartRun(cfg))

Spec == Init /\ [][Next]_vars /\ Fairness

-----------------------------------------------------------------------------
(***************************************************************************)
(* Properties.                                                             *)
(***************************************************************************)
\* Running the tool again does not inflate a supply: beyond the first, every
\* mint_amount of a token answers a mint_to that was given up or a recipient who
\* spent what it had.  A failed read of the balance is no such reason, because
\* the account that is then created exists.
SupplyExplained ==
  \A t \in Tokens : chain.supply[t] <= 1 + lost_mints[t] + Cardinality(spent \cap {t})

\* A verification that passes tells the truth about the chain, although it reads
\* one account at a time while the other processes write.
VerifiedIsDeployed ==
  tool.pc = "report" /\ tool.ok =>
    /\ "program" \in chain.executable
    /\ chain.global_config = tool.cfg.admin
    /\ \A t \in Tokens : chain.mint[t] = "ready" /\ (tool.cfg.expect_supply => chain.supply[t] >= 1)
    /\ \A p \in ToSet(effective_market_pairs(tool.cfg)) :
          chain.market[<<AdminKey, p>>] = tool.cfg.params

HalfMade(t) == chain.mint[t] = "allocated"

BroughtUp ==
  /\ chain.executable = Programs
  /\ artifact # None
  /\ \A p \in ToSet(AllPairs) : chain.market[<<AdminKey, p>>] # None
  /\ server.pc = "up"

\* Repeating the commands ends with the protocol up, whatever was interrupted
\* and executed late before.  The one exception is a mint whose account was
\* created and never initialized: nothing initializes it again.
ComesUp == <>[]BroughtUp \/ <>[](\E t \in Tokens : HalfMade(t))

\* README.md:151 says of the server that it will "Create the global config if it
\* doesn't exist".
ServerCreatesConfig ==
  (chain.executable = Programs /\ tokens_json) ~> chain.global_config # None
=============================================================================
