------------------------------ MODULE PriceFeed ------------------------------
(***************************************************************************)
(* The price feeds a market reads: the oracle program that stores them     *)
(* (programs/autara-oracle), the pusher that fetches quotes and writes     *)
(* them, with the health check and the balance alerts it is watched by     *)
(* (autara-pyth), and the check a market makes before it uses one.         *)
(*                                                                         *)
(* Time is kept as ages, counted in ticks and saturating at Old: the age   *)
(* of an account's publish_time, the age of the quote behind it and the    *)
(* age of a quote on its way.  The address of an account is the feed id it *)
(* is derived from.                                                        *)
(***************************************************************************)
EXTENDS OracleAccount, FiniteSets

CONSTANTS
  Feeds,          \* feed ids; also the canonical address of each feed
  Pusher, Others, \* the pusher's signer and other signers
  NoKey,
  LegacyFeeds,    \* feeds created before the authority field existed
  AlertFeeds,     \* the feeds pushed by a pusher that sends alerts
  Price, PythConf, Decimals,   \* what Pyth publishes
  MaxAge,         \* max_age of the markets' validation config
  MaxConfidence,  \* min_relative_confidence of that config
  PushTimeout,    \* ORACLE_PUSH_TIMEOUT
  TxLife,         \* ticks until the blockhash of a transaction expires
  MaxPool,        \* bound: transactions of the pusher on their way
  MaxFunds,       \* what an airdrop leaves the signer with
  RefillThreshold,
  HealthMaxStale, \* HEALTH_MAX_STALE_SECS
  CriticalBalance, WarningBalance,
  RetryInterval   \* of an alert that could not be sent

ASSUME FeedAssumption ==
  /\ Pusher \notin Others /\ NoKey \notin Others \union {Pusher}
  /\ LegacyFeeds \subseteq Feeds /\ AlertFeeds \subseteq Feeds
  /\ MaxAge \in Nat /\ PushTimeout \in Nat \ {0} /\ TxLife \in Nat \ {0} /\ MaxPool \in Nat \ {0}
  /\ MaxFunds \in Nat \ {0} /\ RefillThreshold \in 1..MaxFunds
  /\ HealthMaxStale \in Nat /\ RetryInterval \in Nat /\ CriticalBalance < WarningBalance

VARIABLES
  setup,     \* how the pusher is started: [mainnet, metrics, slack, feeds]
  feed,      \* the account at the address of each feed id
  pool,      \* the pusher's transactions neither executed nor expired
  pc,        \* where the push loop is
  held,      \* the quote fetched and not yet sent
  answer,    \* of the transaction waited for: "none", "processed" or "failed"
  waited,    \* ticks since build_and_send_tx was started
  funds,     \* transactions the signer can still pay for
  success,   \* age of the last push recorded as a success, HealthMaxStale + 1 when none is
  read,      \* the balance of this round, as observe is given it
  alert      \* [notified, retry], the alerter's state, and the last level Slack got

loop == <<pc, held, waited>>
vars == <<setup, feed, pool, loop, answer, funds, success, read, alert>>

Old == MaxAge + PushTimeout + TxLife + 1
Older(age) == IF age < Old THEN age + 1 ELSE Old

\* "none": the price of another signer.
NoQuote == [src |-> "none", age |-> 0]
Unmade == [layout |-> "none", id |-> NoKey, authority |-> NoKey, published |-> Old, quote |-> NoQuote]
Legacy(f) == [Unmade EXCEPT !.layout = "legacy", !.id = f]

\* The confidence of a DIA price is a hundredth of it.
Conf(src) ==
  CASE src = "pyth" -> PythConf
    [] src = "dia" -> Price \div 100
    [] src = "none" -> 0

-----------------------------------------------------------------------------
\* ensure_feed_account: TRUE when the account is created or migrated, FALSE when
\* it is there, no outcome when the derived address does not match.
ensure_feed_account(a, addr, id) ==
  CASE a.layout = "none" -> IF addr = id THEN {TRUE} ELSE {}
    [] a.layout = "legacy" -> {TRUE}
    [] a.layout = "new" -> {FALSE}

\* apply_price_update: the signer that creates a feed becomes its authority; the
\* price is stamped with the time of this transaction.
apply_price_update(a, signer, id, quote, just_created) ==
  IF ~just_created /\ (a.authority # signer \/ a.id # id) THEN {}
  ELSE {[layout |-> "new", id |-> id, authority |-> signer, published |-> 0, quote |-> quote]}

\* process_instruction of the oracle program.
process_instruction(a, addr, signer, id, quote) ==
  UNION {apply_price_update(a, signer, id, quote, c) : c \in ensure_feed_account(a, addr, id)}

\* The provider a market has for feed f, and the account it is handed.
PythProvider(f) == [kind |-> "pyth", feed_id |-> f, program_id |-> "oracle", required_signatures |-> 0]

View(f) ==
  LET a == feed[f]
  IN  [key |-> <<f, "oracle">>, owner |-> IF a.layout = "none" THEN "system" ELSE "oracle",
       layout |-> a.layout, id |-> a.id,
       price |-> IF a.quote.src = "none" THEN 0 ELSE Price, conf |-> Conf(a.quote.src),
       expo |-> -Decimals, publish_time |-> -a.published, signatures |-> 0]

\* Mutant: the age of the price is not looked at.
LoadUnchecked(f) == load_oracle_price(PythProvider(f), View(f), FALSE) # {}

\* A market uses the price of feed f; now is 0.
market_accepts(f) ==
  load_and_validate_oracle_rate(PythProvider(f), View(f), 0, MaxAge, MaxConfidence) # {}

-----------------------------------------------------------------------------
\* What main is told.  Both monitors watch the same loop and share nothing: a
\* behaviour has one of them, and alerts are for the network where nobody refills
\* the signer.
Setups ==
  {x \in [mainnet : BOOLEAN, metrics : BOOLEAN, slack : BOOLEAN, feeds : {AlertFeeds, Feeds}] :
     /\ x.slack => x.mainnet
     /\ x.metrics <=> ~x.slack
     /\ x.feeds = IF x.slack THEN AlertFeeds ELSE Feeds}

Init ==
  /\ setup \in Setups
  /\ feed = [f \in Feeds |-> IF f \in LegacyFeeds THEN Legacy(f) ELSE Unmade]
  /\ pool = {} /\ pc = "balance" /\ held = NoQuote /\ answer = "none" /\ waited = 0
  /\ funds \in 0..MaxFunds
  /\ success = HealthMaxStale + 1
  /\ read = 0
  /\ alert = [notified |-> "healthy", retry |-> 0, slack |-> "healthy"]

\* The explorer, when it answers: it does not know an empty account.
signer_balance == {n \in {funds} : n > 0}

\* refresh_signer_balance: without the explorer the node is asked, and the balance
\* is taken for 0 when neither gives it.  Below the threshold, and not on mainnet, an airdrop is
\* asked for, which may fail.  The balance before it is what observe is given.
refresh_signer_balance(lamports, refilled) ==
  /\ pc = "balance"
  /\ pc' = "fetch"
  /\ lamports \in signer_balance \union {funds, 0}
  /\ refilled => ~setup.mainnet /\ lamports < RefillThreshold
  /\ funds' = IF refilled THEN MaxFunds ELSE funds
  /\ read' = IF setup.slack THEN lamports ELSE 0
  /\ UNCHANGED <<setup, feed, pool, held, answer, waited, success, alert>>

dia_fallback_allowed == ~setup.mainnet

Fetched(src) ==
  /\ pc = "fetch"
  /\ held' = [src |-> src, age |-> 0]
  /\ pc' = "send"
  /\ UNCHANGED <<setup, feed, pool, answer, waited, funds, success, read, alert>>

FetchPyth == Fetched("pyth")

\* Pyth is unavailable: the DIA quote where it is allowed, else the round ends.
FetchDia == dia_fallback_allowed /\ Fetched("dia")

\* record_fetch_failure counts; the last success stays what it was.
FetchFailure ==
  /\ pc = "fetch"
  /\ pc' = "alert"
  /\ UNCHANGED <<setup, feed, pool, held, answer, waited, funds, success, read, alert>>

\* build_and_send_tx, up to the sending: one transaction with an instruction for
\* every feed.
SendTx ==
  /\ pc = "send"
  /\ waited < PushTimeout /\ Cardinality(pool) < MaxPool
  /\ pool' = pool \union {[quote |-> held, left |-> TxLife, awaited |-> TRUE]}
  /\ held' = NoQuote
  /\ answer' = "none"
  /\ pc' = "wait"
  /\ UNCHANGED <<setup, feed, waited, funds, success, read, alert>>

record_success == IF setup.metrics THEN 0 ELSE success

\* The wait ended, and nobody waits for the transaction any more.
EndPush ==
  /\ pc' = "alert"
  /\ held' = NoQuote
  /\ answer' = "none"
  /\ waited' = 0
  /\ pool' = {[t EXCEPT !.awaited = FALSE] : t \in pool}
  /\ UNCHANGED <<setup, feed, funds, read, alert>>

\* Mutant: the push waits for its transaction without a time limit.
WaitsForever ==
  /\ pc = "wait" /\ answer # "none"
  /\ success' = IF answer = "processed" THEN record_success ELSE success
  /\ EndPush

\* Mutant: whatever ends the wait is recorded as a success.
EndIsSuccess ==
  /\ \/ pc = "wait" /\ answer # "none"
     \/ pc \in {"send", "wait"} /\ answer = "none" /\ waited >= PushTimeout
  /\ success' = record_success
  /\ EndPush

\* Processed, failed, or timed out with the transaction perhaps still in the pool.
\* A failure only counts.
PushEnds ==
  /\ \/ pc = "wait" /\ answer # "none"
     \/ pc \in {"send", "wait"} /\ answer = "none" /\ waited >= PushTimeout
  /\ success' = IF answer = "processed" THEN record_success ELSE success
  /\ EndPush

\* A request fails, before the transaction is sent or while it is waited for.
PushFails ==
  /\ pc \in {"send", "wait"}
  /\ UNCHANGED success
  /\ EndPush

health_status == success <= HealthMaxStale

balance_level(lamports) ==
  IF lamports <= CriticalBalance THEN "critical"
  ELSE IF lamports < WarningBalance THEN "warning" ELSE "healthy"

\* Mutant: the level counts as notified although it could not be sent.
observe_Forgets(outcome) ==
  /\ pc = "alert"
  /\ LET level == balance_level(read)
         quiet == ~setup.slack \/ level = alert.notified \/ alert.retry > 0
     IN  /\ quiet => outcome = "quiet"
         /\ ~quiet => outcome # "quiet"
         /\ alert' = IF quiet THEN alert
                     ELSE [alert EXCEPT !.notified = level, !.slack = IF outcome = "sent" THEN level ELSE @]
  /\ pc' = "sleep"
  /\ read' = 0
  /\ UNCHANGED <<setup, feed, pool, held, answer, waited, funds, success>>

\* A change of level is sent, at most once in RetryInterval after an error.  The
\* error may also come after Slack has taken the message: it is then unsure what
\* Slack has.
observe(outcome) ==
  /\ pc = "alert"
  /\ LET level == balance_level(read)
         quiet == ~setup.slack \/ level = alert.notified \/ alert.retry > 0
     IN  \/ quiet /\ outcome = "quiet" /\ UNCHANGED alert
         \/ ~quiet /\ outcome = "sent" /\ alert' = [alert EXCEPT !.notified = level, !.retry = 0, !.slack = level]
         \/ ~quiet /\ outcome = "failed" /\ alert' = [alert EXCEPT !.retry = RetryInterval]
         \/ /\ ~quiet /\ outcome = "unsure"
            /\ alert' = [alert EXCEPT !.retry = RetryInterval, !.slack = "unsure"]
  /\ pc' = "sleep"
  /\ read' = 0
  /\ UNCHANGED <<setup, feed, pool, held, answer, waited, funds, success>>

\* The loop always sleeps before it starts over.
Sleep ==
  /\ pc = "sleep"
  /\ pc' = "balance"
  /\ UNCHANGED <<setup, feed, pool, held, answer, waited, funds, success, read, alert>>

\* Mutant: a feed whose price has not moved only gets a new time stamp.
Pushed_StampOnly(quote) ==
  LET stamped(f) == IF feed[f].authority = Pusher THEN {[feed[f] EXCEPT !.published = 0]} ELSE {}
      outcomes(f) == process_instruction(feed[f], f, Pusher, f, quote) \union stamped(f)
  IN  {g \in [Feeds -> UNION {outcomes(f) : f \in Feeds} \union {feed[f] : f \in Feeds}] :
         \A f \in Feeds : IF f \in setup.feeds THEN g[f] \in outcomes(f) ELSE g[f] = feed[f]}

\* The instructions of a transaction take effect together or not at all.
Pushed(quote) ==
  {g \in [Feeds -> UNION {process_instruction(feed[f], f, Pusher, f, quote) : f \in Feeds}
                    \union {feed[f] : f \in Feeds}] :
     \A f \in Feeds :
       IF f \in setup.feeds THEN g[f] \in process_instruction(feed[f], f, Pusher, f, quote)
       ELSE g[f] = feed[f]}

\* The network executes a transaction: it has an effect if the fee is paid and
\* no instruction fails.
Execute(tx) ==
  /\ pool' = pool \ {tx}
  /\ funds > 0
  /\ funds' = funds - 1
  /\ LET pushed == Pushed(tx.quote)
     IN  /\ IF pushed = {} THEN UNCHANGED feed ELSE feed' \in pushed
         /\ answer' = IF ~tx.awaited THEN answer ELSE IF pushed = {} THEN "failed" ELSE "processed"
  /\ UNCHANGED <<setup, loop, success, read, alert>>

Unpaid(tx) ==
  /\ funds = 0
  /\ pool' = pool \ {tx}
  /\ answer' = IF tx.awaited THEN "failed" ELSE answer
  /\ UNCHANGED <<setup, feed, loop, funds, success, read, alert>>

\* Another signer calls the oracle program, with any address and feed id.  Bound:
\* not in the behaviours with alerts, which are about the signer's balance.
OtherPush(signer, addr, id) ==
  /\ ~setup.slack
  /\ \E x \in process_instruction(feed[addr], addr, signer, id, NoQuote) :
       feed' = [feed EXCEPT ![addr] = x]
  /\ UNCHANGED <<setup, pool, loop, answer, funds, success, read, alert>>

\* The operator sends funds where there is no faucet.
TopUp ==
  /\ setup.mainnet /\ funds < MaxFunds
  /\ funds' = MaxFunds
  /\ UNCHANGED <<setup, feed, pool, loop, answer, success, read, alert>>

\* Time passes for the accounts, for the quotes on their way, for the wait and
\* for the monitors.  The timer of the push goes off within a tick.
Tick ==
  /\ pc \in {"send", "wait"} => waited < PushTimeout
  /\ feed' = [f \in Feeds |-> [feed[f] EXCEPT !.published = Older(@), !.quote.age = Older(@)]]
  /\ pool' = {[t EXCEPT !.quote.age = Older(@), !.left = @ - 1] :
                t \in {u \in pool : u.left > 1}}
  /\ held' = IF pc = "send" THEN [held EXCEPT !.age = Older(@)] ELSE held
  /\ waited' = IF pc \in {"send", "wait"} THEN waited + 1 ELSE waited
  /\ success' = IF success <= HealthMaxStale THEN success + 1 ELSE success
  /\ alert' = [alert EXCEPT !.retry = IF @ > 0 THEN @ - 1 ELSE 0]
  /\ UNCHANGED <<setup, pc, answer, funds, read>>

Loop ==
  \/ \E l \in 0..MaxFunds, b \in BOOLEAN : refresh_signer_balance(l, b)
  \/ FetchPyth \/ FetchDia \/ FetchFailure
  \/ SendTx \/ PushEnds \/ (\E o \in {"quiet", "sent", "failed", "unsure"} : observe(o)) \/ Sleep

Next ==
  \/ Loop \/ PushFails
  \/ \E tx \in pool : Execute(tx) \/ Unpaid(tx)
  \/ \E s \in Others, a \in Feeds, i \in Feeds : OtherPush(s, a, i)
  \/ TopUp
  \/ Tick

\* The loop and the clock go on; a source that answers again and again, a
\* faucet that is asked again and again, Slack, and a network that is reached
\* and handed transactions again and again serve the pusher in the end.
Fairness ==
  /\ WF_vars(Loop) /\ WF_vars(Tick)
  /\ SF_vars(FetchPyth \/ FetchDia)
  /\ SF_vars(SendTx)
  /\ SF_vars(\E l \in 0..MaxFunds : refresh_signer_balance(l, TRUE))
  /\ SF_vars(\E tx \in pool : Execute(tx))
  /\ SF_vars(observe("sent"))

Spec == Init /\ [][Next]_vars /\ Fairness

-----------------------------------------------------------------------------
\* The prices of two feeds the pusher owns come from the same fetch, also when
\* transactions time out and land late or out of order: a market's two rates
\* are never a mixture of rounds.
FeedsFromOneFetch ==
  \A f, g \in Feeds :
    (feed[f].authority = Pusher /\ feed[g].authority = Pusher) => feed[f].quote = feed[g].quote

\* What bounds the age of an accepted price is the sum of three waits: before
\* the transaction is sent (the push timeout), until it lands (its blockhash)
\* and since (max_age, which is counted from the landing).
AcceptedQuoteBounded ==
  \A f \in Feeds :
    (market_accepts(f) /\ feed[f].authority = Pusher)
      => feed[f].quote.age <= PushTimeout + TxLife + MaxAge

\* A pusher whose health check passes has the feeds: each of them is its own,
\* and was written at most HEALTH_MAX_STALE_SECS and one push ago, although
\* pushes time out, fail and land late, and other signers create feeds too.
HealthyMeansFresh ==
  health_status =>
    \A f \in setup.feeds :
      feed[f].authority = Pusher /\ feed[f].published <= HealthMaxStale + PushTimeout

\* No other signer has created or migrated a feed before the pusher.
Untaken == \A f \in Feeds : feed[f].authority \in {Pusher, NoKey}

\* Feeds that have gone stale recover: on a test network, again and again all the
\* feeds are accepted, although fetches fail, pushes time out and the signer runs
\* dry, as long as nobody else created one of the feeds.
FeedsRecover ==
  (~setup.mainnet /\ []Untaken) => []<>(\A f \in setup.feeds : market_accepts(f))

\* A signer that stays without funds is reported: the last message Slack got is
\* the critical one, whatever failed or recovered before.  The exception is a
\* message that Slack may have taken although its request failed, after which the
\* alerter and Slack may disagree about the last level.
AlertedWhenDry ==
  (setup.slack /\ <>[](funds <= CriticalBalance))
    => <>[](alert.slack \in {"critical", "unsure"})
=============================================================================
