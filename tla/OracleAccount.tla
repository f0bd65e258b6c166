---------------------------- MODULE OracleAccount ----------------------------
(***************************************************************************)
(* autara-lib/src/oracle: how a market turns the account of a price feed   *)
(* into a rate.  A provider is the record                                  *)
(*   [kind, feed_id, program_id, required_signatures]                      *)
(* of a market's oracle config, and an account is what the program is      *)
(* handed:                                                                 *)
(*   key, owner       its address and the program that owns it             *)
(*   layout           what its bytes decode to: "new" for a Pyth price     *)
(*                    with its authority, "legacy" for one without, "chaos"*)
(*                    for a Chaos price, anything else for none of them    *)
(*   id, price, conf, expo, publish_time, signatures                       *)
(***************************************************************************)
EXTENDS OracleRate

CONSTANT MaxExponent    \* MAX_EXPONENT_ABS

ASSUME ExponentAssumption == MaxExponent \in Nat

\* One checked quotient or product per number, rounded down.
try_from_price_expo_conf(price, conf, expo) ==
    LET scale(n) == IF expo <= 0 THEN (n * IOne) \div 10^(-expo) ELSE n * IOne * 10^expo
        q == [rate |-> scale(price), confidence |-> scale(conf)]
    IN  IF ValidRate(q) THEN {q} ELSE {}

Unchecked(q, publish_time) ==
    [rate |-> q.rate, confidence |-> q.confidence, publish_time |-> publish_time]

\* The canonical address of a feed.
oracle_feed_pubkey(p) ==
    IF p.kind = "pyth" THEN <<p.feed_id, p.program_id>>
    ELSE <<"chaos_price_config", p.feed_id, p.program_id>>

\* Only a client reads an account that has no authority yet.
pyth_load(p, a, client) ==
    IF /\ a.owner = p.program_id
       /\ a.layout = "new" \/ (client /\ a.layout = "legacy")
       /\ a.id = p.feed_id
       /\ a.expo \in -MaxExponent..MaxExponent
    THEN {Unchecked(q, a.publish_time) : q \in try_from_price_expo_conf(a.price, a.conf, a.expo)}
    ELSE {}

\* A Chaos price has signatures and no confidence.
chaos_load(p, a) ==
    IF /\ a.owner = p.program_id
       /\ a.layout = "chaos"
       /\ a.id = p.feed_id
       /\ a.signatures >= p.required_signatures
       /\ a.expo \in -MaxExponent..MaxExponent
    THEN {Unchecked(q, a.publish_time) : q \in try_from_price_expo_conf(a.price, 0, a.expo)}
    ELSE {}

load_oracle_price(p, a, client) ==
    IF a.key # oracle_feed_pubkey(p) THEN {}
    ELSE IF p.kind = "pyth" THEN pyth_load(p, a, client) ELSE chaos_load(p, a)

\* OracleConfig::validate, when a market is created or its oracles are changed.
oracle_config_valid(p) == p.kind = "chaos" => p.required_signatures > 0

load_and_validate_oracle_rate(p, a, now, max_age, max_confidence) ==
    {q \in load_oracle_price(p, a, FALSE) : load_and_validate(q, now, max_age, max_confidence)}
=============================================================================
