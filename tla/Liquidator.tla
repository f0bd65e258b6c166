----------------------------- MODULE Liquidator -----------------------------
(***************************************************************************)
(* The liquidator: the loop of main that reloads the copy, scans it for    *)
(* liquidatable positions and asks the router for a swap of the            *)
(* collateral, and the tasks it spawns.  Bound: the markets lend and take  *)
(* the same two mints.                                                     *)
(***************************************************************************)
EXTENDS ClientState

CONSTANTS LiquidatableFrom,   \* the version from which a position is liquidatable
          MaxPools, MaxErrors

VARIABLES main,         \* where the loop is
          scanning,     \* the positions the scan has still to look at
          at,           \* the position it asks a quote for
          routed,       \* the positions last reported with a route
          tokens,       \* the pairs the spawned task has still to register
          pools, pool_cache, task, refresh, errors

loopVars == <<main, scanning, at, routed, tokens>>
routerVars == <<pools, pool_cache, task, refresh, errors>>
liquidatorVars == <<loopVars, routerVars>>

Pair == "supply and collateral mint"

Router == INSTANCE SwapRouter WITH Pairs <- {Pair}, Tasks <- {"main", "scan"}, cache <- pool_cache

LiquidatorInit ==
  /\ main = "sleep" /\ scanning = {} /\ at = None /\ routed = {} /\ tokens = {}
  /\ Router!Init

-----------------------------------------------------------------------------
BeginReload ==
  /\ app = "liquidator" /\ main = "sleep"
  /\ StartReload
  /\ main' = "reload"
  /\ UNCHANGED <<scanning, at, routed, tokens, routerVars>>

\* The scan only follows a reload that went well.
ReloadEnds ==
  /\ main = "reload" /\ pc = "idle"
  /\ main' = IF outcome = "ok" THEN "scan" ELSE "tokens"
  /\ scanning' = IF outcome = "ok" THEN {k \in Markets : cache.position[k] > 0} ELSE {}
  /\ UNCHANGED <<stateVars, at, routed, tokens, routerVars>>

-----------------------------------------------------------------------------
(***************************************************************************)
(* scan_liquidatable_positions.                                            *)
(***************************************************************************)
Liquidatable(version) == version >= LiquidatableFrom

\* A position in a market without a valid price is not looked at.
Examine(k) ==
  LET bad == Served(k) /\ Liquidatable(cache.position[k])
  IN  /\ main = "scan"
      /\ k \in scanning
      /\ scanning' = scanning \ {k}
      /\ main' = IF bad THEN "quote" ELSE "scan"
      /\ at' = IF bad THEN k ELSE None
      /\ UNCHANGED <<stateVars, routed, tokens, routerVars>>

\* best_quote_exact_in: a pair that is not cached is registered first.
QuoteRegisters ==
  /\ main = "quote" /\ pool_cache[Pair] = None
  /\ Router!register_pair("scan", Pair)
  /\ main' = "register"
  /\ UNCHANGED <<stateVars, scanning, at, routed, tokens>>

QuoteFetches ==
  /\ main = "register"
  /\ Router!fetch_initialized_pools("scan")
  /\ UNCHANGED <<stateVars, loopVars>>

QuoteInserts ==
  /\ main = "register"
  /\ Router!Insert("scan")
  /\ main' = "quote"
  /\ UNCHANGED <<stateVars, scanning, at, routed, tokens>>

\* The position is reported without a route.
QuoteFails ==
  /\ main = "register"
  /\ Router!FetchFails("scan")
  /\ main' = "scan"
  /\ routed' = routed \ {at}
  /\ UNCHANGED <<stateVars, scanning, at, tokens>>

\* The best of the quotes of the cached pools, if one of them can be had.
Quote ==
  /\ main = "quote" /\ pool_cache[Pair] # None
  /\ main' = "scan"
  /\ \/ pool_cache[Pair] > 0 /\ routed' = routed \union {at} /\ UNCHANGED errors
     \/ pool_cache[Pair] > 0 /\ routed' = routed \ {at} /\ Router!Error
     \/ pool_cache[Pair] = 0 /\ routed' = routed \ {at} /\ UNCHANGED errors
  /\ UNCHANGED <<stateVars, scanning, at, tokens, pools, pool_cache, task, refresh>>

ScanEnds ==
  /\ main = "scan" /\ scanning = {}
  /\ main' = "tokens"
  /\ at' = None
  /\ UNCHANGED <<stateVars, scanning, routed, tokens, routerVars>>

-----------------------------------------------------------------------------
\* Once per TOKEN_REFRESH_INTERVAL a task is spawned that registers all pairs.
SpawnTokens(due) ==
  /\ main = "tokens"
  /\ main' = "sleep"
  /\ tokens' = IF due /\ (\E k \in Markets : cache.market[k] > 0) THEN {Pair} ELSE tokens
  /\ UNCHANGED <<stateVars, scanning, at, routed, routerVars>>

\* An error only ends the registration of its pair.
RegisterToken(p) ==
  /\ p \in tokens
  /\ task["main"].pc = "idle"
  /\ tokens' = tokens \ {p}
  /\ IF pool_cache[p] = None THEN Router!register_pair("main", p) ELSE UNCHANGED routerVars
  /\ UNCHANGED <<stateVars, main, scanning, at, routed>>

TokenTask ==
  \/ RegisterToken(Pair)
  \/ (Router!fetch_initialized_pools("main") \/ Router!Insert("main")) /\ UNCHANGED <<stateVars, loopVars>>

RefreshTask == Router!Refresher /\ UNCHANGED <<stateVars, loopVars>>

LoopSteps ==
  \/ BeginReload \/ ReloadEnds \/ (\E k \in Markets : Examine(k))
  \/ QuoteRegisters \/ QuoteFetches \/ QuoteInserts \/ Quote \/ ScanEnds
  \/ \E due \in BOOLEAN : SpawnTokens(due)

RouterEvents ==
  /\ app = "liquidator"
  /\ \/ Router!PoolCreated(Pair) \/ Router!RefreshFails(Pair)
     \/ Router!FetchFails("main")
  /\ UNCHANGED <<stateVars, loopVars>>

\* A position that can be liquidated, in a market with a live feed and a pool for
\* its tokens, is reported with a route in the end: an old copy, a pair that was
\* registered before its pool existed, a slow registration that overwrites a
\* newer result and requests that fail only delay it.
RoutesAreFound ==
  \A k \in LiveFeeds :
    (app = "liquidator" /\ Liquidatable(chain[k].position) /\ pools[Pair] > 0) ~> k \in routed
=============================================================================
