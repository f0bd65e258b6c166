----------------------------- MODULE SwapRouter -----------------------------
(***************************************************************************)
(* The router of the liquidator: the tasks that register token pairs and   *)
(* the task that refreshes the pools of the pairs, all over one pool cache *)
(* behind a lock that is not held while pools are fetched.  The loop that  *)
(* asks for quotes is Liquidator.                                          *)
(*                                                                         *)
(* The pools of a pair on chain are abstracted to their number, which only *)
(* grows.                                                                  *)
(***************************************************************************)
EXTENDS Naturals

CONSTANTS Pairs,        \* the sorted pairs of mints
          Tasks,        \* the tasks that register pairs: main's and the scan
          MaxPools,     \* bound: pools of a pair
          MaxErrors,    \* bound: requests that fail
          None

VARIABLES pools,        \* pair |-> the number of initialized pools on chain
          cache,        \* pool_cache: pair |-> number of pools, or None
          task,         \* task |-> [pc, pair, found]
          refresh,      \* the refreshing task: [pc, todo, found]
          errors

vars == <<pools, cache, task, refresh, errors>>

Idle == [pc |-> "idle", pair |-> None, found |-> None]

Sleeping == [pc |-> "sleep", todo |-> {}, found |-> None]

Init ==
  /\ pools = [p \in Pairs |-> 0]
  /\ cache = [p \in Pairs |-> None]
  /\ task = [t \in Tasks |-> Idle]
  /\ refresh = Sleeping
  /\ errors = 0

Registered == {p \in Pairs : cache[p] # None}

PoolCreated(p) ==
  /\ pools[p] < MaxPools
  /\ pools' = [pools EXCEPT ![p] = @ + 1]
  /\ UNCHANGED <<cache, task, refresh, errors>>

Error == errors < MaxErrors /\ errors' = errors + 1

-----------------------------------------------------------------------------
(***************************************************************************)
(* register_pair, called by the task that main spawns for every pair of    *)
(* tokens and by best_quote_exact_in for a pair that is not cached.        *)
(***************************************************************************)
\* The check, under the read lock.
register_pair(t, p) ==
  /\ task[t].pc = "idle"
  /\ cache[p] = None
  /\ task' = [task EXCEPT ![t] = [pc |-> "fetch", pair |-> p, found |-> None]]
  /\ UNCHANGED <<pools, cache, refresh, errors>>

fetch_initialized_pools(t) ==
  /\ task[t].pc = "fetch"
  /\ task' = [task EXCEPT ![t].pc = "insert", ![t].found = pools[task[t].pair]]
  /\ UNCHANGED <<pools, cache, refresh, errors>>

\* The insertion, under the write lock, whatever the cache holds by now.
Insert(t) ==
  /\ task[t].pc = "insert"
  /\ cache' = [cache EXCEPT ![task[t].pair] = task[t].found]
  /\ task' = [task EXCEPT ![t] = Idle]
  /\ UNCHANGED <<pools, refresh, errors>>

FetchFails(t) ==
  /\ task[t].pc = "fetch"
  /\ Error
  /\ task' = [task EXCEPT ![t] = Idle]
  /\ UNCHANGED <<pools, cache, refresh>>

-----------------------------------------------------------------------------
(***************************************************************************)
(* maybe_refresh_pools, once per DISCOVERY_INTERVAL.                       *)
(***************************************************************************)
\* Mutant: the pairs without pools are dropped from the refresh.
StartRefresh_SkipsEmpty ==
  /\ refresh.pc = "sleep"
  /\ refresh' = [pc |-> "fetch", todo |-> {p \in Registered : cache[p] > 0}, found |-> None]
  /\ UNCHANGED <<pools, cache, task, errors>>

\* The pairs are those registered when the refresh begins.
StartRefresh ==
  /\ refresh.pc = "sleep"
  /\ refresh' = [pc |-> "fetch", todo |-> Registered, found |-> None]
  /\ UNCHANGED <<pools, cache, task, errors>>

RefreshFetches(p) ==
  /\ refresh.pc = "fetch"
  /\ p \in refresh.todo
  /\ refresh' = [pc |-> "insert", todo |-> refresh.todo, found |-> <<p, pools[p]>>]
  /\ UNCHANGED <<pools, cache, task, errors>>

RefreshInserts ==
  /\ refresh.pc = "insert"
  /\ cache' = [cache EXCEPT ![refresh.found[1]] = refresh.found[2]]
  /\ refresh' = [pc |-> "fetch", todo |-> refresh.todo \ {refresh.found[1]}, found |-> None]
  /\ UNCHANGED <<pools, task, errors>>

\* A pair whose request fails keeps what it has until the next refresh.
RefreshFails(p) ==
  /\ refresh.pc = "fetch"
  /\ p \in refresh.todo
  /\ Error
  /\ refresh' = [refresh EXCEPT !.todo = @ \ {p}]
  /\ UNCHANGED <<pools, cache, task>>

EndRefresh ==
  /\ refresh.pc = "fetch"
  /\ refresh.todo = {}
  /\ refresh' = Sleeping
  /\ UNCHANGED <<pools, cache, task, errors>>

-----------------------------------------------------------------------------
Refresher ==
  StartRefresh \/ (\E p \in Pairs : RefreshFetches(p)) \/ RefreshInserts \/ EndRefresh
=============================================================================
