---------------------------- MODULE ClientState ----------------------------
(***************************************************************************)
(* The client's copy of the chain: AutaraSharedState, reloaded by a task   *)
(* of its own while the API server reads it, and AutaraReadClientImpl,     *)
(* reloaded by its owner.  A reload reads the tables concurrently, stores  *)
(* the positions, and only then fetches the oracle accounts and stores the *)
(* markets.  A wallet builds transactions from the copy and sends them;    *)
(* the API server streams the copy (ApiServer) and the liquidator scans it *)
(* (Liquidator).                                                           *)
(*                                                                         *)
(* The chain is abstracted to versions: a transaction on a market raises   *)
(* the version of the market and of the wallet's position in it, and       *)
(* version 0 is an account that does not exist.                            *)
(***************************************************************************)
EXTENDS Naturals

CONSTANTS Markets,
          LiveFeeds,    \* the markets whose oracle feeds are pushed again
          MaxEvents,    \* bound: errors, lost transactions, changes by others
          None

VARIABLES app,          \* who keeps the copy, see Apps
          chain,        \* market |-> [market, position: versions, fresh: its feeds]
          cache,        \* [market, position, feed], each by market
          pc,           \* where the reload is
          read,         \* the tables the reload has read
          todo,         \* the markets it has still to process
          focus,        \* the market reload_market is called for
          began,        \* the chain when the last reload began
          outcome,      \* of the last reload
          want, tx,     \* the wallet's wish and its transaction, by market
          events

stateVars == <<app, chain, cache, pc, read, todo, focus, began, outcome, want, tx, events>>

Tables == {"market", "position"}

\* A wallet with a copy of its own or behind the shared one, the API server, and
\* the liquidator.
Apps == {"own", "shared", "server", "liquidator"}
shared == app \in {"shared", "server"}
Wallet == app \in {"own", "shared"}

\* Bound: one event less happens to those with more tasks than a reload.
Init ==
  /\ app \in Apps
  /\ chain = [k \in Markets |->
        [market |-> 1, fresh |-> TRUE,
         position |-> IF Wallet THEN 0 ELSE IF app = "liquidator" /\ k \in LiveFeeds THEN 2 ELSE 1]]
  /\ cache = [market |-> [k \in Markets |-> 0], position |-> [k \in Markets |-> 0],
              feed |-> [k \in Markets |-> "none"]]
  /\ pc = "idle"
  /\ read = <<>>
  /\ todo = {}
  /\ focus = CHOOSE k \in Markets : TRUE
  /\ began = chain
  /\ outcome = "none"
  /\ want = [k \in Markets |-> Wallet]
  /\ tx = [k \in Markets |-> "none"]
  /\ events = IF app = "own" THEN 0 ELSE MaxEvents - 1

Event == events < MaxEvents /\ events' = events + 1

-----------------------------------------------------------------------------
(***************************************************************************)
(* The reload.                                                             *)
(***************************************************************************)
StartReload ==
  /\ pc = "idle"
  /\ pc' = "reading"
  /\ read' = <<>>
  /\ began' = chain
  /\ UNCHANGED <<app, chain, cache, todo, focus, outcome, want, tx, events>>

\* One of the joined requests is answered.
ReadTable(t) ==
  /\ pc = "reading"
  /\ t \notin DOMAIN read
  /\ read' = [x \in DOMAIN read \union {t} |->
                IF x = t THEN [k \in Markets |-> chain[k][t]] ELSE read[x]]
  /\ UNCHANGED <<app, chain, cache, pc, todo, focus, began, outcome, want, tx, events>>

Answered == pc = "reading" /\ DOMAIN read = Tables

\* The next of the entries, in the order of the answer.
First(S) == CHOOSE k \in S : TRUE

\* All are answered: the shared client stores the positions, one by one, and
\* keeps its older markets until the oracles are known.
BeginStore ==
  /\ shared
  /\ Answered
  /\ pc' = "tables"
  /\ todo' = Markets
  /\ UNCHANGED <<app, chain, cache, read, focus, began, outcome, want, tx, events>>

\* Mutant: a position that is known is not replaced.
StorePosition_OrInsert(k) ==
  /\ pc = "tables"
  /\ todo # {} /\ k = First(todo)
  /\ todo' = todo \ {k}
  /\ cache' = [cache EXCEPT !.position[k] = IF @ = 0 THEN read["position"][k] ELSE @]
  /\ pc' = IF todo' = {} THEN "oracles" ELSE pc
  /\ UNCHANGED <<app, chain, read, focus, began, outcome, want, tx, events>>

StorePosition(k) ==
  /\ pc = "tables"
  /\ todo # {} /\ k = First(todo)
  /\ todo' = todo \ {k}
  /\ cache' = [cache EXCEPT !.position[k] = read["position"][k]]
  /\ pc' = IF todo' = {} THEN "oracles" ELSE pc
  /\ UNCHANGED <<app, chain, read, focus, began, outcome, want, tx, events>>

\* Mutant: the maps are replaced only when every market can be synchronised.
StoreMaps_ErrorReturned ==
  LET dead == \E k \in Markets : ~chain[k].fresh
  IN  /\ ~shared
      /\ Answered
      /\ pc' = IF dead THEN "idle" ELSE "oracles"
      /\ outcome' = IF dead THEN "failed" ELSE outcome
      /\ cache' = IF dead THEN cache
                  ELSE [cache EXCEPT !.position = read["position"], !.market = read["market"]]
      /\ UNCHANGED <<app, chain, read, todo, focus, began, want, tx, events>>

\* The single-threaded client replaces its maps, the markets as they were read.
StoreMaps ==
  /\ ~shared
  /\ Answered
  /\ pc' = "oracles"
  /\ cache' = [cache EXCEPT !.position = read["position"],
                            !.market = read["market"]]
  /\ UNCHANGED <<app, chain, read, todo, focus, began, outcome, want, tx, events>>

\* Whether a market can be synchronised with the oracle accounts; the interest
\* that this adds to the copy is not a version of the chain.
inner_reload_market(k) == IF chain[k].fresh THEN "fresh" ELSE "stale"

\* The shared client stores the oracle accounts.
StoreOracles ==
  /\ shared
  /\ pc = "oracles"
  /\ pc' = "markets"
  /\ todo' = Markets
  /\ cache' = [cache EXCEPT !.feed = [k \in Markets |-> inner_reload_market(k)]]
  /\ UNCHANGED <<app, chain, read, focus, began, outcome, want, tx, events>>

\* It then stores the markets one by one, between which readers come; a market
\* that cannot be synchronised is reported and skipped.
process_single_market(k) ==
  /\ pc = "markets"
  /\ todo # {} /\ k = First(todo)
  /\ todo' = todo \ {k}
  /\ cache' = IF cache.feed[k] = "fresh" THEN [cache EXCEPT !.market[k] = read["market"][k]] ELSE cache
  /\ pc' = IF todo' = {} THEN "idle" ELSE pc
  /\ outcome' = IF todo' = {} THEN "ok" ELSE outcome
  /\ read' = IF todo' = {} THEN <<>> ELSE read
  /\ UNCHANGED <<app, chain, focus, began, want, tx, events>>

\* The single-threaded client stores the oracle accounts.  A market whose feed does
\* not pass the validation stays as it was read.
FetchOracles ==
  /\ ~shared
  /\ pc = "oracles"
  /\ cache' = [cache EXCEPT !.feed = [k \in Markets |-> inner_reload_market(k)]]
  /\ pc' = "idle"
  /\ outcome' = "ok"
  /\ read' = <<>>
  /\ UNCHANGED <<app, chain, todo, focus, began, want, tx, events>>

\* A request fails, or the reload takes longer than its timeout: what it has not
\* stored yet is forgotten.  Nothing is awaited while it stores.
ReloadFails ==
  /\ pc \notin {"idle", "tables", "markets"}
  /\ Event
  /\ pc' = "idle"
  /\ outcome' = IF pc \in {"reading", "oracles"} THEN "failed" ELSE outcome
  /\ read' = <<>>
  /\ UNCHANGED <<app, chain, cache, todo, focus, began, want, tx>>

-----------------------------------------------------------------------------
(***************************************************************************)
(* reload_authority_accounts_for_market, of the single-threaded client.    *)
(***************************************************************************)
reload_market(k) ==
  /\ app = "own"
  /\ pc = "idle"
  /\ Event
  /\ pc' = "market"
  /\ focus' = k
  /\ read' = [t \in {"market"} |-> [m \in Markets |-> chain[m].market]]
  /\ UNCHANGED <<app, chain, cache, todo, began, outcome, want, tx>>

\* The oracles of the market: it is stored only when it could be synchronised,
\* and the positions are not asked for otherwise.
StoreMarket ==
  LET fresh == chain[focus].fresh
  IN  /\ pc = "market"
      /\ pc' = IF fresh THEN "positions" ELSE "idle"
      /\ cache' = [cache EXCEPT
            !.feed[focus] = inner_reload_market(focus),
            !.market[focus] = IF fresh THEN read["market"][focus] ELSE @]
      /\ UNCHANGED <<app, chain, read, todo, focus, began, outcome, want, tx, events>>

\* A position that does not exist is an error that is ignored.
reload_position ==
  /\ pc = "positions"
  /\ pc' = "idle"
  /\ cache' = [cache EXCEPT !.position[focus] =
        IF chain[focus].position > 0 THEN chain[focus].position ELSE @]
  /\ UNCHANGED <<app, chain, read, todo, focus, began, outcome, want, tx, events>>

-----------------------------------------------------------------------------
(***************************************************************************)
(* The wallet.                                                             *)
(***************************************************************************)
\* get_market needs the market and feeds that are valid now.
Served(k) == cache.market[k] > 0 /\ cache.feed[k] = "fresh"

\* Mutant: the builder always creates the position.
Build_AlwaysCreates(k) ==
  /\ want[k] /\ tx[k] = "none" /\ Served(k)
  /\ tx' = [tx EXCEPT ![k] = "create"]
  /\ UNCHANGED <<app, chain, cache, pc, read, todo, focus, began, outcome, want, events>>

\* The position is created in the same transaction when the copy does not have
\* it.
Build(k) ==
  /\ want[k] /\ tx[k] = "none" /\ Served(k)
  /\ tx' = [tx EXCEPT ![k] = IF cache.position[k] = 0 THEN "create" ELSE "plain"]
  /\ UNCHANGED <<app, chain, cache, pc, read, todo, focus, began, outcome, want, events>>

\* What the program makes of it; a refused transaction changes nothing, and the
\* wallet tries again.
Land(k) ==
  LET accepted == chain[k].fresh /\ (tx[k] = "create" <=> chain[k].position = 0)
  IN  /\ tx[k] # "none"
      /\ tx' = [tx EXCEPT ![k] = "none"]
      /\ IF accepted
         THEN /\ chain' = [chain EXCEPT ![k].market = @ + 1, ![k].position = @ + 1]
              /\ want' = [want EXCEPT ![k] = FALSE]
         ELSE UNCHANGED <<chain, want>>
      /\ UNCHANGED <<app, cache, pc, read, todo, focus, began, outcome, events>>

-----------------------------------------------------------------------------
(***************************************************************************)
(* The rest of the world.                                                  *)
(***************************************************************************)
\* The transaction is not processed in time, or its blockhash has expired.
Lost(k) ==
  /\ tx[k] # "none"
  /\ Event
  /\ tx' = [tx EXCEPT ![k] = "none"]
  /\ UNCHANGED <<app, chain, cache, pc, read, todo, focus, began, outcome, want>>

\* The same wallet on another device, a transaction that the wallet gave up on and
\* that lands late, or anyone else on the market.
OtherTx(k) ==
  /\ Event
  /\ \E own \in BOOLEAN :
        chain' = [chain EXCEPT ![k].market = @ + 1,
                               ![k].position = IF own THEN @ + 1 ELSE @]
  /\ UNCHANGED <<app, cache, pc, read, todo, focus, began, outcome, want, tx>>

\* max_age passes: the copy of the quote ages with the quote.
FeedAges(k) ==
  /\ chain[k].fresh
  /\ Event
  /\ chain' = [chain EXCEPT ![k].fresh = FALSE]
  /\ cache' = [cache EXCEPT !.feed[k] = IF @ = "fresh" THEN "stale" ELSE @]
  /\ UNCHANGED <<app, pc, read, todo, focus, began, outcome, want, tx>>

FeedPushed(k) ==
  /\ k \in LiveFeeds
  /\ ~chain[k].fresh
  /\ chain' = [chain EXCEPT ![k].fresh = TRUE]
  /\ UNCHANGED <<app, cache, pc, read, todo, focus, began, outcome, want, tx, events>>

-----------------------------------------------------------------------------
\* Type invariant of the copy and of the reload: the oracles are fetched once all
\* the tables are there, and nothing in the copy is newer than the chain.
TypeOK ==
  /\ app \in Apps
  /\ pc \in {"idle", "reading", "tables", "oracles", "markets", "market", "positions"}
  /\ DOMAIN read \subseteq Tables
  /\ todo \subseteq Markets /\ (todo # {} <=> pc \in {"tables", "markets"})
  /\ outcome \in {"none", "ok", "failed"}
  /\ pc \in {"tables", "oracles", "markets"} => DOMAIN read = Tables
  /\ \A k \in Markets : /\ cache.market[k] \in 0..chain[k].market
                        /\ cache.position[k] \in 0..chain[k].position
  /\ cache.feed \in [Markets -> {"none", "fresh", "stale"}]
  /\ tx \in [Markets -> {"none", "create", "plain"}]

\* After a reload that returned Ok, a market that is served and the position in
\* it are at least as recent as the chain was when that reload began, although
\* the tables were read at different moments.
ReloadIsRecent ==
  outcome = "ok" /\ pc = "idle" =>
    \A k \in Markets :
      /\ cache.position[k] >= began[k].position
      /\ Served(k) => cache.market[k] >= began[k].market

\* Once nobody changes the chain, the copy becomes equal to it and stays so, for
\* every market with a live feed: errors, timeouts, the dead feed of another
\* market and the streams of the server only delay it.
CacheCatchesUp ==
  \A k \in LiveFeeds :
    <>[](cache.market[k] = chain[k].market /\ cache.position[k] = chain[k].position)

\* A wallet whose transaction is refused because its copy was stale, or lost, has
\* its wish fulfilled in the end.
RequestsServed == \A k \in LiveFeeds : want[k] ~> ~want[k]
=============================================================================
