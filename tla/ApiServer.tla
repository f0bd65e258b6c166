----------------------------- MODULE ApiServer -----------------------------
(***************************************************************************)
(* The API server over the shared copy: the two streams of a connection,   *)
(* the other requests, and the reload that stores into the maps they read. *)
(* Every map is split into shards with a lock each.  A stream keeps the    *)
(* read guard of its shard while it waits for its subscriber; the reload   *)
(* needs the write guard, and blocks its worker thread until it has it.  A *)
(* reader that comes while a writer waits blocks its thread too.           *)
(*                                                                         *)
(* Bounds: one connection, and one entry in every shard.                   *)
(***************************************************************************)
EXTENDS ClientState, FiniteSets

CONSTANTS Workers,      \* threads of the runtime
          MaxRequests   \* bound: other requests that are blocked at once

VARIABLES active,       \* active_market_streams and active_user_position_streams
          stream,       \* table |-> [pc, at, next, left]: its stream, and the guard it has
          waiting,      \* the shard the reload waits for, or None
          blocked       \* requests that wait for a read guard

serverVars == <<active, stream, waiting, blocked>>

\* A thread for everyone who can wait at once: the reload, the requests and all
\* streams but one.
ASSUME WorkersAssumption == Workers > MaxRequests + Cardinality(Tables)

NoStream == [pc |-> "idle", at |-> None, next |-> None, left |-> {}]

ServerInit ==
  /\ active = {}
  /\ stream = [t \in Tables |-> NoStream]
  /\ waiting = None
  /\ blocked = 0

Held(t, k) == stream[t].at = k

FreeWorker ==
  Workers > blocked + Cardinality({t \in Tables : stream[t].pc = "blocked"})
                    + (IF waiting = None THEN 0 ELSE 1)

-----------------------------------------------------------------------------
(***************************************************************************)
(* The reload, at the writes.                                              *)
(***************************************************************************)
Writes(t, k) ==
  \/ t = "position" /\ pc = "tables" /\ k = First(todo)
  \/ t = "market" /\ pc = "markets" /\ k = First(todo) /\ cache.feed[k] = "fresh"

WaitToWrite(t, k) ==
  /\ waiting = None
  /\ Writes(t, k) /\ Held(t, k)
  /\ waiting' = <<t, k>>
  /\ UNCHANGED <<stateVars, active, stream, blocked>>

\* A shard that the reader of table t needs for entry k: a position is shown with
\* its market.
Needs(t, k) == {<<t, k>>} \union (IF t = "position" THEN {<<"market", k>>} ELSE {})

\* Whoever waits behind the writer gets its guard when the write is done.
Resume ==
  /\ waiting' = None
  /\ blocked' = 0
  /\ stream' = [t \in Tables |->
        LET s == stream[t]
        IN  IF s.pc = "blocked" /\ waiting \in Needs(t, s.next)
            THEN [pc |-> "send", at |-> s.next, next |-> None, left |-> s.left \ {s.next}] ELSE s]
  /\ UNCHANGED active

WritePosition(k) ==
  /\ StorePosition(k)
  /\ waiting \in {None, <<"position", k>>}
  /\ ~Held("position", k)
  /\ Resume

WriteMarket(k) ==
  /\ process_single_market(k)
  /\ waiting \in {None, <<"market", k>>}
  /\ Writes("market", k) => ~Held("market", k)
  /\ Resume

-----------------------------------------------------------------------------
(***************************************************************************)
(* get_all_markets_streamed and get_all_user_positions_streamed.           *)
(***************************************************************************)
\* A second stream over the same table is refused and changes nothing.
Subscribe(t) ==
  /\ app = "server" /\ FreeWorker
  /\ t \notin active
  /\ active' = active \union {t}
  /\ stream' = [stream EXCEPT ![t] = [pc |-> "send", at |-> None, next |-> None, left |-> Markets]]
  /\ UNCHANGED <<stateVars, waiting, blocked>>

Remaining(t) == {k \in stream[t].left : cache[t][k] > 0}

\* The subscriber took the message, and the iterator goes on: it has the guard of
\* the next entry before it gives up the last one.
NextEntry(t) ==
  /\ stream[t].pc = "send" /\ FreeWorker
  /\ \E k \in Remaining(t) :
       stream' = [stream EXCEPT ![t] =
         IF waiting \in Needs(t, k) THEN [@ EXCEPT !.pc = "blocked", !.next = k]
         ELSE [pc |-> "send", at |-> k, next |-> None, left |-> @.left \ {k}]]
  /\ UNCHANGED <<stateVars, active, waiting, blocked>>

\* Mutant: a stream that is broken off returns at once.
EndStream_KeepsActive(t) ==
  /\ stream[t].pc = "send" /\ FreeWorker
  /\ stream' = [stream EXCEPT ![t] = NoStream]
  /\ active' = IF Remaining(t) = {} THEN active \ {t} ELSE active
  /\ UNCHANGED <<stateVars, waiting, blocked>>

\* Nothing is left to send, or the subscriber has gone.
EndStream(t) ==
  /\ stream[t].pc = "send" /\ FreeWorker
  /\ stream' = [stream EXCEPT ![t] = NoStream]
  /\ active' = active \ {t}
  /\ UNCHANGED <<stateVars, waiting, blocked>>

StreamSteps(t) == NextEntry(t) \/ EndStream(t)

\* The requests that read the copy without awaiting anything meanwhile have an
\* effect here only when they come while a writer waits.
RequestBlocks ==
  /\ waiting # None /\ FreeWorker
  /\ blocked < MaxRequests
  /\ blocked' = blocked + 1
  /\ UNCHANGED <<stateVars, active, stream, waiting>>

-----------------------------------------------------------------------------
\* A wallet behind the server: whatever it asks for, the transaction is built from
\* the shared copy, signed by the wallet and sent by the server.
build_autara_transaction(k) == app = "shared" /\ Build(k)

send_transaction(k) == app = "shared" /\ Land(k)

-----------------------------------------------------------------------------
WriterSteps ==
  \/ \E t \in Tables, k \in Markets : WaitToWrite(t, k)
  \/ \E k \in Markets : WritePosition(k) \/ WriteMarket(k)

\* A connection can always stream again: a stream ends, whether its subscriber
\* reads to the end or goes away, although it, the reload and the requests wait
\* for each other's guards, and its connection is then no longer marked active.
StreamsEnd == \A t \in Tables : t \in active ~> t \notin active
=============================================================================
