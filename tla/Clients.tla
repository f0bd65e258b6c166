------------------------------ MODULE Clients ------------------------------
(***************************************************************************)
(* The programs that keep a copy of the chain, each with its own use of    *)
(* it: a behaviour is of one of them (app).                                *)
(***************************************************************************)
EXTENDS ApiServer, Liquidator

vars == <<stateVars, serverVars, liquidatorVars>>

ClientsInit == Init /\ ServerInit /\ LiquidatorInit

\* The reload of whoever keeps the copy; the writes to the shared one need the
\* guards of ApiServer, and the liquidator's is begun by its loop.
ReloadSteps ==
  \/ /\ app # "liquidator" /\ StartReload
     /\ UNCHANGED <<serverVars, liquidatorVars>>
  \/ /\ (\E t \in Tables : ReadTable(t)) \/ BeginStore \/ StoreMaps \/ StoreOracles \/ FetchOracles
        \/ StoreMarket \/ reload_position
     /\ UNCHANGED <<serverVars, liquidatorVars>>
  \/ WriterSteps /\ UNCHANGED liquidatorVars

WalletSteps(k) ==
  /\ \/ app = "own" /\ (Build(k) \/ Land(k))
     \/ build_autara_transaction(k) \/ send_transaction(k)
  /\ UNCHANGED <<serverVars, liquidatorVars>>

PusherPushes(k) == FeedPushed(k) /\ UNCHANGED <<serverVars, liquidatorVars>>

Events ==
  /\ \/ waiting = None /\ ReloadFails
     \/ \E k \in Markets : reload_market(k) \/ Lost(k) \/ OtherTx(k) \/ FeedAges(k)
  /\ UNCHANGED <<serverVars, liquidatorVars>>

Streams(t) == StreamSteps(t) /\ UNCHANGED liquidatorVars

\* The task that reloads: of the liquidator it is also the one that scans.
ReloadTask == ReloadSteps \/ (LoopSteps /\ UNCHANGED serverVars)

RegisterTask == TokenTask /\ UNCHANGED serverVars

Refreshing == app = "liquidator" /\ RefreshTask /\ UNCHANGED serverVars

Next ==
  \/ ReloadTask \/ Events
  \/ \E k \in Markets : WalletSteps(k) \/ PusherPushes(k)
  \/ \E t \in Tables : Streams(t) \/ (Subscribe(t) /\ UNCHANGED liquidatorVars)
  \/ RequestBlocks /\ UNCHANGED liquidatorVars
  \/ RegisterTask \/ Refreshing
  \/ (RouterEvents \/ QuoteFails) /\ UNCHANGED serverVars

\* The reloading task never stops (spawn and main loop for ever), the wallet
\* retries, and the network executes a transaction or loses it.  A subscriber
\* reads or goes away.  The refreshing task never stops either, and requests are
\* answered.
Fairness ==
  /\ WF_vars(ReloadTask) /\ WF_vars(Refreshing)
  /\ \A k \in LiveFeeds : WF_vars(WalletSteps(k)) /\ WF_vars(PusherPushes(k))
  /\ \A t \in Tables : WF_vars(Streams(t))

Spec == ClientsInit /\ [][Next]_vars /\ Fairness
=============================================================================
