----------------------------- MODULE IdlPublish -----------------------------
(***************************************************************************)
(* publish_idl (autara-client/src/idl_deploy.rs) driving the IDL handler   *)
(* over a network that delays, drops and answers late.  The operator runs  *)
(* the tool again after a failure; a transaction whose confirmation was    *)
(* given up on stays in the pool and may still be executed.  A behaviour   *)
(* is driven either by the tool or by wallets that send the sub-           *)
(* instructions themselves, in any order.                                  *)
(***************************************************************************)
EXTENDS IdlAccount

CONSTANTS
  Document,         \* the compressed IDL
  Authority,        \* the authority keypair of the publisher
  IDL_WRITE_CHUNK,
  MaxRuns           \* bound on the number of times the tool is run

ASSUME PublishAssumption ==
  /\ Authority \in Keys
  /\ Document \in Seq(Bytes)
  /\ IDL_WRITE_CHUNK \in Nat \ {0}
  /\ MaxRuns \in Nat

VARIABLES
  driver,    \* who sends the sub-instructions: the tool or the wallets
  pool,      \* transactions sent and neither executed nor dropped
  runs,      \* number of runs started; a transaction carries its run
  pc,        \* where the current run is
  written,   \* bytes of the document the run counts as on chain
  answer,    \* what the node reports of the transaction waited for
  late       \* a transaction of a run that had given up was executed

toolVars == <<pool, runs, pc, written, answer, late>>
vars == <<accounts, driver, pool, runs, pc, written, answer, late>>

Idle == {"idle", "done", "failed"}
TheAccount == accounts[Canonical]

\* The chunk the run sends after `n` bytes of the document.
Chunk(n) ==
  SubSeq(Document, n + 1,
         IF n + IDL_WRITE_CHUNK < Len(Document) THEN n + IDL_WRITE_CHUNK ELSE Len(Document))

\* Each transaction is signed against a fresh blockhash, so the ones of two
\* runs differ even when they carry the same bytes.
CreateTx == [run |-> runs, op |-> "create", bytes |-> << >>, nth |-> 0]
WriteTx(n) == [run |-> runs, op |-> "write", bytes |-> Chunk(n), nth |-> n]

Send(tx) ==
  /\ pool' = pool \union {tx}
  /\ answer' = "none"
  /\ pc' = IF tx.op = "create" THEN "creating" ELSE "writing"

-----------------------------------------------------------------------------
PublishInit ==
  /\ IdlInit
  /\ driver \in {"tool", "wallets"}
  /\ pool = {} /\ runs = 0 /\ pc = "idle" /\ written = 0
  /\ answer = "none" /\ late = FALSE

\* publish_idl of a run of the tool: a dry run stops before it and sends nothing,
\* and the authority is funded.
StartRun ==
  /\ driver = "tool"
  /\ pc \in Idle
  /\ runs < MaxRuns
  /\ runs' = runs + 1
  /\ pc' = "reading"
  /\ written' = 0
  /\ UNCHANGED <<driver, accounts, pool, answer, late>>

\* read_account_info answered with an error: the account does not exist, or the
\* call failed.  Either way the run sends Create.
ReadFails ==
  /\ pc = "reading"
  /\ Send(CreateTx)
  /\ UNCHANGED <<driver, accounts, runs, written, late>>

\* Mutant: the run does not look at what is on chain and sends it all.
ReadIgnored ==
  /\ pc = "reading"
  /\ TheAccount.disc
  /\ pc' = "sending"
  /\ written' = 0
  /\ UNCHANGED <<driver, accounts, pool, runs, answer, late>>

\* The account exists: what it holds must be a prefix of the document, and the
\* run resumes behind it.
ReadSucceeds ==
  /\ pc = "reading"
  /\ TheAccount # Unallocated
  /\ IF TheAccount.len <= Len(Document) /\ Written(TheAccount) = SubSeq(Document, 1, TheAccount.len)
     THEN pc' = "sending" /\ written' = TheAccount.len
     ELSE pc' = "failed" /\ UNCHANGED written
  /\ UNCHANGED <<driver, accounts, pool, runs, answer, late>>

SendChunk ==
  /\ pc = "sending"
  /\ written < Len(Document)
  /\ Send(WriteTx(written))
  /\ UNCHANGED <<driver, accounts, runs, written, late>>

\* confirm: the transaction was processed, or is reported as failed.
Confirm ==
  /\ pc \in {"creating", "writing"}
  /\ answer # "none"
  /\ IF answer = "ok"
     THEN /\ pc' = "sending"
          /\ written' = IF pc = "creating" THEN 0 ELSE written + Len(Chunk(written))
     ELSE pc' = "failed" /\ UNCHANGED written
  /\ UNCHANGED <<driver, accounts, pool, runs, answer, late>>

\* Mutant: waiting for a processed transaction never times out.
NeverGivesUp ==
  /\ pc \in {"creating", "writing"}
  /\ answer # "none"
  /\ pc' = "failed"
  /\ UNCHANGED <<driver, accounts, pool, runs, written, answer, late>>

\* wait_for_processed_transaction timed out: the run ends, its transaction does
\* not.  An RPC error at any other call ends the run the same way.
GiveUp ==
  /\ pc \notin Idle
  /\ pc' = "failed"
  /\ UNCHANGED <<driver, accounts, pool, runs, written, answer, late>>

\* The final read compares the chain with the document.
Verify ==
  /\ pc = "sending"
  /\ written >= Len(Document)
  /\ pc' = IF TheAccount # Unallocated /\ Written(TheAccount) = Document THEN "done" ELSE "failed"
  /\ UNCHANGED <<driver, accounts, pool, runs, written, answer, late>>

-----------------------------------------------------------------------------
Effect(tx) ==
  \/ tx.op = "create" /\ idl_create_account(Authority, Len(Document))
  \/ tx.op = "write" /\ idl_write(Canonical, Authority, tx.bytes)

Awaited(tx) == tx.run = runs /\ pc \in {"creating", "writing"}

\* The network executes a pooled transaction, successfully or not.
Execute(tx) ==
  /\ tx \in pool
  /\ pool' = pool \ {tx}
  /\ \/ /\ Effect(tx)
        /\ answer' = IF Awaited(tx) THEN "ok" ELSE answer
        /\ late' = (late \/ ~Awaited(tx))
     \/ /\ ~ENABLED Effect(tx)
        /\ answer' = IF Awaited(tx) THEN "failed" ELSE answer
        /\ UNCHANGED <<accounts, late>>
  /\ UNCHANGED <<driver, runs, pc, written>>

\* Its blockhash expired: it is dropped without a record.
Expire(tx) ==
  /\ tx \in pool
  /\ pool' = pool \ {tx}
  /\ UNCHANGED <<driver, accounts, runs, pc, written, answer, late>>

\* The operator closes the account, as the mismatch error asks for.
CloseByHand ==
  /\ driver = "tool"
  /\ pc \in Idle
  /\ idl_close_account(Canonical, Authority)
  /\ pc' = "idle"
  /\ UNCHANGED <<driver, pool, runs, written, answer, late>>

\* The steps of a run, its start aside.
Tool == ReadFails \/ ReadSucceeds \/ SendChunk \/ Confirm \/ GiveUp \/ Verify

\* Wallets send the sub-instructions themselves.
Wallets ==
  /\ driver = "wallets"
  /\ IdlNext
  /\ UNCHANGED <<driver, toolVars>>

PublishNext ==
  \/ StartRun \/ Tool \/ CloseByHand
  \/ \E tx \in pool : Execute(tx) \/ Expire(tx)
  \/ Wallets

\* A run that was started is not suspended: its program keeps taking steps and
\* the wait for a transaction has a time limit.
PublishFairness == WF_vars(Tool)

PublishSpec == PublishInit /\ [][PublishNext]_vars /\ PublishFairness

-----------------------------------------------------------------------------
\* Type invariant of the publisher and the transactions it has in the pool.
PublishTypeOK ==
  /\ IdlTypeOK
  /\ driver \in {"tool", "wallets"}
  /\ pool \subseteq [run : 1..MaxRuns, op : {"create", "write"},
                      bytes : Seq(Bytes), nth : 0..Len(Document)]
  /\ runs \in 0..MaxRuns
  /\ pc \in Idle \union {"reading", "creating", "sending", "writing"}
  /\ written \in 0..Len(Document)
  /\ answer \in {"none", "ok", "failed"}
  /\ late \in BOOLEAN

\* A publication that was verified stays published: the transactions earlier
\* runs left in the pool cannot append to it, because Create allocates exactly
\* the document and Write refuses what does not fit.
VerifiedStaysPublished ==
  pc = "done" => TheAccount.disc /\ Written(TheAccount) = Document

\* Crashes, lost answers and any number of re-runs leave a prefix of the
\* document on chain, as long as no transaction a run gave up on is executed
\* afterwards: a run sends only what is missing.
PrefixUnlessLate ==
  (driver = "tool" /\ ~late /\ TheAccount.disc) => IsPrefix(Written(TheAccount), Document)

\* Every run of the tool comes to an end, whatever the network drops.
RunEnds == (pc \notin Idle) ~> (pc \in Idle)

-----------------------------------------------------------------------------
(***************************************************************************)
(* The publisher on a document of five bytes, sent in chunks of two: two   *)
(* full chunks and a short one.                                            *)
(***************************************************************************)
MCDocument == <<1, 2, 3, 4, 5>>

\* What the wallets write, whole or in parts.
MCPayloads == {<<1>>, <<2, 3, 4>>}
=============================================================================
