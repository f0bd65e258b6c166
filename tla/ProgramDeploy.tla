---------------------------- MODULE ProgramDeploy ----------------------------
(***************************************************************************)
(* deploy_program (autara-deploy/src/rpc.rs) and the uploader under it     *)
(* (elf_upload.rs): create the account if there is none, retract, resize,  *)
(* send every chunk and wait for each, compare with the chain, make        *)
(* executable.  The operator runs it again after a failure; transactions   *)
(* of an earlier run may still be in the pool.                             *)
(***************************************************************************)
EXTENDS ElfLoader

VARIABLES
  blockhash,   \* the one the current run signs against
  pc,          \* where the current run is
  elf,         \* the ELF it uploads
  acc,         \* the account as write_program_elf read it
  waiting,     \* the run's transactions not yet known to be processed
  rejected,    \* the run's transactions reported as failed
  swallowed    \* the run ended well on an "already exists" error

vars == <<program, pool, runs, blockhash, pc, elf, acc, waiting, rejected, swallowed>>

Idle == {"idle", "done", "failed"}

Steps == {"read", "creating", "write_program_elf", "retracting", "resize", "truncating",
          "send", "writing", "compare", "make_executable", "deploying"}

RunInit == blockhash = 0 /\ waiting = {} /\ rejected = {} /\ swallowed = FALSE

\* The node's best finalized blockhash may still be the one of the previous run.
StartRun ==
  /\ pc \in Idle
  /\ runs < MaxRuns
  /\ runs' = runs + 1
  /\ blockhash' \in {blockhash, blockhash + 1} \ {0}
  /\ elf' \in Elfs
  /\ pc' = "read"
  /\ waiting' = {} /\ rejected' = {} /\ swallowed' = FALSE
  /\ UNCHANGED <<program, pool, acc>>

\* The node refuses a batch with a transaction equal to one in its pool, with an
\* error that says "already exists" - which deploy_program takes for success.
SendAll(txs, next) ==
  IF txs \intersect pool = {}
  THEN /\ pool' = pool \union txs
       /\ waiting' = txs
       /\ pc' = next
       /\ UNCHANGED swallowed
  ELSE /\ pc' = "done"
       /\ swallowed' = TRUE
       /\ UNCHANGED <<pool, waiting>>

\* deploy_program_elf: no account (or no answer) leads to create_account, a
\* complete ELF to the last step, anything else to the upload.
ReadFails ==
  /\ pc = "read"
  /\ SendAll({Tx("create", blockhash, 0, 0, elf)}, "creating")
  /\ UNCHANGED <<program, runs, blockhash, elf, acc, rejected>>

ReadAccount ==
  /\ pc = "read"
  /\ program.exists
  /\ pc' = CASE Whole(program, elf) /\ program.exec -> "done"
             [] Whole(program, elf) /\ ~program.exec -> "make_executable"
             [] OTHER -> "write_program_elf"
  /\ UNCHANGED <<program, pool, runs, blockhash, elf, acc, waiting, rejected, swallowed>>

\* write_program_elf reads the account again; the rest of it goes by that read.
ReadBeforeWrite ==
  /\ pc = "write_program_elf"
  /\ program.exists
  /\ acc' = program
  /\ IF program.exec
     THEN SendAll({Tx("retract", blockhash, 0, 0, elf)}, "retracting")
     ELSE pc' = "resize" /\ UNCHANGED <<pool, waiting, swallowed>>
  /\ UNCHANGED <<program, runs, blockhash, elf, rejected>>

Resize ==
  /\ pc = "resize"
  /\ IF ~acc.header \/ Len(acc.elf) # Len(elf)
     THEN SendAll({Tx("truncate", blockhash, 0, Len(elf), elf)}, "truncating")
     ELSE pc' = "send" /\ UNCHANGED <<pool, waiting, swallowed>>
  /\ UNCHANGED <<program, runs, blockhash, elf, acc, rejected>>

SendChunks ==
  /\ pc = "send"
  /\ SendAll({Tx("write", blockhash, 0, i, elf) : i \in 1..Len(elf)}, "writing")
  /\ UNCHANGED <<program, runs, blockhash, elf, acc, rejected>>

\* The status of create, truncate, write and deploy is looked at; the one of
\* retract is not.
StatusChecked == pc # "retracting"

\* wait_for_processed_transaction has answered for every transaction sent.
AllProcessed == waiting = {}

Confirm ==
  /\ pc \in {"creating", "retracting", "truncating", "writing", "deploying"}
  /\ AllProcessed
  /\ ~(StatusChecked /\ rejected # {})
  /\ pc' = CASE pc = "creating" -> "write_program_elf"
             [] pc = "retracting" -> "resize"
             [] pc = "truncating" -> "send"
             [] pc = "writing" -> "compare"
             [] pc = "deploying" -> "done"
  /\ rejected' = {}
  /\ UNCHANGED <<program, pool, runs, blockhash, elf, acc, waiting, swallowed>>

\* Mutant: a transaction reported as failed counts as processed.
RejectedIsFine ==
  /\ StatusChecked
  /\ rejected # {}
  /\ pc' = "done"
  /\ rejected' = {}
  /\ UNCHANGED <<program, pool, runs, blockhash, elf, acc, waiting, swallowed>>

\* A transaction whose status is looked at is reported as failed.
Rejected ==
  /\ StatusChecked
  /\ rejected # {}
  /\ pc' = "failed"
  /\ rejected' = {}
  /\ UNCHANGED <<program, pool, runs, blockhash, elf, acc, waiting, swallowed>>

\* The chain is compared with the file, and its executable flag decides whether
\* the last transaction is needed.
Compare ==
  /\ pc = "compare"
  /\ pc' = CASE ~Whole(program, elf) -> "failed"
             [] Whole(program, elf) /\ program.exec -> "done"
             [] OTHER -> "make_executable"
  /\ UNCHANGED <<program, pool, runs, blockhash, elf, acc, waiting, rejected, swallowed>>

make_program_executable ==
  /\ pc = "make_executable"
  /\ SendAll({Tx("deploy", blockhash, 0, 0, elf)}, "deploying")
  /\ UNCHANGED <<program, runs, blockhash, elf, acc, rejected>>

\* An RPC error, a timeout or an interrupt at any point of the run.
GiveUp ==
  /\ pc \notin Idle
  /\ pc' = "failed"
  /\ UNCHANGED <<program, pool, runs, blockhash, elf, acc, waiting, rejected, swallowed>>

-----------------------------------------------------------------------------
Execute(tx) ==
  /\ pool' = pool \ {tx}
  /\ waiting' = waiting \ {tx}
  /\ \/ program' \in Effect(tx, program) /\ UNCHANGED rejected
     \/ /\ Effect(tx, program) = {}
        /\ rejected' = rejected \union ({tx} \intersect waiting)
        /\ UNCHANGED program
  /\ UNCHANGED <<runs, blockhash, pc, elf, acc, swallowed>>

Expire(tx) ==
  /\ pool' = pool \ {tx}
  /\ UNCHANGED <<program, runs, blockhash, pc, elf, acc, waiting, rejected, swallowed>>

Tool ==
  \/ ReadFails \/ ReadAccount \/ ReadBeforeWrite \/ Resize \/ SendChunks
  \/ Confirm \/ Rejected \/ Compare \/ make_program_executable

=============================================================================
