--------------------------- MODULE ProgramUpgrade ---------------------------
(***************************************************************************)
(* upgrade_in_place (autara-client/src/idl_deploy.rs): retract, resize,    *)
(* write the chunks in passes, reconcile against the chain, deploy, verify *)
(* - against a network that loses, delays and reorders transactions and an *)
(* operator who runs the tool again after a failure.                       *)
(***************************************************************************)
EXTENDS ElfLoader

CONSTANTS MAX_WRITE_PASSES, WRITE_STALL_LIMIT

VARIABLES
  pc,        \* where the current run is
  elf,       \* the ELF it uploads
  acc,       \* the account as read at the start of the run
  todo,      \* chunks the last readback found missing
  pass, stalls,
  answer     \* what the node reports of the transaction waited for

vars == <<program, pool, runs, pc, elf, acc, todo, pass, stalls, answer>>

Idle == {"idle", "done", "failed"}
Waiting == {"retracting", "truncating", "deploying"}
Steps == Waiting \union {"retract", "resize", "seed", "write", "poll", "deploy", "verify"}

-----------------------------------------------------------------------------
RunInit == todo = {} /\ pass = 0 /\ stalls = 0 /\ answer = "none"

\* The preflight read and its checks; the authority is the right one.  Every run
\* signs against a blockhash of its own: a transaction equal to one in the pool
\* would be refused, which is a send that fails.
StartRun ==
  /\ pc \in Idle
  /\ runs < MaxRuns
  /\ program.header
  /\ runs' = runs + 1
  /\ acc' = program
  /\ elf' \in Elfs
  /\ pc' = "retract"
  /\ todo' = {} /\ pass' = 0 /\ stalls' = 0 /\ answer' = "none"
  /\ UNCHANGED <<program, pool>>

SendAndWait(tx, waiting) ==
  /\ pool' = pool \union {tx}
  /\ answer' = "none"
  /\ pc' = waiting

\* 1. retract, only if the account was read as executable
Retract ==
  /\ pc = "retract"
  /\ IF acc.exec
     THEN SendAndWait(Tx("retract", runs, 0, 0, elf), "retracting")
     ELSE pc' = "resize" /\ UNCHANGED <<pool, answer>>
  /\ UNCHANGED <<program, runs, elf, acc, todo, pass, stalls>>

\* 2. resize to the size of the new ELF, by the size read at the start; the
\* transfer of missing rent is left out
Resize ==
  /\ pc = "resize"
  /\ IF Len(acc.elf) # Len(elf)
     THEN SendAndWait(Tx("truncate", runs, 0, Len(elf), elf), "truncating")
     ELSE pc' = "seed" /\ UNCHANGED <<pool, answer>>
  /\ UNCHANGED <<program, runs, elf, acc, todo, pass, stalls>>

\* 3. what is missing is read from the chain
Seed ==
  /\ pc = "seed"
  /\ todo' = missing_chunks(program, elf)
  /\ pc' = "write"
  /\ pass' = 1
  /\ UNCHANGED <<program, pool, runs, elf, acc, stalls, answer>>

\* One pass: all missing chunks are sent, and none is waited for.  A batch the
\* node refuses is a set of transactions that expires at once.
SendPass ==
  /\ pc = "write"
  /\ pool' = pool \union {Tx("write", runs, pass, i, elf) : i \in todo}
  /\ stalls' = 0
  /\ pc' = "poll"
  /\ UNCHANGED <<program, runs, elf, acc, todo, pass, answer>>

\* Mutant: a readback that shows the same chunks missing is not a stall.
NeverStalls(remaining) ==
  IF Cardinality(remaining) <= Cardinality(todo) THEN 0 ELSE stalls + 1

StallsAfter(remaining) ==
  IF Cardinality(remaining) < Cardinality(todo) THEN 0 ELSE stalls + 1

\* Mutant: when the passes are used up the tool goes on to deploy.
DeployAnyway(remaining, stalled) ==
  CASE remaining = {} -> "deploy"
    [] remaining # {} /\ ~stalled -> "poll"
    [] remaining # {} /\ stalled /\ pass < MAX_WRITE_PASSES -> "write"
    [] OTHER -> "deploy"

AfterPoll(remaining, stalled) ==
  CASE remaining = {} -> "deploy"
    [] remaining # {} /\ ~stalled -> "poll"
    [] remaining # {} /\ stalled /\ pass < MAX_WRITE_PASSES -> "write"
    [] OTHER -> "failed"

\* A readback.  Nothing missing ends the writing; a stall ends the pass; no
\* pass left ends the run, with the program retracted.
Poll ==
  /\ pc = "poll"
  /\ LET remaining == missing_chunks(program, elf)
         stalled == StallsAfter(remaining) >= WRITE_STALL_LIMIT
     IN  /\ todo' = remaining
         /\ stalls' = StallsAfter(remaining)
         /\ pc' = AfterPoll(remaining, stalled)
         /\ pass' = IF pc' = "write" THEN pass + 1 ELSE pass
  /\ UNCHANGED <<program, pool, runs, elf, acc, answer>>

\* 4. deploy
Deploy ==
  /\ pc = "deploy"
  /\ SendAndWait(Tx("deploy", runs, 0, 0, elf), "deploying")
  /\ UNCHANGED <<program, runs, elf, acc, todo, pass, stalls>>

\* confirm: the transaction was processed, or is reported as failed.
Confirm ==
  /\ pc \in Waiting
  /\ answer # "none"
  /\ pc' = CASE answer = "failed" -> "failed"
             [] answer = "ok" /\ pc = "retracting" -> "resize"
             [] answer = "ok" /\ pc = "truncating" -> "seed"
             [] answer = "ok" /\ pc = "deploying" -> "verify"
  /\ UNCHANGED <<program, pool, runs, elf, acc, todo, pass, stalls, answer>>

Verify ==
  /\ pc = "verify"
  /\ pc' = IF program.exec /\ Whole(program, elf) THEN "done" ELSE "failed"
  /\ UNCHANGED <<program, pool, runs, elf, acc, todo, pass, stalls, answer>>

\* An RPC error, a wait that timed out or the operator's interrupt: the run
\* ends, its transactions stay where they are.
GiveUp ==
  /\ pc \notin Idle
  /\ pc' = "failed"
  /\ UNCHANGED <<program, pool, runs, elf, acc, todo, pass, stalls, answer>>

-----------------------------------------------------------------------------
Awaited(tx) ==
  /\ tx.blockhash = runs
  /\ \/ tx.op = "retract" /\ pc = "retracting"
     \/ tx.op = "truncate" /\ pc = "truncating"
     \/ tx.op = "deploy" /\ pc = "deploying"

Execute(tx) ==
  /\ pool' = pool \ {tx}
  /\ \/ /\ program' \in Effect(tx, program)
        /\ answer' = IF Awaited(tx) THEN "ok" ELSE answer
     \/ /\ Effect(tx, program) = {}
        /\ answer' = IF Awaited(tx) THEN "failed" ELSE answer
        /\ UNCHANGED program
  /\ UNCHANGED <<runs, pc, elf, acc, todo, pass, stalls>>

Expire(tx) ==
  /\ pool' = pool \ {tx}
  /\ UNCHANGED <<program, runs, pc, elf, acc, todo, pass, stalls, answer>>

Tool == Retract \/ Resize \/ Seed \/ SendPass \/ Poll \/ Deploy \/ Confirm \/ Verify

=============================================================================
