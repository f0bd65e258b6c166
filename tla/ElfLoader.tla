------------------------------ MODULE ElfLoader ------------------------------
(***************************************************************************)
(* The program account, the loader that owns it and the pool transactions  *)
(* wait in, as the two upload tools use them.  None of it is code of this  *)
(* repository: the loader's instructions are modelled by the effect the    *)
(* tools rely on.  The ELF in the account is a sequence of chunks, each    *)
(* the size of one write; a chunk never written is Blank.                  *)
(***************************************************************************)
EXTENDS Integers, Sequences, FiniteSets, SequencesExt

CONSTANTS
  Elfs,       \* the ELF files a run may upload, as sequences of chunks
  OldElf,     \* what the account holds, executable, before the first run
  Blank,
  MaxRuns     \* bound on the number of runs

VARIABLES
  program,    \* the program account
  pool,       \* transactions sent, neither executed nor dropped
  runs        \* number of runs started

loaderVars == <<program, pool, runs>>

Chunks == UNION {Range(e) : e \in Elfs \union {OldElf}} \union {Blank}

NoProgram == [exists |-> FALSE, header |-> FALSE, exec |-> FALSE, elf |-> << >>]
Running(e) == [exists |-> TRUE, header |-> TRUE, exec |-> TRUE, elf |-> e]

Resized(e, n) == [i \in 1..n |-> IF i <= Len(e) THEN e[i] ELSE Blank]

\* A transaction is identified by what it does and by the blockhash it was signed
\* against; a repair pass of a run signs against a fresh one.
Tx(op, blockhash, pass, at, elf) ==
  [op |-> op, blockhash |-> blockhash, pass |-> pass, at |-> at,
   chunk |-> IF op = "write" THEN elf[at] ELSE Blank]

\* The effect of an executed transaction: the set of accounts it can leave,
\* empty when the loader rejects it.
Effect(tx, p) ==
  CASE tx.op = "create" ->
         IF p.exists THEN {} ELSE {[NoProgram EXCEPT !.exists = TRUE]}
    [] tx.op = "retract" ->
         IF p.exec THEN {[p EXCEPT !.exec = FALSE]} ELSE {}
    [] tx.op = "truncate" ->
         IF p.exists /\ ~p.exec
         THEN {[p EXCEPT !.header = TRUE, !.elf = Resized(p.elf, tx.at)]} ELSE {}
    [] tx.op = "write" ->
         IF p.header /\ ~p.exec /\ tx.at <= Len(p.elf)
         THEN {[p EXCEPT !.elf[tx.at] = tx.chunk]} ELSE {}
    [] tx.op = "deploy" ->
         IF p.header /\ ~p.exec THEN {[p EXCEPT !.exec = TRUE]} ELSE {}

\* missing_chunks: the chunks whose bytes on chain are not those of the ELF.
missing_chunks(p, elf) ==
  {i \in 1..Len(elf) : ~(p.header /\ i <= Len(p.elf) /\ p.elf[i] = elf[i])}

\* The ELF bytes of the account are those of the file.
Whole(p, elf) == p.header /\ p.elf = elf

=============================================================================
