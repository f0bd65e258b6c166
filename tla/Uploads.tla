------------------------------ MODULE Uploads ------------------------------
(***************************************************************************)
(* The two upload tools on one program account.  The operator runs either  *)
(* of them, again and again until the program is in place; what an earlier *)
(* run of the one left in the pool may be executed during a run of the     *)
(* other.                                                                  *)
(***************************************************************************)
EXTENDS ElfLoader

CONSTANTS MAX_WRITE_PASSES, WRITE_STALL_LIMIT

ASSUME UploadsAssumption ==
  /\ MAX_WRITE_PASSES \in Nat \ {0}
  /\ WRITE_STALL_LIMIT \in Nat \ {0}
  /\ MaxRuns \in Nat
  /\ \A e \in Elfs \union {OldElf} : Blank \notin Range(e)

VARIABLES
  tool,                                      \* which tool the current run is of
  pc, elf, acc,                              \* the state of either
  todo, pass, stalls, answer,                \* of a run of upgrade_in_place
  blockhash, waiting, rejected, swallowed    \* of a run of deploy_program

upgradeVars == <<todo, pass, stalls, answer>>
deployVars == <<blockhash, waiting, rejected, swallowed>>
vars == <<program, pool, runs, tool, pc, elf, acc, upgradeVars, deployVars>>

U == INSTANCE ProgramUpgrade
D == INSTANCE ProgramDeploy

Idle == {"idle", "done", "failed"}

-----------------------------------------------------------------------------
UploadsInit ==
  /\ tool = "none"
  /\ program \in {NoProgram, Running(OldElf)}
  /\ pool = {} /\ runs = 0
  /\ pc = "idle" /\ elf = OldElf /\ acc = NoProgram
  /\ U!RunInit
  /\ D!RunInit

\* Somebody starts a tool with its keys and the new image.
RunUpgrade == U!StartRun /\ tool' = "upgrade" /\ UNCHANGED deployVars
RunDeploy == D!StartRun /\ tool' = "deploy" /\ UNCHANGED upgradeVars

UpgradeTool == tool = "upgrade" /\ U!Tool /\ UNCHANGED <<tool, deployVars>>
UpgradeGivesUp == tool = "upgrade" /\ U!GiveUp /\ UNCHANGED <<tool, deployVars>>

DeployTool == tool = "deploy" /\ D!Tool /\ UNCHANGED <<tool, upgradeVars>>
DeployGivesUp == tool = "deploy" /\ D!GiveUp /\ UNCHANGED <<tool, upgradeVars>>

\* The network executes or drops a transaction of any run.
Network(tx) ==
  \/ tool = "upgrade" /\ (U!Execute(tx) \/ U!Expire(tx)) /\ UNCHANGED <<tool, deployVars>>
  \/ tool = "deploy" /\ (D!Execute(tx) \/ D!Expire(tx)) /\ UNCHANGED <<tool, upgradeVars>>

UploadsNext ==
  \/ RunUpgrade \/ UpgradeTool \/ UpgradeGivesUp
  \/ RunDeploy \/ DeployTool \/ DeployGivesUp
  \/ \E tx \in pool : Network(tx)

\* A run of the upgrade keeps taking steps, and its waits have a time limit.
UploadsFairness ==
  /\ WF_vars(UpgradeTool)
  /\ WF_vars(pc \in U!Waiting /\ UpgradeGivesUp)

UploadsSpec == UploadsInit /\ [][UploadsNext]_vars /\ UploadsFairness

-----------------------------------------------------------------------------
\* Type invariant of the account, the pool and the run.
UploadsTypeOK ==
  /\ program \in [exists : BOOLEAN, header : BOOLEAN, exec : BOOLEAN, elf : Seq(Chunks)]
  /\ program.exec => program.header
  /\ program.header => program.exists
  /\ pool \union waiting \union rejected \subseteq
       [op : {"create", "retract", "truncate", "write", "deploy"}, blockhash : 1..MaxRuns,
        pass : 0..MAX_WRITE_PASSES, at : Nat, chunk : Chunks]
  /\ pc \in Idle \union U!Steps \union D!Steps
  /\ elf \in Elfs \union {OldElf}
  /\ todo \subseteq 1..Len(elf)
  /\ pass \in 0..MAX_WRITE_PASSES
  /\ stalls \in 0..WRITE_STALL_LIMIT
  /\ answer \in {"none", "ok", "failed"}

\* What runs is never a mixture of two ELFs and never lacks a chunk: an
\* executable program is the old ELF or the new one in full, whatever was lost,
\* delayed or sent twice by tools that were run again with the same file.
ExecutableIsWhole ==
  program.exec => program.elf \in {OldElf} \union Elfs

\* A run that ends well, other than on an "already exists" error, has the whole
\* file on chain, whatever earlier runs left in the pool.
DoneMeansUploaded ==
  (pc = "done" /\ ~(tool = "deploy" /\ swallowed)) => Whole(program, elf)

\* The upgrade comes to an end: a pass ends when its writes stall, and the number
\* of passes is bounded.
RunEnds == (tool = "upgrade" /\ pc \notin Idle) ~> (pc \in Idle)

\* "Verification happens BEFORE deploy, so a short write can never be made
\* executable": an executable program holds every chunk of one of the files.
ShortWriteNeverExecutable ==
  program.exec => \E e \in {OldElf} \union Elfs : missing_chunks(program, e) = {}

-----------------------------------------------------------------------------
(***************************************************************************)
(* Uploads to a fresh account or over an ELF of two chunks: a file of      *)
(* three that shares its first chunk and, for MCTwoElfs, another of two.   *)
(***************************************************************************)
MCOld == <<"a", "b">>
MCOneElf == {<<"a", "c", "d">>}
MCTwoElfs == {<<"a", "c", "d">>, <<"a", "e">>}
=============================================================================
