------------------------------ MODULE LocalRun ------------------------------
(***************************************************************************)
(* The frame of a local run (internal/localrun): from the request to the   *)
(* output directory.  What happens inside one execution is the subject of  *)
(* Execute; here several runs, started for the same output directory, race *)
(* with each other and with the directory's owner, every call may fail,    *)
(* a process may be killed, and the machine may lose power.                *)
(*                                                                         *)
(* A directory has the entries the processes see and the entries that are  *)
(* on disk; fsync of a directory makes the second equal to the first.      *)
(***************************************************************************)
EXTENDS Naturals, FiniteSets

CONSTANT Runs

ASSUME RunsAssumption == IsFiniteSet(Runs) /\ Runs # {}

\* verifyFinalStagingTree: the entries of a finished output directory.
ReportOrder == <<"report.json", "report.md", "report.txt", "run.json">>
FirstReports(k) == {ReportOrder[i] : i \in 1..k}
Reports == FirstReports(4)
FinalTree == Reports \cup {"evidence"}
WorkDirs == {"workspaces", "evidence-parent"}

VARIABLES
  pc,       \* the next call of each run
  place,    \* where the directory of the run is: "none", "staging", "output", or
            \* "withdrawn" while and after it is removed from the output path again
  diskPlace,\* ... and where it is on disk
  names,    \* its entries
  diskNames,\* ... and those on disk
  open,     \* what the run holds: attempt workspaces, the Docker client
  answer,   \* what Run returned
  owner     \* what the owner has put at the output path: "none", "empty" or "full"

vars == <<pc, place, diskPlace, names, diskNames, open, answer, owner>>
disk == <<place, diskPlace, names, diskNames>>

Init ==
  /\ pc = [r \in Runs |-> "validate"]
  /\ place = [r \in Runs |-> "none"]
  /\ diskPlace = [r \in Runs |-> "none"]
  /\ names = [r \in Runs |-> {}]
  /\ diskNames = [r \in Runs |-> {}]
  /\ open = [r \in Runs |-> {}]
  /\ answer = [r \in Runs |-> "none"]
  /\ owner = "none"

-----------------------------------------------------------------------------

Places == {"none", "staging", "output", "withdrawn"}
AtOutput(p) == p \in {"output", "withdrawn"}
OutputExists == owner # "none" \/ \E r \in Runs : AtOutput(place[r])
Goto(r, next) == pc' = [pc EXCEPT ![r] = next]
Returns(r, code) == Goto(r, "done") /\ answer' = [answer EXCEPT ![r] = code]

\* A step that succeeds and goes on to `next', or fails and unwinds: the deferred
\* functions run, last one first.
Step(r, here, next) ==
  pc[r] = here /\ UNCHANGED answer /\ (Goto(r, next) \/ Goto(r, "unwind"))

\* ValidateRequest: the output must not exist.
Validate(r) ==
  /\ pc[r] = "validate"
  /\ IF OutputExists THEN Returns(r, "invalid-request")
     ELSE (Goto(r, "staging") /\ UNCHANGED answer) \/ Returns(r, "invalid-request")
  /\ UNCHANGED <<disk, open, owner>>

\* createStaging: a new directory with a random name beside the output.
CreateStaging(r) ==
  /\ pc[r] = "staging"
  /\ \/ /\ Goto(r, "mkdirs") /\ UNCHANGED answer
        /\ place' = [place EXCEPT ![r] = "staging"]
     \/ Returns(r, "failed") /\ UNCHANGED place
  /\ UNCHANGED <<diskPlace, names, diskNames, open, owner>>

MakeWorkDirs(r) ==
  /\ pc[r] = "mkdirs"
  /\ \/ Goto(r, "prepare") /\ names' = [names EXCEPT ![r] = WorkDirs]
     \/ Goto(r, "unwind") /\ \E made \in SUBSET WorkDirs : names' = [names EXCEPT ![r] = made]
  /\ UNCHANGED answer
  /\ UNCHANGED <<place, diskPlace, diskNames, open, owner>>

\* preparePlanAndWorkspaces: on an error it closes what it has opened.
Prepare(r) ==
  /\ pc[r] = "prepare"
  /\ \/ Goto(r, "engine") /\ open' = [open EXCEPT ![r] = @ \cup {"workspaces"}]
     \/ Goto(r, "unwind") /\ UNCHANGED open
  /\ UNCHANGED <<disk, answer, owner>>

OpenEngine(r) ==
  /\ pc[r] = "engine"
  /\ \/ Goto(r, "execute") /\ open' = [open EXCEPT ![r] = @ \cup {"engine"}]
     \/ Goto(r, "unwind") /\ UNCHANGED open
  /\ UNCHANGED <<disk, answer, owner>>

\* verifyImagePresent, dockerdev.New and executeAndWriteEvidence.
ExecuteAndCommit(r) ==
  /\ Step(r, "execute", "close")
  /\ UNCHANGED <<disk, open, owner>>

\* closeAttemptResources, which closes all of them whatever fails, then engine.Close,
\* which is not tried again.
CloseResources(r) ==
  /\ pc[r] = "close"
  /\ \/ Goto(r, "relocate") /\ open' = [open EXCEPT ![r] = {}]
     \/ Goto(r, "unwind") /\ open' = [open EXCEPT ![r] = @ \ {"workspaces"}]
     \/ Goto(r, "unwind") /\ open' = [open EXCEPT ![r] = {}]
  /\ UNCHANGED <<disk, answer, owner>>

\* verifyRelocateAndVerifyEvidence: verify, rename, sync the staging directory, verify.
Relocate(r) ==
  /\ pc[r] = "relocate"
  /\ \/ Goto(r, "unwind") /\ UNCHANGED <<names, diskNames>>
     \/ /\ names' = [names EXCEPT ![r] = @ \cup {"evidence"}]
        /\ \/ Goto(r, "unwind") /\ UNCHANGED diskNames
           \/ /\ Goto(r, "inspect") \/ Goto(r, "unwind")
              /\ diskNames' = [diskNames EXCEPT ![r] = names[r] \cup {"evidence"}]
  /\ UNCHANGED <<place, diskPlace, open, answer, owner>>

\* inspectEvidence, renderReports and buildMetadata.
Inspect(r) ==
  /\ Step(r, "inspect", "write")
  /\ UNCHANGED <<disk, open, owner>>

\* writeRunOutputs: the four files, one after the other; a failed write leaves those before
\* it, and may leave its own.
WriteOutputs(r) ==
  /\ pc[r] = "write"
  /\ \/ Goto(r, "removework") /\ names' = [names EXCEPT ![r] = @ \cup Reports]
     \/ Goto(r, "unwind") /\ \E k \in 0..4 : names' = [names EXCEPT ![r] = @ \cup FirstReports(k)]
  /\ UNCHANGED <<place, diskPlace, diskNames, open, answer, owner>>

RemoveWorkDirs(r) ==
  /\ pc[r] = "removework"
  /\ \/ Goto(r, "tree") /\ names' = [names EXCEPT ![r] = @ \ WorkDirs]
     \/ Goto(r, "unwind") /\ \E left \in SUBSET WorkDirs :
                               names' = [names EXCEPT ![r] = (@ \ WorkDirs) \cup left]
  /\ UNCHANGED <<place, diskPlace, diskNames, open, answer, owner>>

VerifyTree(r) ==
  /\ pc[r] = "tree"
  /\ Goto(r, IF names[r] = FinalTree THEN "syncstaging" ELSE "unwind")
  /\ UNCHANGED <<disk, open, answer, owner>>

\* syncDir(staging)
SyncStaging_Skipped(r) ==
  /\ pc[r] = "syncstaging"
  /\ Goto(r, "lstat") \/ Goto(r, "unwind")
  /\ UNCHANGED <<disk, open, answer, owner>>
SyncStaging(r) ==
  /\ pc[r] = "syncstaging"
  /\ \/ Goto(r, "lstat") /\ diskNames' = [diskNames EXCEPT ![r] = names[r]]
     \/ Goto(r, "unwind") /\ UNCHANGED diskNames
  /\ UNCHANGED <<place, diskPlace, names, open, answer, owner>>

\* Lstat of the output: a path that has appeared is a collision.
LstatOutput(r) ==
  /\ pc[r] = "lstat"
  /\ \/ Goto(r, IF OutputExists THEN "unwind" ELSE "rename")
     \/ Goto(r, "unwind")
  /\ UNCHANGED <<disk, open, answer, owner>>

\* rename(2) of a directory: the target may be missing or an empty directory.
RenameWorks_Always(r) == TRUE
RenameWorks(r) == owner # "full" /\ \A q \in Runs : AtOutput(place[q]) => names[q] = {}

\* Rename; nothing is removed any more by the deferred functions.
Rename(r) ==
  /\ pc[r] = "rename"
  /\ \/ /\ RenameWorks(r)
        /\ Goto(r, "syncparent")
        /\ owner' = "none"
        /\ place' = [q \in Runs |-> IF q = r THEN "output"
                                    ELSE IF AtOutput(place[q]) THEN "none" ELSE place[q]]
     \/ Goto(r, "unwind") /\ UNCHANGED <<owner, place>>
  /\ UNCHANGED <<diskPlace, names, diskNames, open, answer>>

\* syncDir(parent): the parent's entries are on disk, those of the other runs too.
SyncParent(r) ==
  /\ pc[r] = "syncparent"
  /\ \/ Returns(r, "ok") /\ diskPlace' = place
     \/ Goto(r, "withdraw") /\ UNCHANGED <<answer, diskPlace>>
  /\ place' = [place EXCEPT ![r] = IF pc'[r] = "withdraw" THEN "withdrawn" ELSE @]
  /\ UNCHANGED <<names, diskNames, open, owner>>

\* RemoveAll(OutputDir) after the failed sync: entry by entry; its error is ignored.
Withdraw(r) ==
  /\ pc[r] = "withdraw"
  /\ \/ \E n \in names[r] : /\ names' = [names EXCEPT ![r] = @ \ {n}]
                            /\ UNCHANGED <<pc, place, answer>>
     \/ /\ names[r] = {}
        /\ place' = [place EXCEPT ![r] = "none"]
        /\ Returns(r, "failed") /\ UNCHANGED names
     \/ Returns(r, "failed") /\ UNCHANGED <<names, place>>
  /\ UNCHANGED <<diskPlace, diskNames, open, owner>>

\* The deferred functions after an error: the Docker client and the workspaces are closed
\* and the staging directory is removed; an error there is joined to the first one.
DeferredClose_StagingOnly(r) == open[r]
DeferredClose(r) == {}

UnwindAll(r) ==
  /\ pc[r] = "unwind"
  /\ open' = [open EXCEPT ![r] = DeferredClose(r)]
  /\ \/ /\ place' = [place EXCEPT ![r] = "none"]
        /\ names' = [names EXCEPT ![r] = {}]
        /\ Returns(r, "failed")
     \/ Returns(r, "cleanup-failed") /\ UNCHANGED <<place, names>>
  /\ UNCHANGED <<diskPlace, diskNames, owner>>

-----------------------------------------------------------------------------
(* The surroundings.                                                       *)

\* The owner makes a directory at the output path, or puts something into it.
OwnerMakes ==
  /\ \/ ~OutputExists /\ owner' = "empty"
     \/ owner = "empty" /\ owner' = "full"
  /\ UNCHANGED <<pc, disk, open, answer>>

\* A run is killed.
Kill(r) ==
  /\ pc[r] \notin {"done", "killed"}
  /\ Goto(r, "killed")
  /\ open' = [open EXCEPT ![r] = {}]
  /\ UNCHANGED <<disk, answer, owner>>

\* What may be found of a directory whose last changes were not synced.
AfterPowerLoss(seen, stored) == {n \in SUBSET (seen \cup stored) : seen \cap stored \subseteq n}

\* The machine loses power and starts again: every rename and every entry since the last
\* sync is there or is not.  (What a forgotten staging directory holds is not tracked.)
PowerLoss ==
  /\ \E w \in {f \in [Runs -> Places] : \A r \in Runs : f[r] \in {place[r], diskPlace[r]}} :
       /\ \A r, q \in Runs : AtOutput(w[r]) /\ AtOutput(w[q]) => r = q
       /\ place' = w /\ diskPlace' = w
       /\ \E left \in UNION {AfterPowerLoss(names[r], diskNames[r]) : r \in Runs} :
            /\ \A r \in Runs : AtOutput(w[r]) => left \in AfterPowerLoss(names[r], diskNames[r])
            /\ names' = [r \in Runs |-> IF AtOutput(w[r]) THEN left ELSE {}]
       /\ owner' = IF \E r \in Runs : AtOutput(w[r]) THEN "none" ELSE owner
  /\ diskNames' = names'
  /\ pc' = [r \in Runs |-> IF pc[r] = "done" THEN "done" ELSE "killed"]
  /\ open' = [r \in Runs |-> {}]
  /\ UNCHANGED answer

RunStep(r) ==
  \/ Validate(r) \/ CreateStaging(r) \/ MakeWorkDirs(r) \/ Prepare(r) \/ OpenEngine(r)
  \/ ExecuteAndCommit(r) \/ CloseResources(r) \/ Relocate(r) \/ Inspect(r) \/ WriteOutputs(r)
  \/ RemoveWorkDirs(r) \/ VerifyTree(r) \/ SyncStaging(r) \/ LstatOutput(r) \/ Rename(r)
  \/ SyncParent(r) \/ Withdraw(r) \/ UnwindAll(r)

Next == (\E r \in Runs : RunStep(r) \/ Kill(r)) \/ OwnerMakes \/ PowerLoss

Spec == Init /\ [][Next]_vars

-----------------------------------------------------------------------------
(* Properties.                                                             *)

\* Types of the variables.
TypeOK ==
  /\ place \in [Runs -> Places] /\ diskPlace \in [Runs -> Places]
  /\ names \in [Runs -> SUBSET (FinalTree \cup WorkDirs)]
  /\ diskNames \in [Runs -> SUBSET (FinalTree \cup WorkDirs)]
  /\ open \in [Runs -> SUBSET {"workspaces", "engine"}]
  /\ answer \in [Runs -> {"none", "ok", "failed", "invalid-request", "cleanup-failed"}]
  /\ owner \in {"none", "empty", "full"}

\* Whoever finds an output directory finds a whole one, of one run: also after runs have
\* raced for it, after a kill and after a loss of power (Run renames a synced tree).  The
\* exception is an output that is being taken back because the parent could not be synced.
OutputIsWhole ==
  /\ \A r \in Runs : place[r] = "output" => names[r] = FinalTree
  /\ \A r, q \in Runs : AtOutput(place[r]) /\ AtOutput(place[q]) => r = q
  /\ owner # "none" => \A r \in Runs : ~AtOutput(place[r])

\* The output path, in states of the right type.
LocalRunInvariant == TypeOK /\ OutputIsWhole

\* A run that reported success has its output in place, whatever happens afterwards:
\* other runs for the same path, failures, kills, a loss of power.
SuccessLasts == \A r \in Runs : answer[r] = "ok" => place[r] = "output" /\ names[r] = FinalTree

\* A run that returns holds nothing any more and has removed its staging directory, or
\* says that the cleanup failed.
NothingLeftBehind ==
  [][\A r \in Runs : pc[r] # "done" /\ pc'[r] = "done" =>
       /\ open'[r] = {}
       /\ place'[r] = "staging" => answer'[r] = "cleanup-failed"]_vars

\* What the owner has put at the output path is not replaced by a run that checked the
\* path before (Lstat and rename are two calls).
OwnersFilesStay == [][owner = "full" => owner' = "full"]_vars
=============================================================================
