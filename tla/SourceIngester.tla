--------------------------- MODULE SourceIngester ---------------------------
(***************************************************************************)
(* The source ingester (internal/githubsource, the serve loop of           *)
(* cmd/glassroot-source-ingester) and the source stores it publishes       *)
(* (internal/githubsourcestore): it claims a source-import request of the  *)
(* controller store, fetches the commits of its target from GitHub into a  *)
(* staging directory, verifies them, publishes the directory by a rename   *)
(* and reports the result.                                                 *)
(*                                                                         *)
(* A source store ID hashes the target and not the job or the generation,  *)
(* so requests of different generations may share a store, and a store     *)
(* outlives the request it was made for.  Several ingester processes may   *)
(* run, under one ingester ID: an import may take longer than the lease    *)
(* it is done under.  Meanwhile the controller supersedes jobs.            *)
(*                                                                         *)
(* Nothing reads a staging directory but the process that made it, so      *)
(* staging is a local of the process, and what a crash leaves in .staging  *)
(* is not represented.                                                     *)
(***************************************************************************)
EXTENDS ControllerStore

CONSTANTS
  Processes,          \* ingester processes
  MaxMoves,           \* bound on movements of pull request head refs
  MaxFaults,          \* bound on crashes and failed calls
  FaultsUntil         \* no crash or failed call after this time

ASSUME SourceIngesterAssumption ==
  /\ MaxMoves \in Nat /\ MaxFaults \in Nat /\ FaultsUntil \in Nat

VARIABLES
  pullRef,    \* external: what fetching the base commit and refs/pull/N/head yields
  stores,     \* published stores by ID: what they hold and the claim that made them
  proc,       \* program counter and locals of every process
  moves,      \* ref movements so far
  faults      \* faults so far

dbOnly == <<prState, jobs, attempts, sources, nextSource, processed,
            recLeases, bindings, granted, sourceHandles>>
ingestVars == <<now, dbOnly, pullRef, stores, proc, moves, faults>>

Steps == {"idle", "check", "import", "publish", "apply", "release"}
StoreIDs == PRs \X Targets
NoStore == [holds |-> None, by |-> None]
IdleProc == [pc |-> "idle", req |-> None, target |-> None, staged |-> None]

IngestInit ==
  /\ StoreInit
  /\ pullRef \in [PRs -> Targets]
  /\ stores = [k \in StoreIDs |-> NoStore]
  /\ proc = [x \in Processes |-> IdleProc]
  /\ moves = 0
  /\ faults = 0

-----------------------------------------------------------------------------
(* The controller and GitHub.                                              *)

\* A pull request with the given head, open and eligible, or closed.
ShownAs(t) == [closed |-> t = None, draft |-> FALSE, target |-> t]

ControllerStep ==
  /\ \/ \E p \in PRs : AcquireReconcileLease(p)
     \/ \E o \in Deliveries, l \in granted, t \in Targets \cup {None} :
          ApplyPullRequestSnapshot(o, l, ShownAs(t), now)
     \/ \E o \in Deliveries, p \in PRs : ApplyInstallationHint(o, {p})
  /\ UNCHANGED <<pullRef, stores, proc, moves, faults>>

RefMoves(p, t) ==
  /\ moves < MaxMoves
  /\ pullRef[p] # t
  /\ pullRef' = [pullRef EXCEPT ![p] = t]
  /\ moves' = moves + 1
  /\ UNCHANGED <<now, dbOnly, stores, proc, faults>>

-----------------------------------------------------------------------------
(* One ingester process.                                                   *)

StoreID(x) == <<proc[x].req.pr, proc[x].target>>
Exists(x) == stores[StoreID(x)] # NoStore
Goto(x, pc) == proc' = [proc EXCEPT ![x].pc = pc]

\* ProcessNext: claim one request.  The store refuses a lease that is too long.
Claim(x) ==
  /\ proc[x].pc = "idle"
  /\ \E i \in Ingesters, p \in PRs, g \in Gens :
       /\ ClaimSourceImports(i, p, g)
       /\ proc' = [proc EXCEPT ![x] =
            [pc |-> "check", target |-> jobs[p][g].target, staged |-> None,
             req |-> [pr |-> p, job |-> g, owner |-> i, gen |-> sources[p][g].gen + 1]]]
  /\ UNCHANGED <<pullRef, stores, moves, faults>>

Verified_Skipped(content, target) == TRUE

\* verifyRepository: base and head of the repository are those of the request.
Verified(content, target) == content = target

\* openExisting on the store of the request: reuse it, or give the request up.
OpenExisting(x) ==
  Goto(x, IF Verified(stores[StoreID(x)].holds, proc[x].target) THEN "apply" ELSE "release")

ReuseIfAvailable_ByPR(x) ==
  /\ proc[x].pc = "check"
  /\ Goto(x, IF \E t \in Targets : stores[<<proc[x].req.pr, t>>] # NoStore
             THEN "apply" ELSE "import")
  /\ UNCHANGED <<now, dbOnly, pullRef, stores, moves, faults>>

\* ReuseIfAvailable, before a token is asked for.
ReuseIfAvailable(x) ==
  /\ proc[x].pc = "check"
  /\ IF Exists(x) THEN OpenExisting(x) ELSE Goto(x, "import")
  /\ UNCHANGED <<now, dbOnly, pullRef, stores, moves, faults>>

\* Import looks for the store again, then fetches into a fresh staging directory,
\* verifies what came and writes the metadata.
Import(x) ==
  /\ proc[x].pc = "import"
  /\ IF Exists(x) THEN OpenExisting(x)
     ELSE LET content == pullRef[proc[x].req.pr] IN
          IF Verified(content, proc[x].target)
          THEN proc' = [proc EXCEPT ![x].pc = "publish", ![x].staged = content]
          ELSE Goto(x, "release")
  /\ UNCHANGED <<now, dbOnly, pullRef, stores, moves, faults>>

Publish_Replaces(x) ==
  /\ proc[x].pc = "publish"
  /\ stores' = [stores EXCEPT ![StoreID(x)] = [holds |-> proc[x].staged, by |-> proc[x].req]]
  /\ Goto(x, "apply")
  /\ UNCHANGED <<now, dbOnly, pullRef, moves, faults>>

\* os.Rename does not replace a directory that is not empty: whoever renames
\* first wins, and the other opens what it finds.
Publish(x) ==
  /\ proc[x].pc = "publish"
  /\ IF Exists(x)
     THEN OpenExisting(x) /\ UNCHANGED stores
     ELSE /\ stores' = [stores EXCEPT ![StoreID(x)] =
                          [holds |-> proc[x].staged, by |-> proc[x].req]]
          /\ Goto(x, "apply")
  /\ UNCHANGED <<now, dbOnly, pullRef, moves, faults>>

\* ApplySourceImportResult; when it fails, for a stale lease, the request is
\* left to whoever holds it.
Apply(x) ==
  /\ proc[x].pc = "apply"
  /\ IF HoldsSourceLease(proc[x].req)
     THEN ApplySourceImportResult(proc[x].req, FALSE)
     ELSE UNCHANGED <<now, dbOnly>>
  /\ proc' = [proc EXCEPT ![x] = IdleProc]
  /\ UNCHANGED <<pullRef, stores, moves, faults>>

\* ReleaseSourceImport, its error ignored.  Every failure ends here: none is final.
Release(x) ==
  /\ proc[x].pc = "release"
  /\ IF HoldsSourceLease(proc[x].req)
     THEN FinishSourceLease(proc[x].req, "pending")
     ELSE UNCHANGED <<now, dbOnly>>
  /\ proc' = [proc EXCEPT ![x] = IdleProc]
  /\ UNCHANGED <<pullRef, stores, moves, faults>>

\* The broker, git, the file system or the verification fails.
ImportFails(x) ==
  /\ proc[x].pc \in {"check", "import", "publish"}
  /\ faults < MaxFaults /\ now <= FaultsUntil
  /\ Goto(x, "release")
  /\ faults' = faults + 1
  /\ UNCHANGED <<now, dbOnly, pullRef, stores, moves>>

\* The process dies, or the database fails the last call: the lease stays behind.
Crash(x) ==
  /\ proc[x].pc # "idle"
  /\ faults < MaxFaults /\ now <= FaultsUntil
  /\ proc' = [proc EXCEPT ![x] = IdleProc]
  /\ faults' = faults + 1
  /\ UNCHANGED <<now, dbOnly, pullRef, stores, moves>>

-----------------------------------------------------------------------------
IngestTick == Tick /\ UNCHANGED <<dbOnly, pullRef, stores, proc, moves, faults>>

ProcessStep(x) ==
  \/ Claim(x) \/ ReuseIfAvailable(x) \/ Import(x) \/ Publish(x) \/ Apply(x) \/ Release(x)

IngestNext ==
  \/ IngestTick
  \/ ControllerStep
  \/ \E p \in PRs, t \in Targets : RefMoves(p, t)
  \/ \E x \in Processes : ProcessStep(x)
  \/ \E x \in Processes : ImportFails(x) \/ Crash(x)

IngestSpec == IngestInit /\ [][IngestNext]_ingestVars

\* The serve loop runs forever and time passes.
FairIngestSpec ==
  /\ IngestSpec
  /\ WF_ingestVars(IngestTick)
  /\ \A x \in Processes : WF_ingestVars(ProcessStep(x))

-----------------------------------------------------------------------------
(* Properties.                                                             *)

IngestTypeOK ==
  /\ StoreTypeOK
  /\ pullRef \in [PRs -> Targets]
  /\ stores \in [StoreIDs -> [holds : Targets \cup {None}, by : SourceHandle \cup {None}]]
  /\ \A x \in Processes :
       /\ proc[x].pc \in Steps
       /\ proc[x].pc # "idle" => proc[x].req \in sourceHandles /\ proc[x].target \in Targets
  /\ moves \in 0..MaxMoves
  /\ faults \in 0..MaxFaults

\* A published store holds exactly the commits its ID is a hash of, although
\* the pull request's ref may move before, during or after the fetch.
PublishedHoldsTarget ==
  \A k \in StoreIDs : stores[k] # NoStore => stores[k].holds = k[2]

\* A job is handed to a runner only when the source store of its own target is
\* on disk, whichever process, lease or generation made it.
RunnableHasSource ==
  \A p \in PRs, g \in Gens :
    jobs[p][g].state = "awaiting-runner" =>
      /\ stores[<<p, jobs[p][g].target>>].holds = jobs[p][g].target
      /\ sources[p][g].state = "completed"

\* What the database and the stores say together, in states of the right type.
IngestInvariant == IngestTypeOK /\ RunnableHasSource

\* A published store is never overwritten, by the slower of two processes
\* that import the same target either.
StoresAreImmutable ==
  [][\A k \in StoreIDs : stores[k] # NoStore => stores'[k] = stores[k]]_ingestVars

\* A source-import request does not stay open: it is completed, or superseded
\* or cancelled meanwhile, once calls stop failing and the ref does not move.
RequestIsSettled ==
  \A p \in PRs, g \in Gens :
    sources[p][g].state \in SourceOpen /\ jobs[p][g].target = pullRef[p]
      ~> sources[p][g].state \notin SourceOpen \/ jobs[p][g].target # pullRef[p]

\* The ingester consumes source-import requests: a pending one is claimed.
\* (GITHUB_SOURCE_INGESTION.md, first paragraph.)
PendingIsConsumed ==
  \A p \in PRs, g \in Gens : sources[p][g].state = "pending" ~> sources[p][g].state # "pending"
=============================================================================
