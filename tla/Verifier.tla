------------------------------ MODULE Verifier ------------------------------
(***************************************************************************)
(* Post-deployment verification (internal/verify/verifier.go) and the two  *)
(* tables it persists (internal/storage/verifications.go).  Once per       *)
(* reconciliation cycle Run records newly merged changes, advances every   *)
(* open verification by one step and computes the halted workloads.        *)
(*                                                                         *)
(* A run is a sequence of actions, one per merged change recorded and one  *)
(* per verification advanced, so humans merging PRs, ArgoCD, the clock and *)
(* a crash interleave with it.  Any call to another service may fail.      *)
(***************************************************************************)
EXTENDS Pulls, FiniteSets

CONSTANTS
  Window,           \* how long a change is watched after it rolled out
  RolloutTimeout,   \* how long after the merge the rollout may take
  Lookback,         \* how far back merged PRs are discovered
  RecheckInterval,  \* 0 disables re-checking
  RecheckFor,       \* how long after the rollout re-checking goes on
  MaxRollbacks,     \* failed changes that halt a workload
  RecordLimit,      \* verifications one run reads (500 in the code)
  Faults,           \* kinds of failure that may happen, see Fault
  MaxFaults,        \* bound: failures in a behaviour
  MaxTime,          \* bound: the clock stops here
  MaxChanges        \* bound: recommendation PRs merged in a behaviour

ASSUME VerifierAssumption ==
  /\ Window \in Nat /\ RolloutTimeout \in Nat /\ Lookback \in Nat
  /\ RecheckInterval \in Nat /\ RecheckFor \in Nat
  /\ MaxRollbacks \in Nat \ {0}
  /\ RecordLimit \in Nat
  /\ MaxFaults \in Nat /\ MaxTime \in Nat /\ MaxChanges \in Nat

VARIABLES
  (* the services around the agent *)
  clock,      \* wall clock, whole seconds; starts at 1
  pulls,      \* pull requests on GitHub
  manifest,   \* each workload's value on the base branch
  live,       \* each Deployment's value in the cluster
  ready,      \* whether the Deployment's latest spec is rolled out
  resume,     \* resume-after annotation of each Deployment, 0 if unset
  (* the database *)
  store,      \* verification of each PR
  halted,     \* halted_workloads: the failed PRs of each halted workload
  (* the memory of a run *)
  pc,         \* "idle" between runs
  runNow,     \* the time sampled at the start of the run
  toRecord,   \* merged PRs listed and not yet recorded
  recs,       \* the verifications read by this run, updated in place
  toAdvance,  \* PRs of recs not yet advanced
  result,     \* what Run returned to the cycle
  faults      \* failures so far

services == <<clock, pulls, manifest, live, ready, resume>>
database == <<store, halted>>
memory == <<pc, runNow, toRecord, recs, toAdvance, result>>
vars == <<services, database, memory, faults>>

Status == {"None", "WaitingForRollout", "Verifying", "Verified", "Degraded",
           "RollbackProposed", "RolledBack", "NotDeployed", "Skipped",
           "RollbackDeclined"}

Terminal == {"RollbackProposed", "RolledBack", "NotDeployed", "Skipped",
             "RollbackDeclined"}

(* Whether a status counts towards halting its workload. *)
Failed(status) ==
  status \in {"Degraded", "RollbackProposed", "RolledBack", "RollbackDeclined"}

(***************************************************************************)
(* A row of the verifications table.  Its target, merge time, changes and  *)
(* previous values are copied from the PR, and nothing rewrites a PR once  *)
(* it is merged, so they are read from pulls.  DeployedAt and Baseline are *)
(* set together; a zero deployedAt means both are absent.  measuredAt is   *)
(* what recheckDue counts its interval from, UpdatedAt of the verdict and  *)
(* CheckedAt once re-checked (which sets both to the same time); nothing   *)
(* reads either of them in another status than Verified.                   *)
(***************************************************************************)
Verification ==
  [status: Status, deployedAt: Nat, measuredAt: Nat, rollbackPR: 0..MaxPRs]

NoRecord == [status |-> "None", deployedAt |-> NoTime, measuredAt |-> NoTime,
             rollbackPR |-> 0]

NoRecords == [p \in PRs |-> NoRecord]
NothingHalted == [t \in Targets |-> {}]

TypeOK ==
  /\ clock \in Nat
  /\ pulls \in [PRs -> PullRequest]
  /\ manifest \in [Targets -> Values]
  /\ live \in [Targets -> Values]
  /\ ready \in [Targets -> BOOLEAN]
  /\ resume \in [Targets -> Nat]
  /\ store \in [PRs -> Verification]
  /\ halted \in [Targets -> SUBSET PRs]
  /\ pc \in {"idle", "list", "record", "advance"}
  /\ runNow \in Nat
  /\ toRecord \in SUBSET PRs
  /\ recs \in [PRs -> Verification]
  /\ toAdvance \in SUBSET PRs
  /\ result \in [Targets -> SUBSET PRs]
  /\ faults \in Nat

Init ==
  /\ clock = 1
  /\ pulls = NoPulls
  /\ manifest \in [Targets -> Values]
  /\ live = manifest
  /\ ready = [t \in Targets |-> TRUE]
  /\ resume = [t \in Targets |-> NoTime]
  /\ store = NoRecords
  /\ halted = NothingHalted
  /\ pc = "idle"
  /\ runNow = NoTime
  /\ toRecord = {}
  /\ recs = NoRecords
  /\ toAdvance = {}
  /\ result = NothingHalted
  /\ faults = 0

(***************************************************************************)
(* Failures, by kind: "list" (listing merged PRs), "read" (reading the     *)
(* verifications), "save" (a write to the database), "call" (Kubernetes,   *)
(* Prometheus or GitHub during a step) and "crash".  A call to GitHub that *)
(* fails, and a crash, may come before or after GitHub did what it was     *)
(* asked.  "manifest" is a repository that offers nothing to patch for the *)
(* workload: no folder, no YAML file, no field that applies.               *)
(***************************************************************************)
Fault(kind) ==
  /\ kind \in Faults
  /\ faults < MaxFaults
  /\ faults' = faults + 1

NoFault == UNCHANGED faults

-----------------------------------------------------------------------------
(* Run: sample the time, list the merged PRs, record them oldest first. *)

StartRun ==
  /\ pc = "idle"
  /\ pc' = "list"
  /\ runNow' = clock
  /\ result' = NothingHalted
  /\ NoFault
  /\ UNCHANGED <<services, database, toRecord, recs, toAdvance>>

ListMerged ==
  /\ pc = "list"
  /\ pc' = "record"
  /\ \/ toRecord' = MergedChanges(pulls, runNow - Lookback) /\ NoFault
     \/ toRecord' = {} /\ Fault("list")
  /\ UNCHANGED <<services, database, runNow, recs, toAdvance, result>>

(* Changes merged at the same second come in any order. *)
OldestFirst(S) ==
  {p \in S : \A q \in S : pulls[p].mergedAt <= pulls[q].mergedAt}

(* The write of one verification, or its failure. *)
SaveVerification(p, rec) ==
  \/ store' = [store EXCEPT ![p] = rec] /\ NoFault
  \/ UNCHANGED store /\ Fault("save")

(* Mutant: does not look whether the change is tracked already. *)
NewAnyway(p) == TRUE

IsNew(p) == store[p].status = "None"

(* Mutant: a status the model package does not list. *)
FirstStatusMisspelt(p) ==
  IF pulls[p].previousKnown THEN "Waiting" ELSE "Skipped"

FirstStatus(p) ==
  IF pulls[p].previousKnown THEN "WaitingForRollout" ELSE "Skipped"

(* The first sight of a merged recommendation; GetVerification may fail too,
   which leaves the same state as a failed save. *)
RecordChange(p) ==
  /\ ~IsRollback(pulls[p])
  /\ IF IsNew(p)
     THEN SaveVerification(p, [NoRecord EXCEPT !.status = FirstStatus(p)])
     ELSE UNCHANGED store /\ NoFault

(* Mutant: settles only a change whose proposal was written down. *)
SettlesProposed(p) == store[p].status = "RollbackProposed"

Settles(p) == store[p].status \notin {"None", "RolledBack"}

(* A merged rollback settles the change it restored. *)
RecordRollback(p) ==
  /\ IsRollback(pulls[p])
  /\ LET source == pulls[p].rollbackOf IN
     IF Settles(source)
     THEN SaveVerification(source, [store[source] EXCEPT
            !.status = "RolledBack", !.rollbackPR = p, !.measuredAt = NoTime])
     ELSE UNCHANGED store /\ NoFault

Record ==
  /\ pc = "record"
  /\ \E p \in OldestFirst(toRecord) :
       /\ toRecord' = toRecord \ {p}
       /\ RecordChange(p) \/ RecordRollback(p)
  /\ UNCHANGED <<services, halted, pc, runNow, recs, toAdvance, result>>

-----------------------------------------------------------------------------
(* GetVerifications: the newest RecordLimit rows, newest first. *)

Newer(p, q) ==
  \/ pulls[p].mergedAt > pulls[q].mergedAt
  \/ pulls[p].mergedAt = pulls[q].mergedAt /\ p > q

(* Mutant: leaves out the changes whose rollback is settled. *)
StoredUnsettled ==
  {p \in PRs : store[p].status \notin {"None", "RolledBack", "RollbackDeclined"}}

Stored == {p \in PRs : store[p].status # "None"}

Loaded == {p \in Stored :
             Cardinality({q \in Stored : Newer(q, p)}) < RecordLimit}

(* Mutant: keeps the rows of the previous run. *)
RowsCached == recs

Rows == [p \in PRs |-> IF p \in Loaded THEN store[p] ELSE NoRecord]

ReadRecords ==
  /\ pc = "record"
  /\ toRecord = {}
  /\ \/ /\ pc' = "advance"
        /\ toAdvance' = Loaded
        /\ recs' = Rows
        /\ UNCHANGED runNow
        /\ NoFault
     \/ /\ pc' = "idle"     \* Run returns nil: nothing is halted this cycle
        /\ runNow' = NoTime
        /\ Fault("read")
        /\ UNCHANGED <<recs, toAdvance>>
  /\ UNCHANGED <<services, database, toRecord, result>>

NewestFirst(p) ==
  /\ p \in toAdvance
  /\ \A q \in toAdvance \ {p} : Newer(p, q)

(* Every advance takes p off the list, whatever comes of it. *)
Advancing(p, statuses) ==
  /\ pc = "advance"
  /\ NewestFirst(p)
  /\ recs[p].status \in statuses
  /\ toAdvance' = toAdvance \ {p}
  /\ UNCHANGED <<clock, manifest, live, ready, resume, halted, pc, runNow,
                 toRecord, result>>

(* rec is changed in memory whether or not the save succeeds. *)
Save(p, rec) ==
  /\ recs' = [recs EXCEPT ![p] = rec]
  /\ SaveVerification(p, rec)

Keep == UNCHANGED <<store, recs>>

(* The Deployment runs the change's values and has fully rolled them out. *)
InPlace(p) == live[pulls[p].target] = pulls[p].marker /\ ready[pulls[p].target]

(***************************************************************************)
(* compare: "hard" stands for new restarts or OOM kills, which count at    *)
(* any time, "soft" for the averaged signals (throttling, replicas,        *)
(* availability), which count only once the window has passed.             *)
(***************************************************************************)
Health == {"ok", "soft", "hard"}
Regressed(health, final) == health = "hard" \/ (health = "soft" /\ final)

(* Mutant: waits for the rollout however long it takes. *)
NeverTimedOut(p) == FALSE

TimedOut(p) == runNow > pulls[p].mergedAt + RolloutTimeout

AdvanceWaiting(p) ==
  /\ Advancing(p, {"WaitingForRollout"})
  /\ \/ /\ InPlace(p)
        /\ Save(p, [recs[p] EXCEPT !.status = "Verifying",
                                   !.deployedAt = runNow])
     \/ /\ ~InPlace(p) /\ TimedOut(p)
        /\ Save(p, [recs[p] EXCEPT !.status = "NotDeployed"])
     \/ /\ ~InPlace(p) /\ ~TimedOut(p)
        /\ Keep /\ NoFault
  /\ UNCHANGED pulls

Degrade(p) ==
  Save(p, [recs[p] EXCEPT !.status = "Degraded", !.measuredAt = NoTime])

Verify(p) ==
  Save(p, [recs[p] EXCEPT !.status = "Verified", !.measuredAt = runNow])

(* Mutant: the window ends one unit early. *)
FinalEarly(p) == runNow + 1 >= recs[p].deployedAt + Window

(* Mutant: the window is counted from the current run. *)
FinalFromNow(p) == runNow >= runNow + Window

Final(p) == runNow >= recs[p].deployedAt + Window

(* The averaged signals decide only at the end of the window. *)
AdvanceVerifying(p) ==
  /\ Advancing(p, {"Verifying"})
  /\ \E health \in Health :
       \/ Regressed(health, Final(p)) /\ Degrade(p)
       \/ ~Regressed(health, Final(p)) /\ Final(p) /\ Verify(p)
       \/ ~Regressed(health, Final(p)) /\ ~Final(p) /\ Save(p, recs[p])
  /\ UNCHANGED pulls

(* The part of recheckDue that needs no call to the cluster.  The first
   re-check is due one interval after the verdict. *)
RecheckTime(p) ==
  /\ RecheckInterval > 0
  /\ recs[p].deployedAt # NoTime
  /\ runNow <= recs[p].deployedAt + RecheckFor
  /\ runNow >= recs[p].measuredAt + RecheckInterval

AdvanceVerified(p) ==
  /\ Advancing(p, {"Verified"})
  /\ IF RecheckTime(p) /\ InPlace(p)
     THEN \E health \in Health :
            IF Regressed(health, TRUE) THEN Degrade(p) ELSE Verify(p)
     ELSE Keep /\ NoFault
  /\ UNCHANGED pulls

(***************************************************************************)
(* OpenRollback (internal/gitops/generator.go) on the workload's rollback  *)
(* branch, as one action: an open PR with the same change set is kept, one *)
(* with another change set is rewritten, and a new PR is opened only when  *)
(* none is open, this change set was not declined before and the manifest  *)
(* does not hold it already.                                               *)
(***************************************************************************)
Restored(p) == pulls[p].previous
RollbacksOpen(p) == OpenOn(pulls, pulls[p].target, TRUE)

AlreadyProposed(p) ==
  \E q \in RollbacksOpen(p) : pulls[q].marker = Restored(p)

AlreadyDeclined(p) ==
  /\ RollbacksOpen(p) = {}
  /\ Restored(p) \in DeclinedOn(pulls, pulls[p].target, TRUE)

(* Mutant: a rollback nobody wants means the change is fine after all. *)
AnswerVerified(q) == IF q = 0 THEN "Verified" ELSE "RollbackProposed"

(* Mutant: no PR, no answer. *)
AnswerPending(q) == IF q = 0 THEN "Degraded" ELSE "RollbackProposed"

(* Mutant: notes the PR and forgets the status. *)
AnswerForgotten(q) == IF q = 0 THEN "RollbackDeclined" ELSE "Degraded"

(* The number OpenRollback returned, 0 when no PR proposes the rollback. *)
Answer(q) == IF q = 0 THEN "RollbackDeclined" ELSE "RollbackProposed"

Answered(p, q) ==
  Save(p, [recs[p] EXCEPT !.status = Answer(q),
                          !.rollbackPR = IF q = 0 THEN @ ELSE q])

KeepRollback(p) ==
  /\ \E q \in RollbacksOpen(p) :
       pulls[q].marker = Restored(p) /\ Answered(p, q)
  /\ UNCHANGED pulls

NoRollback(p) ==
  /\ ~AlreadyProposed(p)
  /\ \/ AlreadyDeclined(p)
     \/ manifest[pulls[p].target] = Restored(p)
     \/ "manifest" \in Faults
  /\ Answered(p, 0)
  /\ UNCHANGED pulls

(* A branch with a commit to push: the manifest holds another value. *)
Pushes(p) ==
  /\ ~AlreadyProposed(p)
  /\ ~AlreadyDeclined(p)
  /\ manifest[pulls[p].target] # Restored(p)

(* Mutant: a rewritten PR keeps the change it named first. *)
RollbackOnFirst(pull, p) ==
  [pull EXCEPT !.marker = Restored(p), !.head = Restored(p),
               !.base = manifest[pulls[p].target],
               !.rollbackOf = IF @ = 0 THEN p ELSE @]

RollbackOn(pull, p) ==
  [pull EXCEPT !.marker = Restored(p), !.head = Restored(p),
               !.base = manifest[pulls[p].target], !.rollbackOf = p]

(* Push and PATCH of the open PR q. *)
Rewrites(p, q) ==
  /\ Pushes(p)
  /\ q \in RollbacksOpen(p)
  /\ pulls' = [pulls EXCEPT ![q] = RollbackOn(@, p)]

RewriteRollback(p) == \E q \in PRs : Rewrites(p, q) /\ Answered(p, q)

(* The push under the open PR q, without the PATCH of its body. *)
PushesUnder(p, q) ==
  /\ Pushes(p)
  /\ q \in RollbacksOpen(p)
  /\ pulls' = [pulls EXCEPT ![q].head = Restored(p),
                            ![q].base = manifest[pulls[p].target]]

(* Mutant: does not look for a PR already open on the branch. *)
BranchAlwaysFree(p) == TRUE

BranchFree(p) == RollbacksOpen(p) = {}

(* Push and POST, which GitHub answers with the number q. *)
Creates(p, q) ==
  /\ Pushes(p)
  /\ BranchFree(p)
  /\ IsNextNumber(pulls, q)
  /\ pulls' = [pulls EXCEPT ![q] = RollbackOn(
                [NeverOpened EXCEPT !.state = "open",
                                    !.target = pulls[p].target], p)]

CreateRollback(p) == \E q \in PRs : Creates(p, q) /\ Answered(p, q)

(* GitHub did some or all of it and the agent does not come to know. *)
CutOff(p) ==
  \E q \in PRs : Rewrites(p, q) \/ PushesUnder(p, q) \/ Creates(p, q)

(* The PATCH failed, or the answer to it or to the POST came too late. *)
AnswerLost(p) == CutOff(p) /\ Keep /\ Fault("call")

(* Mutant: a declined rollback is proposed again. *)
DueAgain == {"Degraded", "RollbackDeclined"}

RollbackDue == {"Degraded"}

AdvanceDegraded(p) ==
  /\ Advancing(p, RollbackDue)
  /\ \/ KeepRollback(p)
     \/ NoRollback(p)
     \/ RewriteRollback(p)
     \/ CreateRollback(p)
     \/ AnswerLost(p)

AdvanceTerminal(p) ==
  /\ Advancing(p, Terminal)
  /\ Keep /\ NoFault
  /\ UNCHANGED pulls

(* A read of the cluster, of the metrics or of GitHub failed: no change. *)
CallFails(p) ==
  /\ Advancing(p, {"WaitingForRollout", "Verifying", "Verified", "Degraded"})
  /\ recs[p].status = "Verified" => RecheckTime(p)
  /\ Keep /\ Fault("call")
  /\ UNCHANGED pulls

Advance ==
  \E p \in PRs :
    \/ AdvanceWaiting(p)
    \/ AdvanceVerifying(p)
    \/ AdvanceVerified(p)
    \/ AdvanceDegraded(p)
    \/ AdvanceTerminal(p)
    \/ CallFails(p)

-----------------------------------------------------------------------------
(* halts: the failed changes merged after the workload's resume time. *)

(* Mutant: counts every tracked change, failed or not. *)
CountsTracked(p) == recs[p].status # "None"

Counts(p) == Failed(recs[p].status)

FailedAfter(t, time) ==
  {p \in PRs : /\ Counts(p)
               /\ pulls[p].target = t
               /\ pulls[p].mergedAt > time}

(* Mutant: halts after one failure too many. *)
TooLate(failures) == Cardinality(failures) > MaxRollbacks

TooMany(failures) == Cardinality(failures) >= MaxRollbacks

HaltedAfter(resumeAfter) ==
  [t \in Targets |->
     LET failures == FailedAfter(t, resumeAfter[t]) IN
     IF TooMany(failures) THEN failures ELSE {}]

(* An unreadable annotation counts as unset; a failed save is only logged. *)
Halts ==
  /\ pc = "advance"
  /\ toAdvance = {}
  /\ pc' = "idle"
  /\ \/ /\ result' = HaltedAfter(resume)
        /\ \/ halted' = result' /\ NoFault
           \/ UNCHANGED halted /\ Fault("save")
     \/ /\ \E t \in Targets :
             result' = HaltedAfter([resume EXCEPT ![t] = NoTime])
        /\ halted' = result'
        /\ Fault("call")
  /\ recs' = NoRecords
  /\ runNow' = NoTime
  /\ UNCHANGED <<services, store, toRecord, toAdvance>>

(* The process dies and is started again: the database is what is left. *)
Dies ==
  /\ Fault("crash")
  /\ pc' = "idle"
  /\ toRecord' = {}
  /\ recs' = NoRecords
  /\ toAdvance' = {}
  /\ result' = NothingHalted
  /\ runNow' = NoTime
  /\ UNCHANGED <<clock, manifest, live, ready, resume, database>>

CrashBetween == pc # "idle" /\ Dies /\ UNCHANGED pulls

(* It dies after GitHub has acted and before the row is saved. *)
CrashMidway ==
  /\ pc = "advance"
  /\ \E p \in PRs :
       NewestFirst(p) /\ recs[p].status \in RollbackDue /\ CutOff(p)
  /\ Dies

Crash == CrashBetween \/ CrashMidway

-----------------------------------------------------------------------------
(* The world around the agent. *)

Around == UNCHANGED <<database, memory, faults>>

Tick ==
  /\ clock < MaxTime
  /\ clock' = clock + 1
  /\ UNCHANGED <<pulls, manifest, live, ready, resume>> /\ Around

RecommendationsMerged ==
  {p \in PRs : pulls[p].state # "none" /\ ~IsRollback(pulls[p])}

(* A human merges a recommendation PR, which the agent opened in an earlier
   cycle on top of the value the base branch still holds. *)
MergeChange(t) ==
  /\ Cardinality(RecommendationsMerged) < MaxChanges
  /\ \E p \in PRs, v \in Values \ {manifest[t]}, known \in BOOLEAN :
       /\ IsNextNumber(pulls, p)
       /\ pulls' = [pulls EXCEPT ![p] =
            [state |-> "merged", target |-> t, head |-> v, base |-> manifest[t],
             marker |-> v, previous |-> manifest[t], previousKnown |-> known,
             rollbackOf |-> 0, mergedAt |-> clock]]
       /\ manifest' = [manifest EXCEPT ![t] = v]
  /\ UNCHANGED <<clock, live, ready, resume>> /\ Around

(* A rollback merges cleanly only onto the value its branch was cut from. *)
MergeRollback(q) ==
  /\ pulls[q].state = "open"
  /\ manifest[pulls[q].target] = pulls[q].base
  /\ pulls' = [pulls EXCEPT ![q].state = "merged", ![q].mergedAt = clock]
  /\ manifest' = [manifest EXCEPT ![pulls[q].target] = pulls[q].head]
  /\ UNCHANGED <<clock, live, ready, resume>> /\ Around

DeclineRollback(q) ==
  /\ pulls[q].state = "open"
  /\ pulls' = [pulls EXCEPT ![q].state = "declined"]
  /\ UNCHANGED <<clock, manifest, live, ready, resume>> /\ Around

(* ArgoCD applies the base branch. *)
Sync(t) ==
  /\ live[t] # manifest[t]
  /\ live' = [live EXCEPT ![t] = manifest[t]]
  /\ ready' = [ready EXCEPT ![t] = FALSE]
  /\ UNCHANGED <<clock, pulls, manifest, resume>> /\ Around

(* The rollout completes, or a pod becomes unavailable again. *)
Readiness(t) ==
  /\ ready' = [ready EXCEPT ![t] = ~@]
  /\ UNCHANGED <<clock, pulls, manifest, live, resume>> /\ Around

(* A human lifts a halt: failures merged up to now no longer count. *)
SetResume(t) ==
  /\ halted[t] # {}
  /\ resume' = [resume EXCEPT ![t] = clock]
  /\ UNCHANGED <<clock, pulls, manifest, live, ready>> /\ Around

Environment ==
  \/ Tick
  \/ \E t \in Targets : MergeChange(t) \/ Sync(t) \/ Readiness(t) \/ SetResume(t)
  \/ \E q \in PRs : MergeRollback(q) \/ DeclineRollback(q)

Run == StartRun \/ ListMerged \/ Record \/ ReadRecords \/ Advance \/ Halts

Next == Run \/ Crash \/ Environment

Spec == Init /\ [][Next]_vars

(***************************************************************************)
(* main runs one cycle after the other for as long as the process lives,   *)
(* and is started again after a crash, so a run always goes on; time       *)
(* passes.  Nobody is obliged to merge, decline, sync or roll out.         *)
(***************************************************************************)
FairSpec == Spec /\ WF_vars(Run) /\ WF_vars(Tick)

-----------------------------------------------------------------------------
(* Properties. *)

Rollbacks == {q \in PRs : pulls[q].state # "none" /\ IsRollback(pulls[q])}

(* A rollback PR exists only for a change whose stored verification has
   failed, and that failure is never lost: not by a crash or a failed write
   between opening the PR and saving the status, not by a later run. *)
RollbackFollowsFailure ==
  \A q \in Rollbacks : Failed(store[pulls[q].rollbackOf].status)

Recommended(p) ==
  pulls[p].state = "merged" /\ ~IsRollback(pulls[p]) /\ pulls[p].previousKnown

(* What a rollback PR says and what it does. Its body names a merged
   recommendation of the same workload and the value that one replaced. Its
   branch, which is what a merge applies, restores what some failed
   recommendation of the workload replaced: the one the body names as long as
   no call has failed and the process has not died, maybe another one once a
   push went through and the PATCH after it did not. *)
RollbackRestoresPrevious ==
  \A q \in Rollbacks :
    LET source == pulls[q].rollbackOf IN
    /\ Recommended(source)
    /\ pulls[q].target = pulls[source].target
    /\ pulls[q].marker = Restored(source)
    /\ \E p \in PRs :
         /\ Recommended(p) /\ pulls[p].target = pulls[q].target
         /\ Failed(store[p].status)
         /\ pulls[q].head = Restored(p)
    /\ faults = 0 => pulls[q].head = pulls[q].marker

(* A workload has at most one open rollback PR: a retry after a crash or a
   failed save, and a second failed change, find the one opened before. *)
OneOpenRollback ==
  \A q, r \in Rollbacks :
    /\ pulls[q].state = "open" /\ pulls[r].state = "open"
    /\ pulls[q].target = pulls[r].target
    => q = r

(* What a run still has to advance is what the database holds: nobody else
   writes the table between the read and the step that uses the row. *)
MemoryIsCurrent ==
  pc = "advance" => \A p \in toAdvance : recs[p] = store[p]

(* Only merged recommendations are tracked, and one whose previous values are
   unknown is skipped for good: there is nothing to restore. *)
TrackedAreMerged ==
  \A p \in PRs : store[p].status # "None" =>
    /\ pulls[p].state = "merged"
    /\ ~IsRollback(pulls[p])
    /\ store[p].status # "Skipped" => pulls[p].previousKnown

ListedAreMerged == \A p \in toRecord : pulls[p].state = "merged"

(* The inductive invariant behind the rollback properties. *)
RollbackInv ==
  /\ TypeOK
  /\ ListedAreMerged
  /\ MemoryIsCurrent
  /\ TrackedAreMerged
  /\ RollbackFollowsFailure
  /\ RollbackRestoresPrevious
  /\ OneOpenRollback

(* Once a stored verification counts towards halting its workload, no step
   (a re-check, a late measurement, a restart) makes it stop counting. *)
FailureIsPermanent ==
  [][\A p \in PRs : Failed(store[p].status) => Failed(store'[p].status)]_vars

(* Verdicts wait for the time they stand for, measured by the wall clock:
   "Verified" for the window, "NotDeployed" for the rollout timeout, and a
   verified change is measured again, with either outcome, an interval after
   it was last measured at the earliest. *)
VerdictsTakeTheirTime ==
  [][\A p \in PRs :
       /\ store[p].status = "Verifying" /\ store'[p].status = "Verified"
          => clock >= store[p].deployedAt + Window
       /\ store[p].status # "NotDeployed" /\ store'[p].status = "NotDeployed"
          => clock > pulls[p].mergedAt + RolloutTimeout
       /\ /\ store[p].status = "Verified" /\ store'[p] # store[p]
          /\ store'[p].status # "RolledBack"
          => /\ RecheckInterval > 0
             /\ clock >= store[p].measuredAt + RecheckInterval]_vars

(* The failures of t the database knows and no annotation discounts. *)
StoredFailures(t) ==
  {p \in PRs : /\ Failed(store[p].status)
               /\ pulls[p].target = t
               /\ pulls[p].mergedAt > resume[t]}

(* A run that could read the verifications tells the cycle of every workload
   with MaxRollbacks stored failures since its resume annotation, whatever
   failed before. (One that could not tells it of none: see Cycle.tla.) *)
HaltsReachTheCycle ==
  [][Halts => \A t \in Targets :
       Cardinality(StoredFailures(t)) >= MaxRollbacks => result'[t] # {}]_vars

(* A persisted halt names only failures the database knows, enough of them. *)
HaltsRestOnFailures ==
  \A t \in Targets : halted[t] # {} =>
    /\ Cardinality(halted[t]) >= MaxRollbacks
    /\ \A p \in halted[t] : pulls[p].target = t /\ Failed(store[p].status)

(* Only a human's annotation lifts a halt. *)
HaltsLiftOnlyByResume ==
  [][\A t \in Targets : halted[t] # {} /\ halted'[t] = {}
       => Cardinality(StoredFailures(t)) < MaxRollbacks /\ resume[t] # NoTime]_vars

(* A change is rolled back once, and again only if something failed: a second
   rollback would overwrite whatever came after the first. A save or a call
   that fails, or the process dying, may leave the verifier not knowing of a
   rollback it opened, and when that one is merged and something newer on top
   of it, it opens another. It takes a failure for each. *)
RolledBackAgainByFailuresOnly ==
  \A p \in PRs :
    Cardinality({q \in Rollbacks :
                   pulls[q].state = "merged" /\ pulls[q].rollbackOf = p})
      <= 1 + faults

(* A rollback PR overwrites the change it is about and nothing newer: its
   branch was cut from the value that change set. *)
OverwritesItsOwnChange ==
  \A q \in Rollbacks :
    pulls[q].state = "open" => pulls[q].base = pulls[pulls[q].rollbackOf].marker

(* What Lifecycle.tla speaks of, read off the database and GitHub. *)
StatusOf == [p \in PRs |-> store[p].status]
ProposedOf == {pulls[q].rollbackOf : q \in Rollbacks}
UndoneOf ==
  {pulls[q].rollbackOf : q \in {r \in Rollbacks : pulls[r].state = "merged"}}

Promise == INSTANCE Lifecycle WITH
  Changes <- PRs, status <- StatusOf, proposed <- ProposedOf, undone <- UndoneOf

(* Verifier implements the lifecycle it promises: statuses follow one another
   as Lifecycle.tla allows, a rollback is proposed only for a degraded change
   and a change is "RolledBack" only after its rollback was merged. *)
ImplementsLifecycle == Promise!Spec

-----------------------------------------------------------------------------
(* Liveness, under FairSpec.  The clock stops at MaxTime, so each deadline is
   required only of changes early enough to meet it. *)

(* Every merged recommendation is tracked and leaves the waiting status, by
   rolling out or by the timeout, although calls fail and the agent dies. *)
MergedIsJudged ==
  \A p \in PRs :
    (/\ pulls[p].state = "merged" /\ ~IsRollback(pulls[p])
     /\ pulls[p].mergedAt + RolloutTimeout < MaxTime)
    ~> (store[p].status \notin {"None", "WaitingForRollout"})

(* A window that was opened is closed by a verdict. *)
VerifyingEnds ==
  \A p \in PRs :
    (/\ store[p].status = "Verifying"
     /\ store[p].deployedAt + Window <= MaxTime)
    ~> (store[p].status # "Verifying")

(* A degraded change does not wait forever for its rollback to be proposed,
   found declined or found unnecessary. *)
DegradedIsAnswered ==
  \A p \in PRs : (store[p].status = "Degraded") ~> (store[p].status # "Degraded")

(* A merged rollback settles its change, also when the agent crashed or failed
   to save before it had written down that it proposed the rollback. *)
MergedRollbackIsRecorded ==
  \A p, q \in PRs :
    (pulls[q].state = "merged" /\ pulls[q].rollbackOf = p)
    ~> (store[p].status = "RolledBack")
=============================================================================
