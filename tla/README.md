# Verification of the Watchdog agent

TLA+ specifications of the Watchdog agent, TLC configurations that check them
on small instances, and TLAPS proofs of what matters most for every instance.
`PROJECT.json` maps each definition to the lines it stands for and lists the
runs, mutants, findings, hazards and theorems.

    tlc -workers 2 -config VerifierTwoChanges.cfg VerifierMC.tla    # one run
    tlapm VerifierProofs.tla                                        # the proofs

## The system

The agent watches a Kubernetes cluster and proposes cheaper resource settings
as pull requests on an infra repository. A human merges, ArgoCD applies, the
agent watches the result and proposes a rollback when it got worse. One process
runs one reconciliation cycle after the other; an HTTP server reads the same
SQLite database.

    Kubernetes, Prometheus, OpenCost --> runCycle --> snapshot store --> read API
                                            |
       GitHub <-- verifier.Run (merged changes, rollback PRs) --> verifications,
          ^                 | halted workloads                    halted_workloads
          |                 v
          +-- generator <-- policy <-- AI service
          |
       human merges --> base branch --> ArgoCD --> cluster --> (watched again)

| component | state | operations | made correct by |
|---|---|---|---|
| verifier (`internal/verify`) | one status per merged PR; halted workloads | `Run`: record, advance, compare, halts | statuses follow the lifecycle; verdicts take their time; a failure is never lost; a rollback restores what it says and overwrites nothing newer; halts rest on failures, reach the cycle and are lifted by humans only; nothing waits for ever |
| verification tables (`internal/storage/verifications.go`) | two SQLite tables | save, read newest N, replace halts | a row survives crashes; what a run works on is what is stored |
| generator (`internal/gitops/generator.go`) | branches and PRs on GitHub | `Apply`, `OpenRollback` | one open PR per branch; a no stays a no; cooldown kept; body and branch agree |
| PR reading (`github.go`, `merged.go`) | none | `branchPRs`, `MergedChanges` | a merged PR is found and read as what was merged |
| change sets, patching (`changes.go`, `manifest.go`) | none | diff, merge, format, patch | only real changes; nothing else in the file changes; previous values restore it; what is there already is not proposed |
| authentication (`auth.go`) | cached token | `Token` | no expired token is handed out; one refresh at a time |
| cycle (`cmd/agent/main.go`) | per-cycle values | `runCycle`, the loop, shutdown | a halted workload gets no proposal; only approved recommendations become PRs |
| snapshot store (`sqlite.go`) | snapshots, recommendations | save, read, migrate | atomic saves; "latest" is the latest analysed |
| policy (`validator.go`) | none | local rules, OPA, Kyverno, composite | a rejection by one is final; missing data rejects |
| read API (`api/server.go`) | none | reads | an answer is consistent |
| AI service (`ai-service`) | none | analyse, forecast | with policy and cluster in the loop: no throttling caused, the loop comes to rest |
| telemetry (`internal/telemetry`) | none | `HealthSignals`, usage queries | the windows measured are those the verdict is about; no data does not look like a number that decides |
| config, k8s, finops, reasoning clients | none | I/O | - |

What is hard here: every step of a run is a call that may fail, be answered too
late or be cut off by a crash, after some of its effect; humans act between any
two calls; the two services (the database and GitHub) are updated one after the
other without a transaction; time is sampled once and used later; several
changes of one workload share one rollback branch. `PROJECT.json` lists these
hazards at the lines where they bite.

## The modules

| module | what it is |
|---|---|
| `Pulls` | the table of pull requests and what `github.go` and `merged.go` read from it; operators only, used by the two components |
| `Verifier` | the verifier with its tables, GitHub, the cluster, ArgoCD, humans, the clock, failures and crashes |
| `Lifecycle` | what verification promises: the statuses and their order, tied to the rollback PRs |
| `VerifierMC` | `Verifier` for TLC |
| `VerifierProofs` | proofs about `Verifier`, and that it implements `Lifecycle` |
| `VerifierHaltsProofs` | more proofs about `Verifier`: timing, halts, how often a change is rolled back |
| `Signals` | what a verdict rests on: stored signals, the queries, the windows and `compare`, for one change |
| `SignalsMC`, `SignalsProofs` | the same for `Signals` |
| `Generator` | `applyWorkload` call by call, with GitHub, humans, the clock and failures |
| `GeneratorMC`, `GeneratorProofs` | the same for `Generator` |
| `Manifest` | `patchWorkload` on the lines of a YAML file: find, edit, insert, read back |
| `ManifestMC`, `ManifestProofs` | the same for `Manifest` |
| `ManifestReadingProofs` | more proofs about `Manifest`: what a patched file reads as |
| `Rightsizing` | the loop one workload goes through: reasoner, policies, `plan`, `patchWorkload`, merge, GitOps, with the arithmetic |
| `Cycle` | the process: `main`'s loop, `runCycle` step by step, the store, the overview of the read API, signals and crashes |
| `RightsizingMC`, `RightsizingProofs`, `CycleMC`, `CycleProofs` | the same for these two |

`Cycle` treats a run of the verifier and an operation of the generator as one
step and an approval as a free choice; `Verifier`, `Generator` and
`Rightsizing` are what happens inside those. Likewise `Signals` is what happens
inside the comparison of `Verifier`, and `Manifest` what happens inside `Patch` of
`Generator`.

### Verifier

`Run` is not one step. `StartRun` samples the time, `ListMerged` reads GitHub,
`Record` is one merged PR (oldest first), `ReadRecords` is `GetVerifications`,
`Advance` is one row (newest first), `Halts` ends the run. Between any two of
them the environment moves: `Tick`, `MergeChange`, `MergeRollback`,
`DeclineRollback`, `Sync` (ArgoCD), `Readiness`, `SetResume`; and `Crash` drops
everything but the database and the outside world. Every call may fail: a
`Fault` of kind `list`, `read`, `save` or `call`. `recs` are the rows in
memory, which the code changes before it saves them, so a failed save leaves
memory ahead of the database, and `Halts` counts what memory says.

`OpenRollback` is one action here and several in `Generator`, but it need not come
to its end: `CutOff` is what GitHub has done by then (pushed the branch under an
open PR, rewritten that PR, or created one), after which either a call fails, be it
the PATCH or only the answer to it or to the POST (`AnswerLost`), or the process
dies (`CrashMidway`). Either way the row is not saved. `CrashBetween` is a crash at
any other point of a run.

`compare` is abstracted to what it tells the rest of the code: new restarts or
OOM kills count at any time (`hard`), averaged signals only when the window has
passed (`soft`); how it gets there is `Signals`. Target, merge time, changes and previous values of a row are
copies of the PR and are read from it; this assumes that a merged PR's body is
not rewritten, which `GeneratorLateRewrite` shows the generator itself can do.
A change set is one value of one field: the model does not tell apart two
changes of one workload that touch different fields.

### Signals

One merged change, in minutes. `scrapes` is the history Prometheus has stored,
one record a minute: restarts, containers killed for memory, throttled and all
CPU periods, available and desired replicas; a series may lack a sample.
`Measure` is `HealthSignals` over the minutes `promRange` makes of two times.
Signals are exact quotients, 0/0 is NaN and n/0 infinite, as in Prometheus, and no
data reads as 0, as in `client.go`; `increase` counts what happened in the range,
without Prometheus's extrapolation to its ends. `Minute` appends a minute, `Deploy` rolls
the change out or puts something else in its place, and `AdvanceWaiting`,
`AdvanceVerifying`, `AdvanceVerified` are the three cases of `advance` with the
ranges they ask for: the baseline before the merge, the part of the window that
has passed, the last minutes for a re-check. `SaveVerification` is refused what
JSON cannot hold. A call or a save that fails leaves the row as it is, which is a
stuttering step.

### Generator

An operation is one plan: a change set for a recommendation or a rollback.
`Lookup` is `branchPRs` with the three early returns, `Patch` reads the base
branch (path check, clone, patch), `Push` force-pushes, `Publish` creates the PR
or rewrites the body of the one found. A failure may come before any of them
(`early`, `publish`), or take its effect and lose the answer (`answer`), which is
what the deadline does. A PR's `head` and `base` are the branch, its `marker`
and `previous` the body: the two are written by different calls and can differ.
GitHub's own refusal of a second open PR for a branch is left out, so
`OneOpenPerBranch` rests on the agent alone. A merge is clean only onto the value
the branch was cut from.

### Manifest

A file is a sequence of lines: blanks, comments, separators, text and entries (a
key with nothing, a plain or quoted scalar, the head of a block scalar or a flow
collection behind it). `Tree` and `Reading` are what a YAML decoder makes of
them. `LocateDeployment`, `SetField`, `InsertionLine`, `InsertKeys`, `VerifyPatch`
follow `manifest.go`; `PreviousValues` is `previousValues`. A step proposes one
change set and merges it, or merges the rollback of the last change.

All files of the workload's folder are one file, kind and name of a document are
one entry `object`, the list of containers is a mapping by name right under
`spec`. CRLF, anchors, and block scalars that keep or strip their last newline
are left out. A scalar is one value whatever it is a field of: for `replicas` the code
parses the old one as a number (`generator.go:483`) and offers no rollback where that
fails, and writes it back in decimal, which is taken to be how it stood there. `ManifestMC` takes only well-formed files and
none that is not `Unparted` (`WrittenByHand`), that is none in which a block scalar has a blank inside and behind it a comment or an
entry: when a key is inserted after such a scalar, `goesOn` stops at the blank, the
key lands inside the scalar and what follows is cut off from it. If that is text,
the result is no YAML and `VerifyPatch` refuses it; a comment or a line that looks
like an entry drops out of the script unnoticed, because only the edited fields
are read back. `NothingElseChanges` does not hold for those files.

### Rightsizing

`Analyze` is a cycle as one workload sees it. `CPURecs` and `ReplicaRecs` are
`reason_node`, `Confident` is `confidence_node`, `Approved` the composite of
the three validators, `Diff`, `MergeInto` and `Plan` turn what they approve into
a change set, `Patched` is what `patchWorkload` makes of a manifest (it leaves
pods with several containers and the replicas of autoscaled Deployments alone).
Around it humans merge, close and edit, GitOps syncs, autoscalers and demand
move. Requests are millicores, the finest the code writes; ratios are multiplied
out; where `round` meets a half, both results are allowed, since the code rounds
a binary fraction. The policy's limits are constants; the step-down and confidence limits, fractions in
the configuration, are whole percentages here. The forecast (a peak, whether the trend rises,
certainty and telemetry quality) is an input. Memory is modelled only where it
decides about CPU: a recommendation for the CPU repeats the memory request, and
`diffStates` refuses it when that is zero, so a workload without a memory
request never has its CPU changed.

Left out: declines and cooldowns, and everything that can fail on the way to a
PR (`Generator`).

### Cycle

`pc` is where `runCycle` is: `collect`, `save`, `verify`, `analyze`, `record`,
`apply`, then `idle` until the ticker or a signal. A call `Works` or `Fails`; it
always fails once a signal has cancelled the context. A failed save of the
recommendations does not end the cycle (`Record`), and neither does a failure in
`Verify`: after a failed read the verifier's run returns no halts and leaves the table
as it is, after a failed write it returns halts that the table does not hold. Every
other failure ends the cycle. `halts` is the table, `halted` what this cycle goes by.
What `runCycle` keeps in local variables is forgotten at the end of a cycle and
in a crash. `proposal` is, for each workload, the cycle that last wrote its open
PR. A request to the overview makes two queries with anything in between. An id
stands for its snapshot's time as well, which takes the wall clock not to step
back.

## The runs

All bounds are constants in the `.cfg` files: `MaxTime` stops the clock,
`MaxPRs` the PR numbers, `MaxChanges` the merged recommendations, `MaxFaults`
the failures.

| run | shows | bounds |
|---|---|---|
| `VerifierOneChange` | types, the lifecycle as a refinement, permanence of failures, memory = database, timing of verdicts and of re-checks | 1 change, 2 rollback PRs, re-checks on, two failures of any kind: enough to lose both the save of a verdict and the save of its retry |
| `VerifierTwoChanges` | the shared rollback branch: one open PR, whose branch restores what its body names as long as nothing failed, and what a failed change of the workload replaced in any case; a second rollback of a change takes a failure; halts: rest on stored failures, reach the cycle, lifted only by the annotation | 2 changes, `MaxRollbacks` 2 (the default), one failed listing, read or call, its answer lost included, or one crash, also between GitHub and the save |
| `VerifierLiveness` | every change is judged, every degraded one answered, every merged rollback recorded | 1 change, one failure of any kind, fair runs and clock |
| `GeneratorSafety` | types; what is opened was allowed at that moment; body = branch as long as nothing fails after the push | 3 PRs, two change sets and the unset field, cooldown 1 of 2 time units, one failure before the push |
| `GeneratorLiveness` | an approved change is proposed in the end | 3 PRs, one change set, two failures |
| `Rightsizing` | floors kept, no throttling caused, step-downs capped, the loop comes to rest | all kinds of workload, requests of 0, 110 and 400 millicores, 0, 3 and 5 replicas (below, at and above both floors), three demands (idle, between, throttling), confidence below and above the limit, two events by humans, demand or an autoscaler |
| `Signals` | a workload that goes on as before is never found degraded, one that is worse in every minute never verified, averages are judged on whole windows | every history of seven kinds of minutes (calm, crashing, throttled, scaled out, unavailable, no CPU periods, not scraped) up to minute 5, a window of 2, re-checks due each minute: a rollout found at once, late or too late, a window looked at in its middle, at its end and after it |
| `Manifest` | nothing but the fields changes, previous values restore the file line by line, what was merged is not proposed again | 70 layouts of a file (resources missing, empty, partial, complete or in flow style; scripts, comments and scalars over several lines behind them; other documents before and after, an autoscaler among them) under four change sets, patched and rolled back until nothing changes |
| `Cycle` | PRs agree with the record, halts respected (those this cycle found, and the stored ones until something fails), fresh answers, a signal ends the agent | one workload, two snapshots (an unfinished one after a finished one), two failures or crashes |

`OneOpenPerBranch`, `OpensNothingDeclined` and `CooldownKept` hold under every kind of
failure, as their proofs show; they share a run with the properties that need the
push and the publication to succeed together. `GeneratorLiveness` fires the other kinds.

`CausesNoThrottling` and `StepDownCapped` are about a cluster in sync with the
manifest: a recommendation is computed from what runs and patched onto what is
on the base branch, and when a human has lowered the request there in the meantime, the PR
sets another step than the one that was approved. `FloorsKept` holds in any case.

One workload is enough for all of them: branches, rows and halts are kept per
workload, and two share only the order in which a run visits them. The runs of
two changes need a third value only where it matters which of two older values
a rollback restores.

Each property has a mutant in `PROJECT.json`: a plausible bug, written next to
the definition it replaces, under which TLC finds the property violated.

### Fairness

`FairSpec` of the verifier asks that a run that can go on goes on and that time
passes: `main` runs cycle after cycle, and a process that died is started
again. Nobody is obliged to merge, decline, sync or roll out. The generator's
asks the same of its steps, which a deadline ends, and, for
`ApprovedIsProposed` only, that the change is asked for again and again: the AI
service repeats a recommendation as long as it stands. Because the clock stops
at `MaxTime`, a deadline is demanded only where it ends before that.

`FairSpec` of `Cycle` asks that a cycle goes on (every call in it has a timeout)
and, strongly, that the loop exits when it may again and again: Go's `select`
picks among the ready cases with equal probability. Nothing asks the ticker to
fire, a signal to come or a dead process to be restarted.

`FairSpec` of `Rightsizing` asks for cycles, merges of what still applies and
syncs. Humans owe nobody a merge; the assumption serves `LoopSettles`
only, which asks what the loop does when its proposals are taken.

`FairSpec` of `Signals` asks that a cycle that can change the row does so in the
end and that time passes. Without the minutes in which no CPU period was counted
`JudgedInTheEnd` holds under it: what `SignalsUnsaved` shows is not a matter of
fairness.

### Findings

Runs that are expected to fail; each quotes what the repository says otherwise.

| run | what happens |
|---|---|
| `VerifierSuperseded` | two changes are merged, the older degrades in its window; its rollback is cut from the newer value and overwrites it. Only the re-check asks whether the change is still in place |
| `GeneratorLateRewrite` | a PR merged between lookup and PATCH is rewritten after the merge: it records a change that never was merged |
| `SignalsUnsaved` | `compare` passes over a signal that is NaN, but the row that holds it cannot be written as JSON: a change with such a window or baseline is measured in each cycle and never judged, whatever its other signals say |

### Other behaviour worth knowing

The models show it, no run is about it. Each item names what to change to see it.

* With failing saves, `Halts` counts a "Degraded" that was never stored:
  `HaltsRestOnFailures` and `HaltsLiftOnlyByResume` take it that the database
  accepts writes (add `save` to `VerifierTwoChanges`). `save` is left out of that run
  for these two alone; `VerifierOneChange` has it, and the theorems about the other
  four properties hold with it, but for `CyclesKnowTheHalts`.
* A change can be rolled back twice. If the agent never learns of a rollback PR it
  opened (the POST's answer is lost, the process dies before the row is saved, or the
  save fails), and that PR is merged and something newer on top of it before a run
  that lists the merge, the change is still "Degraded", and another rollback
  overwrites what is newer. It takes one failure
  (`RolledBackAgainByFailuresOnly` with 1 in place of `1 + faults` fails in
  `VerifierTwoChanges`, with `call` alone and with `crash` alone).
* An open rollback PR may do something else than it says. When an open PR is
  rewritten for another change and the PATCH fails after the push, the body still
  says "Post-deployment verification of #n found a regression, so this restores the
  values it changed" (`generator.go:398`) of the one change while the branch restores
  what the other replaced, until a later run rewrites it; a merge in between applies
  the branch (drop `faults = 0 =>` from `RollbackRestoresPrevious`).
* When the verifications cannot be read, `Run` returns nil, which the cycle takes
  for "nothing is halted": a workload that the table holds as halted, and the read
  API shows as such, gets a proposal. `main.go:203` says "Verify merged changes
  first, so a workload halted this cycle gets no new proposal", `verifier.go:100`
  that `Run` "returns the workloads that are halted" (drop `faults = 0` from
  `HaltedGetsNoProposal`). A failed `SetHaltedWorkloads` lets the two differ as well:
  a table that was not updated keeps a halt the cycle no longer has, or lacks one.
* A run reads the newest 500 rows only; an open row older than those is never
  advanced, and its failure does not count (`RecordLimit` below the number of PRs).
* If the PATCH fails after the push, branch and body disagree, and when the first
  change set is asked for again its old body is taken for what the branch holds
  (add `publish` to `GeneratorSafety`: `BodiesTellTheBranch` and `AnswerProposes` fail).
* 30 percent less is rounded to a millicore; rounded down it is more than 30
  percent, and the tolerance of the policy is far below that. A workload at 400m
  goes to 280m and 196m and stays there: 137m is rejected again and again.
* A window in which Prometheus missed a series is judged as if it were 0: without
  a sample of the replicas the workload counts as unavailable
  (`OnlyWorseIsDegraded` excuses it).
* The layout of a manifest that `ManifestMC` leaves out, see above.
* A merged rollback starts no cooldown for recommendations, since `lastMerged` is
  that of the recommendation branch. A rollback declined for one change counts as
  declined for a later change that restores the same value. An open PR may be
  rewritten to a change set that was declined earlier; a test says it should.
* A status "RollbackProposed" outlives a human closing the PR, and an open
  proposal stays open when its workload is halted.
* A workload whose Deployment cannot be read waits without a timeout.
* The minimum CPU request is demanded of every proposal, so a throttled workload
  far below it is not scaled up, and its replicas are not reduced.

## The proofs

`VerifierProofs` (for all workloads, values, PR numbers, windows, timeouts,
limits and kinds and numbers of failures, from `PullsAssumption` and
`VerifierAssumption`):

* `TypeCorrect`.
* `RollbacksFollowFailures`, `RollbacksRestorePrevious`,
  `AtMostOneOpenRollback` from the inductive invariant `RollbackInv`. None of
  the three is inductive: that a body names a change and the value it replaced, and
  that the branch restores what some failed change replaced (the same one, until
  something fails), needs that
  only merged recommendations with known previous values are tracked
  (`TrackedAreMerged`, which in turn needs `ListedAreMerged` for the PRs read
  and not yet recorded); that the failure behind a rollback stays stored
  needs that the row in memory is the row in the database when it is advanced
  (`MemoryIsCurrent`), or a stale row could overwrite a failure with an older
  status.
* `FailuresArePermanent`, an action property from the same invariant.
* `VerifierImplementsLifecycle`: initial states map to initial states and every
  step to a step or a stutter of `Lifecycle`, under the mapping `StatusOf`,
  `ProposedOf`, `UndoneOf`.

`VerifierHaltsProofs` (from the same assumptions and `RollbackInv`):

* `VerdictsAreInTime`, for verdicts, given up rollouts and re-checks: the time a run sampled is never ahead of the clock
  (`RunIsPast`) and every merge has a time (`MergesAreTimed`), so a
  deadline that has passed by the run's time has passed by the clock.
* `RunsWorkOnTheTable`, a conjunct of `RollbackInv`.
* `HaltsRestOnStoredFailures`, if no save fails: then the rows in memory are those
  of the table also after they were advanced (`RowsAreStored`), so what `Halts`
  counts is stored.
* `CyclesKnowTheHalts`, if no save fails and `MaxPRs <= RecordLimit`: a run that gets
  to `Halts` has read all rows (`AllLoaded`) and still has them in memory
  (`AllAreRead`), so none of the failures in the table is missed. A run whose read
  fails does not get there; `Cycle` has what follows from that.
* `OnlyHumansLiftHalts`, if no save fails and `MaxPRs <= RecordLimit`: a failure in
  the table stays one, so the count behind a halt falls only by the annotation.
* `RollbacksTakeFailures`, for all kinds of failures. The property counts merged
  rollbacks; the invariant behind it, `NamedByFailures`, counts all rollback PRs that
  name a change: no more than there were failures, and one more once the row says it is
  answered. Only a "Degraded" row makes a PR name a change, and a step that does so
  saves the answer or fails (`OneNewName`); an answer is never taken back
  (`AnswersStayStep`).

A failing save is what `VerifierTwoChanges` leaves out as well, and what happens
then is listed above.

`SignalsProofs` (for all windows, intervals, policies, containers, kinds of minutes
and histories, from `SignalsAssumption`):

* `AveragesAreWholeWindows` and `BaselinesPrecedeTheMerge`: a measurement is a
  function of the minutes it covers, minutes once stored do not change (`Samples`
  of the past is the same in every later state), and the row remembers the right
  ones.
* `MeasuredTypes`: every sum is a natural number, so every signal is a quotient of
  two.
* `DegradedHasACause`: a workload found degraded was worse in some minute than
  in some minute before the merge, or was not scraped in one. Otherwise no signal of
  the window is worse than the baseline's, and `compare` finds nothing, whatever the
  limits it is given.
* `WorseIsFoundOut`: a workload that got worse in every minute is not verified.
  A re-check overwrites what was observed in the window, so that the verdict
  rested on the window is an invariant of its own (`VerifiedOnItsWindow`), and with
  the other three, and that no deploy lies ahead of the clock, it makes `VerdictsInv`.

The last three rest on lemmas about sums and averages. What a sum amounts to needs an induction over
the minutes of a window. It is done over their subsets: `SumFunction` is a
recursive function on the subsets of a finite set, and an induction hypothesis that
is a set of subsets can be stated without an operator as a parameter. From it
follow the comparisons of two sums term by term that the averages need.

`ManifestProofs` (for all files and change sets, from `ManifestsAreFiles`, that a
file is a sequence of lines, each indented by a natural number, and an entry among
them has the parts of an entry and no others):
`RollbacksAreExact`. Where all previous values are known, the
patch has only replaced scalars; then the shape of the file, its tree and the lines
the fields stand on are what they were, so the rollback finds the same places and
puts back, line by line, what was there, quotes included. `ManifestInv` says that
the file is what the patch of the original made of it and the recorded values are
those of that patch. An insertion makes a previous value unknown, so of it this
proof needs only that the result is a file again.

`ManifestReadingProofs` (from `ManifestsAreFiles`, and that all files are
well-formed and `Unparted`, which TLC evaluates of its files in `WrittenByHand`):

* `NothingElseIsChanged`: `NothingElseChanges`, for insertions as well. Added lines
  give the file another tree, which is read from each line's place among all others,
  so the proof compares the readings key by key. `InsertionLine` finds a gap:
  behind it no key belongs to the mapping, and a scalar that is cut there loses blanks
  only, or text, and then the result is not well-formed and refused (`CutScalar`,
  `GrownCovered`). Every old key keeps the keys it is nested in (`GrownAbove`),
  so its path, its scalar and its leaves, and the comments stay (`InsertionKeeps`);
  that the added paths are new follows from `SetMissing` going down as
  far as it finds something. A replaced scalar leaves the shape as it was
  (`ReplacementKeeps`).
* `PatchingIsIdempotent`: `PatchTwiceIsOnce`. What one field was given, the edits of
  the others leave alone, and none of them changes which document is the Deployment's,
  whether there is an autoscaler or which containers there are (`FieldsKept`), so the
  same places are found and say what they should already (`SaidOnce`).

Both rest on `ReadingInv`: the file is well-formed and `Unparted` again after every
merge, since `VerifyPatch` refuses anything else and no edit parts a block scalar, and
`PatchSays` relates it to the file it was patched from. `Unparted` cannot be left
out: without it `NothingElseChanges` fails, as said under Manifest.

`GeneratorProofs` (likewise, from `PullsAssumption` and `GeneratorAssumption`):

* `GeneratorTypeCorrect`.
* `AtMostOneOpenPerBranch`, `DeclinedIsNotReopened`, `CooldownIsKept` from
  `GeneratorInv`. Its heart is `LookupStillHolds`: if the lookup found no open
  PR then, until the operation acts, none is opened by anyone else, so none can
  be closed or merged either, and neither a no nor a cooldown comes in. The
  same argument fails when a PR was found: that is `GeneratorLateRewrite`.

Further, if neither the push nor the publication fails, as in
`GeneratorSafety`: `BodiesAgree` and `AnswersAreProposals` from `BodiesInv`. The push
makes the branch differ from the body; that the publication repairs just that PR
needs that the found one is the only open PR of the branch (`FoundIsAll`), and the
early return at the lookup that bodies can be believed between operations
(`BranchesInv`).

`RightsizingProofs` (for all requests, counts, demands and limits, from
`RightsizingAssumption`): `RightsizingTypeCorrect` and `MergedPRsKeepFloors`.
The floors are a property of the step that merges, long after the approval; the
invariant `ProposalAboveFloors` carries the approval over: where a PR differs from
what it was cut from, it is above the floors, and a merge takes nothing else.

In the same module: `NoThrottlingIsCaused`, if `MinCPU` is 2m at
least (it is 50m unless configured otherwise). A cut by 30 percent, rounded to a
millicore, leaves 50/88 of a request unless it leaves 1m (`CutKeepsHalf`); whoever is cut uses less than half of the
request, and less than a quarter where a replica goes too, of which two thirds
stay. At 1m it fails: if steps of 50 percent are allowed, ten replicas of 2m with a
peak of 9m are cut to 1m. `StepDownsAreCapped` is `StepDownCapped` for requests
under ten cores: the policy tolerates a millionth of the request, which below that
is too little to let another millicore through.

`CycleProofs` (for all sets of workloads and numbers of cycles and failures, from
`CycleAssumption`): `CycleTypeCorrect`, `OpenPRsAreOnRecord`, `OverviewIsFresh`,
`HaltsAreRespected`, all from `CycleInv`. Even the types are not inductive
alone: that the store has a newest snapshot is part of the invariant (`RowsInv`),
and each new one gets a larger id. `SnapshotInv` says that the cycle's own
snapshot is the newest and nothing stems from it before its analysis is stored;
`JudgedInv` that from judgement to proposal the halts are those judged by, for
only the next cycle's verifier changes them, and that they are those of the table as
long as nothing has failed and no signal has come in, after which there is no
analysis. `RequestInv` remembers that what a request was
promised is still there (`HistoryStays`).

Only model-checked: `StepDownCapped` for requests of ten cores and more;
and all liveness, which like `ENABLED` is beyond the prover.

## Not modelled

* The store's migration of old columns and timestamps, which runs once before the
  loop, and the history queries, which only read. `Cycle` takes the wall clock not
  to step back.
* The cached installation token (`auth.go`): `Apply` and `OpenRollback` do not
  overlap, so it has one caller at a time; a failed refresh and a refused token
  are failures of the calls that need it.
* Configuration: read and validated once at start-up. What it enforces is in the
  assumptions on the constants.
* The I/O of the Kubernetes, cost, Prometheus, git and AI service clients: their
  results and failures are inputs. The forecaster's statistics likewise.
* Memory in `Rightsizing`, which takes the way of the CPU but for the case described
  there; handlers of the read API other than the overview, which make one query
  each.
* The page limits of GitHub (100 PRs), which no bounded run reaches: an older
  decline is forgotten, and a merge may not be listed in a busy repository.
* Wording of PR bodies, parsing of markers, logging, CORS, scrubbing of secrets.
