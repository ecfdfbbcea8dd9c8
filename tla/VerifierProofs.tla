--------------------------- MODULE VerifierProofs ---------------------------
(***************************************************************************)
(* What TLAPS proves of Verifier for any number of pull requests,          *)
(* workloads and values, any durations and limits, and any failures.       *)
(***************************************************************************)
EXTENDS Verifier, TLAPS

(* A pull request number nobody used yet has a well-typed entry. *)
LEMMA NeverOpenedType == NeverOpened \in PullRequest
  <1>1. (CHOOSE t \in Targets : TRUE) \in Targets
    BY PullsAssumption
  <1>2. (CHOOSE v \in Values : TRUE) \in Values
    BY PullsAssumption
  <1>3. 0 \in 0..MaxPRs
    BY PullsAssumption
  <1>. QED
    BY <1>1, <1>2, <1>3 DEF NeverOpened, PullRequest, NoTime

(* A write of a well-typed row keeps the table well typed, done or failed. *)
LEMMA SaveType ==
  ASSUME TypeOK, NEW p \in PRs, NEW rec \in Verification,
         SaveVerification(p, rec)
  PROVE  store' \in [PRs -> Verification] /\ faults' \in Nat
  BY DEF TypeOK, SaveVerification, NoFault, Fault

LEMMA NoRecordType == NoRecord \in Verification
  BY PullsAssumption DEF NoRecord, Verification, Status, NoTime


LEMMA InitType == Init => TypeOK
  BY NeverOpenedType, NoRecordType, PullsAssumption
  DEF Init, TypeOK, NoPulls, NoRecords, NothingHalted, NoTime

LEMMA RunStartType ==
  ASSUME TypeOK, StartRun \/ ListMerged
  PROVE  TypeOK'
  BY DEF TypeOK, StartRun, ListMerged, MergedChanges, NoFault, Fault,
         services, database, NothingHalted

LEMMA RecordType == TypeOK /\ Record => TypeOK'
  <1>. SUFFICES ASSUME TypeOK, Record PROVE TypeOK'
    OBVIOUS
  <1>1. PICK p \in OldestFirst(toRecord) :
          /\ toRecord' = toRecord \ {p}
          /\ RecordChange(p) \/ RecordRollback(p)
    BY DEF Record
  <1>2. p \in PRs
    BY DEF OldestFirst, TypeOK
  <1>3. CASE RecordChange(p)
    <2>. DEFINE rec == [NoRecord EXCEPT
                  !.status = IF pulls[p].previousKnown THEN "WaitingForRollout"
                                                       ELSE "Skipped"]
    <2>1. rec \in Verification
      BY NoRecordType DEF Verification, Status
    <2>2. store' \in [PRs -> Verification] /\ faults' \in Nat
      BY <1>2, <1>3, <2>1, SaveType DEF RecordChange, FirstStatus, TypeOK, NoFault
    <2>. QED
      BY <1>1, <2>2 DEF Record, TypeOK, services
  <1>4. CASE RecordRollback(p)
    <2>. DEFINE source == pulls[p].rollbackOf
                rec == [store[source] EXCEPT !.status = "RolledBack",
                          !.rollbackPR = p, !.measuredAt = NoTime]
    <2>1. source \in PRs
      BY <1>2, <1>4, PullsAssumption
      DEF RecordRollback, IsRollback, TypeOK, PullRequest, PRs
    <2>2. rec \in Verification
      <3>1. store[source] \in Verification
        BY <2>1 DEF TypeOK
      <3>2. p \in 0..MaxPRs
        BY <1>2, PullsAssumption DEF PRs
      <3>3. "RolledBack" \in Status /\ NoTime \in Nat
        BY DEF Status, NoTime
      <3>. QED
        BY <3>1, <3>2, <3>3 DEF Verification
    <2>3. store' \in [PRs -> Verification] /\ faults' \in Nat
      BY <1>4, <2>1, <2>2, SaveType DEF RecordRollback, TypeOK, NoFault
    <2>. QED
      BY <1>1, <2>3 DEF Record, TypeOK, services
  <1>. QED
    BY <1>1, <1>3, <1>4

LEMMA LoadedType == Loaded \in SUBSET PRs
  BY DEF Loaded, Stored

LEMMA ReadType == TypeOK /\ ReadRecords => TypeOK'
  <1>. SUFFICES ASSUME TypeOK, ReadRecords PROVE TypeOK'
    OBVIOUS
  <1>1. CASE pc' = "idle" /\ UNCHANGED <<recs, toAdvance>>
    BY <1>1 DEF TypeOK, ReadRecords, NoFault, Fault, services, database, NoTime
  <1>2. CASE /\ pc' = "advance"
             /\ toAdvance' = Loaded
             /\ recs' = Rows
             /\ UNCHANGED <<runNow, faults>>
    <2>1. recs' \in [PRs -> Verification]
      BY <1>2, NoRecordType DEF TypeOK, Rows
    <2>. QED
      BY <1>2, <2>1, LoadedType DEF TypeOK, ReadRecords, services, database
  <1>. QED
    BY <1>1, <1>2 DEF ReadRecords, NoFault

(* A saved step of an advance keeps the state well typed. *)
LEMMA SaveStepType ==
  ASSUME TypeOK, NEW p \in PRs, NEW rec \in Verification, NEW statuses,
         Advancing(p, statuses), Save(p, rec), pulls' \in [PRs -> PullRequest]
  PROVE  TypeOK'
  <1>1. store' \in [PRs -> Verification] /\ faults' \in Nat
    BY SaveType DEF Save
  <1>. QED
    BY <1>1 DEF TypeOK, Advancing, Save

LEMMA KeepStepType ==
  ASSUME TypeOK, NEW p \in PRs, NEW statuses,
         Advancing(p, statuses), Keep, NoFault \/ Fault("call"),
         pulls' \in [PRs -> PullRequest]
  PROVE  TypeOK'
  BY DEF TypeOK, Advancing, Keep, NoFault, Fault

LEMMA AnsweredType ==
  ASSUME TypeOK, NEW p \in PRs, NEW q \in 0..MaxPRs,
         Advancing(p, {"Degraded"}), Answered(p, q),
         pulls' \in [PRs -> PullRequest]
  PROVE  TypeOK'
  <1>. DEFINE rec == [recs[p] EXCEPT
                !.status = IF q = 0 THEN "RollbackDeclined" ELSE "RollbackProposed",
                !.rollbackPR = IF q = 0 THEN @ ELSE q]
  <1>1. recs[p] \in Verification
    BY DEF TypeOK
  <1>2. rec \in Verification
    BY <1>1 DEF Verification, Status
  <1>. QED
    BY <1>2, SaveStepType DEF Answered, Answer

LEMMA MeasuredType ==
  ASSUME TypeOK, NEW p \in PRs, NEW statuses, Advancing(p, statuses),
         Degrade(p) \/ Verify(p) \/ Save(p, recs[p]), UNCHANGED pulls
  PROVE  TypeOK'
  <1>1. recs[p] \in Verification /\ runNow \in Nat /\ NoTime \in Nat
    BY DEF TypeOK, NoTime
  <1>2. "Degraded" \in Status /\ "Verified" \in Status
    BY DEF Status
  <1>3. /\ [recs[p] EXCEPT !.status = "Degraded", !.measuredAt = NoTime]
             \in Verification
        /\ [recs[p] EXCEPT !.status = "Verified", !.measuredAt = runNow]
             \in Verification
    BY <1>1, <1>2 DEF Verification
  <1>4. pulls' \in [PRs -> PullRequest]
    BY DEF TypeOK
  <1>. QED
    BY <1>1, <1>3, <1>4, SaveStepType DEF Degrade, Verify

LEMMA RollbackOnType ==
  ASSUME TypeOK, NEW p \in PRs, NEW pull \in PullRequest
  PROVE  RollbackOn(pull, p) \in PullRequest
  <1>1. pulls[p] \in PullRequest /\ p \in 0..MaxPRs
    BY PullsAssumption DEF TypeOK, PRs
  <1>2. Restored(p) \in Values /\ manifest[pulls[p].target] \in Values
    <2>1. pulls[p].previous \in Values /\ pulls[p].target \in Targets
      BY <1>1 DEF PullRequest
    <2>. QED
      BY <2>1 DEF Restored, TypeOK
  <1>. QED
    BY <1>1, <1>2 DEF RollbackOn, PullRequest

(* What GitHub is asked for: a PR, open already or new, that restores p. *)
LEMMA ProposedOnGitHub ==
  ASSUME TypeOK, NEW p \in PRs, NEW q \in PRs, Rewrites(p, q) \/ Creates(p, q)
  PROVE  \E pull \in PullRequest :
           /\ pull.state = "open" /\ pull.target = pulls[p].target
           /\ pulls' = [pulls EXCEPT ![q] = RollbackOn(pull, p)]
           /\ \/ q \in RollbacksOpen(p)
              \/ pulls[q].state = "none" /\ RollbacksOpen(p) = {}
  <1>1. pulls \in [PRs -> PullRequest]
    BY DEF TypeOK
  <1>2. CASE Rewrites(p, q)
    <2>1. q \in RollbacksOpen(p) /\ pulls' = [pulls EXCEPT ![q] = RollbackOn(pulls[q], p)]
      BY <1>1, <1>2 DEF Rewrites
    <2>2. /\ pulls[q] \in PullRequest
          /\ pulls[q].state = "open" /\ pulls[q].target = pulls[p].target
      BY <1>1, <2>1 DEF RollbacksOpen, OpenOn, BranchPRs
    <2>. QED
      BY <2>1, <2>2
  <1>3. CASE Creates(p, q)
    <2>. DEFINE new == [NeverOpened EXCEPT !.state = "open",
                                           !.target = pulls[p].target]
    <2>1. new \in PullRequest /\ new.state = "open" /\ new.target = pulls[p].target
      BY <1>1, NeverOpenedType DEF PullRequest
    <2>2. pulls' = [pulls EXCEPT ![q] = RollbackOn(new, p)]
      BY <1>3 DEF Creates
    <2>3. pulls[q].state = "none" /\ RollbacksOpen(p) = {}
      BY <1>3 DEF Creates, IsNextNumber, BranchFree
    <2>. HIDE DEF new
    <2>. QED
      BY <2>1, <2>2, <2>3
  <1>. QED
    BY <1>2, <1>3

LEMMA ProposedType ==
  ASSUME TypeOK, NEW p \in PRs, NEW q \in PRs, Rewrites(p, q) \/ Creates(p, q)
  PROVE  pulls' \in [PRs -> PullRequest]
  <1>1. PICK pull \in PullRequest : pulls' = [pulls EXCEPT ![q] = RollbackOn(pull, p)]
    BY ProposedOnGitHub
  <1>. QED
    BY <1>1, RollbackOnType DEF TypeOK

LEMMA CutOffType ==
  ASSUME TypeOK, NEW p \in PRs, CutOff(p)
  PROVE  pulls' \in [PRs -> PullRequest]
  <1>1. PICK q \in PRs : Rewrites(p, q) \/ PushesUnder(p, q) \/ Creates(p, q)
    BY DEF CutOff
  <1>2. CASE PushesUnder(p, q)
    <2>1. Restored(p) \in Values /\ manifest[pulls[p].target] \in Values
      BY DEF Restored, PullRequest, TypeOK
    <2>2. pulls' = [pulls EXCEPT ![q].head = Restored(p),
                                 ![q].base = manifest[pulls[p].target]]
      BY <1>2 DEF PushesUnder
    <2>3. pulls \in [PRs -> PullRequest]
      BY DEF TypeOK
    <2>. QED
      BY <2>1, <2>2, <2>3 DEF PullRequest
  <1>. QED
    BY <1>1, <1>2, ProposedType

LEMMA DegradedType ==
  ASSUME TypeOK, NEW p \in PRs, AdvanceDegraded(p)
  PROVE  TypeOK'
  <1>1. Advancing(p, {"Degraded"})
    BY DEF AdvanceDegraded, RollbackDue
  <1>2. \A q \in RollbacksOpen(p) : q \in 0..MaxPRs
    BY PullsAssumption DEF RollbacksOpen, OpenOn, BranchPRs, PRs
  <1>3. pulls \in [PRs -> PullRequest] /\ 0 \in 0..MaxPRs /\ PRs \subseteq 0..MaxPRs
    BY PullsAssumption DEF TypeOK, PRs
  <1>4. CASE KeepRollback(p)
    BY <1>1, <1>2, <1>3, <1>4, AnsweredType DEF KeepRollback
  <1>5. CASE NoRollback(p)
    BY <1>1, <1>3, <1>5, AnsweredType DEF NoRollback
  <1>6. CASE RewriteRollback(p) \/ CreateRollback(p)
    <2>1. PICK q \in PRs : (Rewrites(p, q) \/ Creates(p, q)) /\ Answered(p, q)
      BY <1>6 DEF RewriteRollback, CreateRollback
    <2>2. pulls' \in [PRs -> PullRequest]
      BY <2>1, ProposedType
    <2>. QED
      BY <1>1, <1>3, <2>1, <2>2, AnsweredType
  <1>7. CASE AnswerLost(p)
    <2>1. CutOff(p) /\ Keep /\ Fault("call")
      BY <1>7 DEF AnswerLost
    <2>. QED
      BY <1>1, <2>1, CutOffType, KeepStepType
  <1>. QED
    BY <1>4, <1>5, <1>6, <1>7 DEF AdvanceDegraded

LEMMA AdvanceType == TypeOK /\ Advance => TypeOK'
  <1>. SUFFICES ASSUME TypeOK, NEW p \in PRs,
                       \/ AdvanceWaiting(p) \/ AdvanceVerifying(p)
                       \/ AdvanceVerified(p) \/ AdvanceDegraded(p)
                       \/ AdvanceTerminal(p) \/ CallFails(p)
                PROVE  TypeOK'
    BY DEF Advance
  <1>1. recs[p] \in Verification /\ runNow \in Nat /\ pulls \in [PRs -> PullRequest]
    BY DEF TypeOK
  <1>2. CASE AdvanceWaiting(p)
    <2>1. Advancing(p, {"WaitingForRollout"}) /\ pulls' \in [PRs -> PullRequest]
      BY <1>1, <1>2 DEF AdvanceWaiting
    <2>2. CASE Save(p, [recs[p] EXCEPT !.status = "Verifying",
                                       !.deployedAt = runNow])
      <3>1. [recs[p] EXCEPT !.status = "Verifying", !.deployedAt = runNow]
              \in Verification
        BY <1>1 DEF Verification, Status
      <3>. QED
        BY <2>1, <2>2, <3>1, SaveStepType
    <2>3. CASE Save(p, [recs[p] EXCEPT !.status = "NotDeployed"])
      <3>1. [recs[p] EXCEPT !.status = "NotDeployed"] \in Verification
        BY <1>1 DEF Verification, Status
      <3>. QED
        BY <2>1, <2>3, <3>1, SaveStepType
    <2>4. CASE Keep /\ NoFault
      BY <2>1, <2>4, KeepStepType
    <2>. QED
      BY <1>2, <2>2, <2>3, <2>4 DEF AdvanceWaiting
  <1>3. CASE AdvanceVerifying(p)
    BY <1>3, MeasuredType DEF AdvanceVerifying
  <1>4. CASE AdvanceVerified(p)
    <2>1. Advancing(p, {"Verified"}) /\ UNCHANGED pulls
      BY <1>4 DEF AdvanceVerified
    <2>2. CASE Degrade(p) \/ Verify(p)
      BY <2>1, <2>2, MeasuredType
    <2>3. CASE Keep /\ NoFault
      BY <2>1, <2>3, <1>1, KeepStepType
    <2>. QED
      BY <1>4, <2>2, <2>3 DEF AdvanceVerified
  <1>5. CASE AdvanceDegraded(p)
    BY <1>5, DegradedType
  <1>6. CASE AdvanceTerminal(p)
    BY <1>1, <1>6, KeepStepType DEF AdvanceTerminal
  <1>7. CASE CallFails(p)
    BY <1>1, <1>7, KeepStepType DEF CallFails
  <1>. QED
    BY <1>2, <1>3, <1>4, <1>5, <1>6, <1>7

LEMMA HaltsType == TypeOK /\ Halts => TypeOK'
  <1>. SUFFICES ASSUME TypeOK, Halts PROVE TypeOK'
    OBVIOUS
  <1>1. \A after : HaltedAfter(after) \in [Targets -> SUBSET PRs]
    BY DEF HaltedAfter, FailedAfter
  <1>2. result' \in [Targets -> SUBSET PRs]
    <2>1. CASE result' = HaltedAfter(resume)
      BY <1>1, <2>1
    <2>2. CASE \E t \in Targets : result' = HaltedAfter([resume EXCEPT ![t] = NoTime])
      BY <1>1, <2>2
    <2>. QED
      BY <2>1, <2>2 DEF Halts
  <1>3. halted' \in [Targets -> SUBSET PRs] /\ faults' \in Nat
    BY <1>2 DEF Halts, TypeOK, NoFault, Fault
  <1>. QED
    BY <1>2, <1>3, NoRecordType DEF Halts, TypeOK, services, NoRecords, NoTime

LEMMA CrashType == TypeOK /\ Crash => TypeOK'
  <1>. SUFFICES ASSUME TypeOK, Crash PROVE TypeOK'
    OBVIOUS
  <1>1. Dies
    BY DEF Crash, CrashBetween, CrashMidway
  <1>2. pulls' \in [PRs -> PullRequest]
    BY CutOffType DEF Crash, CrashBetween, CrashMidway, TypeOK
  <1>. QED
    BY <1>1, <1>2, NoRecordType
    DEF TypeOK, Dies, Fault, database, NoRecords, NothingHalted, NoTime

LEMMA EnvironmentType == TypeOK /\ Environment => TypeOK'
  <1>. SUFFICES ASSUME TypeOK, Environment PROVE TypeOK'
    OBVIOUS
  <1>. USE DEF Around, database, memory
  <1>1. CASE Tick
    BY <1>1 DEF Tick, TypeOK
  <1>2. ASSUME NEW t \in Targets, MergeChange(t) PROVE TypeOK'
    <2>1. PICK p \in PRs, v \in Values \ {manifest[t]}, known \in BOOLEAN :
            /\ pulls' = [pulls EXCEPT ![p] =
                 [state |-> "merged", target |-> t, head |-> v,
                  base |-> manifest[t], marker |-> v,
                  previous |-> manifest[t], previousKnown |-> known,
                  rollbackOf |-> 0, mergedAt |-> clock]]
            /\ manifest' = [manifest EXCEPT ![t] = v]
      BY <1>2 DEF MergeChange
    <2>2. 0 \in 0..MaxPRs
      BY PullsAssumption
    <2>3. pulls' \in [PRs -> PullRequest]
      BY <2>1, <2>2 DEF TypeOK, PullRequest
    <2>. QED
      BY <1>2, <2>1, <2>3 DEF MergeChange, TypeOK
  <1>3. ASSUME NEW t \in Targets, Sync(t) \/ Readiness(t) \/ SetResume(t)
        PROVE TypeOK'
    BY <1>3 DEF Sync, Readiness, SetResume, TypeOK
  <1>4. ASSUME NEW q \in PRs, MergeRollback(q) PROVE TypeOK'
    <2>1. pulls[q] \in PullRequest /\ clock \in Nat
      BY DEF TypeOK
    <2>2. pulls' \in [PRs -> PullRequest]
      BY <1>4, <2>1 DEF MergeRollback, TypeOK, PullRequest
    <2>3. manifest' \in [Targets -> Values]
      <3>1. pulls[q].head \in Values
        BY <2>1 DEF PullRequest
      <3>. QED
        BY <1>4, <3>1 DEF MergeRollback, TypeOK
    <2>. QED
      BY <1>4, <2>2, <2>3 DEF MergeRollback, TypeOK
  <1>5. ASSUME NEW q \in PRs, DeclineRollback(q) PROVE TypeOK'
    <2>1. pulls' \in [PRs -> PullRequest]
      <3>1. [pulls[q] EXCEPT !.state = "declined"] \in PullRequest
        <4>1. pulls[q] \in PullRequest
          BY DEF TypeOK
        <4>. QED
          BY <4>1 DEF PullRequest
      <3>. QED
        BY <1>5, <3>1 DEF DeclineRollback, TypeOK
    <2>. QED
      BY <1>5, <2>1 DEF DeclineRollback, TypeOK
  <1>. QED
    BY <1>1, <1>2, <1>3, <1>4, <1>5 DEF Environment

LEMMA StutterType == TypeOK /\ UNCHANGED vars => TypeOK'
  BY DEF TypeOK, vars, services, database, memory

(* Type correctness: every variable keeps the shape the code gives it. *)
THEOREM TypeCorrect == Spec => []TypeOK
  <1>1. TypeOK /\ [Next]_vars => TypeOK'
    BY RunStartType, RecordType, ReadType, AdvanceType, HaltsType, CrashType,
       EnvironmentType, StutterType DEF Next, Run
  <1>. QED
    BY <1>1, InitType, PTL DEF Spec

-----------------------------------------------------------------------------
(***************************************************************************)
(* The rollback invariant.  Its parts fall in two: what the run remembers  *)
(* (ListedAreMerged, MemoryIsCurrent), and what relates the table of       *)
(* verifications to the pull requests, named Linked here.                  *)
(***************************************************************************)
Linked ==
  /\ TrackedAreMerged
  /\ RollbackFollowsFailure
  /\ RollbackRestoresPrevious
  /\ OneOpenRollback

(* A step that loses no failure and tracks no new change. *)
StoreMoves ==
  \A q \in PRs :
    /\ Failed(store[q].status) => Failed(store'[q].status)
    /\ store'[q].status # "None" => store[q].status # "None"
    /\ store'[q].status \notin {"None", "Skipped"}
         => store[q].status \notin {"None", "Skipped"}

FailuresStay ==
  \A q \in PRs : Failed(store[q].status) => Failed(store'[q].status)

(* Merged pull requests are left alone. *)
MergedStay ==
  \A q \in PRs : pulls[q].state = "merged" => pulls'[q] = pulls[q]

(* What has failed has failed. *)
FaultsStay == faults' = 0 => faults = 0

(* What RollbackRestoresPrevious says of one rollback PR. *)
Restores(q) ==
  LET source == pulls[q].rollbackOf IN
  /\ Recommended(source)
  /\ pulls[q].target = pulls[source].target
  /\ pulls[q].marker = Restored(source)
  /\ \E p \in PRs :
       /\ Recommended(p) /\ pulls[p].target = pulls[q].target
       /\ Failed(store[p].status)
       /\ pulls[q].head = Restored(p)
  /\ faults = 0 => pulls[q].head = pulls[q].marker

LEMMA AllRestore == RollbackRestoresPrevious <=> \A q \in Rollbacks : Restores(q)
  BY DEF RollbackRestoresPrevious, Restores

LEMMA FaultsGrow ==
  TypeOK /\ [Next]_vars => faults' \in {faults, faults + 1} /\ FaultsStay
  <1>. SUFFICES ASSUME TypeOK, [Next]_vars PROVE faults' \in {faults, faults + 1}
    BY DEF TypeOK, FaultsStay
  <1>. USE DEF NoFault, Fault
  <1>1. CASE StartRun \/ ListMerged \/ ReadRecords \/ Halts \/ Crash
    BY <1>1 DEF StartRun, ListMerged, ReadRecords, Halts, Crash, CrashBetween,
                CrashMidway, Dies
  <1>2. CASE Record
    BY <1>2 DEF Record, RecordChange, RecordRollback, SaveVerification
  <1>3. CASE Advance
    BY <1>3 DEF Advance, AdvanceWaiting, AdvanceVerifying, AdvanceVerified,
                AdvanceDegraded, AdvanceTerminal, CallFails, KeepRollback,
                NoRollback, RewriteRollback, CreateRollback, AnswerLost,
                Answered, Degrade, Verify, Save, SaveVerification
  <1>4. CASE Environment
    BY <1>4 DEF Environment, Tick, MergeChange, Sync, Readiness, SetResume,
                MergeRollback, DeclineRollback, Around
  <1>5. CASE UNCHANGED vars
    BY <1>5 DEF vars
  <1>. QED
    BY <1>1, <1>2, <1>3, <1>4, <1>5 DEF Next, Run

LEMMA RollbackOfPR ==
  ASSUME TypeOK, NEW q \in Rollbacks
  PROVE  q \in PRs /\ pulls[q].rollbackOf \in PRs
  <1>1. q \in PRs /\ pulls[q].rollbackOf # 0 /\ pulls[q] \in PullRequest
    BY DEF Rollbacks, IsRollback, TypeOK
  <1>2. pulls[q].rollbackOf \in 0..MaxPRs
    BY <1>1 DEF PullRequest
  <1>. QED
    BY <1>1, <1>2, PullsAssumption DEF PRs

(* A rollback PR goes on restoring what it restored, as long as its branch and
   its body stay as they are, and humans may merge or close it. *)
LEMMA RestoresStays ==
  ASSUME TypeOK, NEW q \in Rollbacks, Restores(q),
         FailuresStay, MergedStay, FaultsStay,
         pulls'[q].target = pulls[q].target, pulls'[q].marker = pulls[q].marker,
         pulls'[q].rollbackOf = pulls[q].rollbackOf, pulls'[q].head = pulls[q].head
  PROVE  Restores(q)'
  <1>. DEFINE source == pulls[q].rollbackOf
  <1>1. ASSUME NEW p \in PRs, Recommended(p)
        PROVE  Recommended(p)' /\ pulls'[p] = pulls[p] /\ Restored(p)' = Restored(p)
    BY <1>1 DEF MergedStay, Recommended, Restored
  <1>2. source \in PRs /\ Recommended(source)
    BY RollbackOfPR DEF Restores
  <1>3. PICK p \in PRs :
          /\ Recommended(p) /\ pulls[p].target = pulls[q].target
          /\ Failed(store[p].status)
          /\ pulls[q].head = Restored(p)
    BY DEF Restores
  <1>4. /\ Recommended(p)' /\ pulls'[p].target = pulls'[q].target
        /\ Failed(store'[p].status) /\ pulls'[q].head = Restored(p)'
    BY <1>1, <1>3 DEF FailuresStay
  <1>5. /\ Recommended(source)' /\ pulls'[q].target = pulls'[source].target
        /\ pulls'[q].marker = Restored(source)'
    BY <1>1, <1>2 DEF Restores
  <1>6. faults' = 0 => pulls'[q].head = pulls'[q].marker
    BY DEF FaultsStay, Restores
  <1>. QED
    BY <1>4, <1>5, <1>6 DEF Restores

LEMMA LinkedSamePulls ==
  ASSUME TypeOK, Linked, StoreMoves, FaultsStay, UNCHANGED pulls
  PROVE  Linked'
  <1>1. Rollbacks' = Rollbacks
    BY DEF Rollbacks
  <1>2. TrackedAreMerged'
    BY DEF Linked, TrackedAreMerged, StoreMoves
  <1>3. RollbackFollowsFailure'
    BY <1>1, RollbackOfPR DEF Linked, RollbackFollowsFailure, StoreMoves
  <1>4. RollbackRestoresPrevious'
    <2>1. FailuresStay /\ MergedStay
      BY DEF StoreMoves, FailuresStay, MergedStay
    <2>2. \A q \in Rollbacks : Restores(q)
      BY AllRestore DEF Linked
    <2>3. \A q \in Rollbacks : Restores(q)'
      BY <2>1, <2>2, RestoresStays
    <2>. QED
      BY <1>1, <2>3 DEF RollbackRestoresPrevious, Restores
  <1>5. OneOpenRollback'
    BY <1>1 DEF Linked, OneOpenRollback
  <1>. QED
    BY <1>2, <1>3, <1>4, <1>5 DEF Linked

LEMMA LinkedStart == Init => ListedAreMerged /\ MemoryIsCurrent /\ Linked
  BY DEF Init, ListedAreMerged, MemoryIsCurrent, Linked, TrackedAreMerged,
         RollbackFollowsFailure, RollbackRestoresPrevious, OneOpenRollback,
         Rollbacks, NoPulls, NeverOpened, NoRecords, NoRecord

(* Recording starts to track merged recommendations, and settles the change
   of a merged rollback, which had failed before. *)
LEMMA LinkedRecord ==
  ASSUME RollbackInv, FaultsStay, Record
  PROVE  Linked' /\ FailuresStay
  <1>0. TypeOK /\ Linked /\ UNCHANGED pulls /\ Rollbacks' = Rollbacks
    BY DEF RollbackInv, Linked, Record, services, Rollbacks
  <1>1. PICK p \in OldestFirst(toRecord) : RecordChange(p) \/ RecordRollback(p)
    BY DEF Record
  <1>2. p \in PRs /\ pulls[p].state = "merged"
    BY <1>0 DEF OldestFirst, TypeOK, RollbackInv, ListedAreMerged
  <1>3. CASE UNCHANGED store
    BY <1>0, <1>3, LinkedSamePulls DEF StoreMoves, FailuresStay
  <1>4. CASE RecordChange(p) /\ store' # store
    <2>1. /\ ~IsRollback(pulls[p])
          /\ store[p].status = "None"
          /\ store' = [store EXCEPT ![p] = [NoRecord EXCEPT
               !.status = IF pulls[p].previousKnown THEN "WaitingForRollout"
                                                    ELSE "Skipped"]]
      BY <1>4 DEF RecordChange, IsNew, FirstStatus, SaveVerification
    <2>2. store'[p].status = IF pulls[p].previousKnown THEN "WaitingForRollout"
                                                       ELSE "Skipped"
      BY <2>1, <1>0, <1>2 DEF TypeOK, NoRecord
    <2>3. \A q \in PRs : q # p => store'[q] = store[q]
      BY <2>1, <1>0 DEF TypeOK
    <2>4. TrackedAreMerged'
      BY <1>0, <1>2, <2>1, <2>2, <2>3 DEF Linked, TrackedAreMerged
    <2>5. RollbackFollowsFailure'
      <3>. SUFFICES ASSUME NEW q \in Rollbacks
                    PROVE  Failed(store'[pulls[q].rollbackOf].status)
        BY <1>0 DEF RollbackFollowsFailure
      <3>1. pulls[q].rollbackOf \in PRs /\ Failed(store[pulls[q].rollbackOf].status)
        BY <1>0, RollbackOfPR DEF Linked, RollbackFollowsFailure
      <3>2. pulls[q].rollbackOf # p
        BY <2>1, <3>1 DEF Failed
      <3>. QED
        BY <2>3, <3>1, <3>2
    <2>6. FailuresStay
      BY <2>1, <2>3 DEF FailuresStay, Failed
    <2>7. RollbackRestoresPrevious'
      <3>1. MergedStay /\ \A q \in Rollbacks : Restores(q)
        BY <1>0, AllRestore DEF MergedStay, Linked
      <3>2. \A q \in Rollbacks : Restores(q)'
        BY <1>0, <2>6, <3>1, RestoresStays
      <3>. QED
        BY <1>0, <3>2 DEF RollbackRestoresPrevious, Restores
    <2>8. OneOpenRollback'
      BY <1>0 DEF Linked, OneOpenRollback
    <2>. QED
      BY <2>4, <2>5, <2>6, <2>7, <2>8 DEF Linked
  <1>5. CASE RecordRollback(p) /\ store' # store
    <2>. DEFINE source == pulls[p].rollbackOf
    <2>1. /\ IsRollback(pulls[p])
          /\ store' = [store EXCEPT ![source] =
                         [store[source] EXCEPT !.status = "RolledBack",
                            !.rollbackPR = p, !.measuredAt = NoTime]]
      BY <1>5 DEF RecordRollback, Settles, SaveVerification
    <2>2. p \in Rollbacks
      BY <1>2, <2>1 DEF Rollbacks
    <2>3. source \in PRs /\ Failed(store[source].status)
      BY <1>0, <2>2, RollbackOfPR DEF Linked, RollbackFollowsFailure
    <2>4. store[source] \in Verification
      BY <1>0, <2>3 DEF TypeOK
    <2>5. store'[source].status = "RolledBack"
      BY <1>0, <2>1, <2>3, <2>4 DEF TypeOK, Verification
    <2>6. \A q \in PRs : q # source => store'[q] = store[q]
      BY <1>0, <2>1 DEF TypeOK
    <2>7. StoreMoves
      BY <2>3, <2>5, <2>6 DEF StoreMoves, Failed
    <2>. QED
      BY <1>0, <2>7, LinkedSamePulls DEF StoreMoves, FailuresStay
  <1>. QED
    BY <1>1, <1>3, <1>4, <1>5

(* A step of advance that changes row p, given what it does to the status. *)
LEMMA AdvanceMoves ==
  ASSUME RollbackInv, NEW p \in PRs, NEW statuses, Advancing(p, statuses),
         NEW rec, Save(p, rec),
         "None" \notin statuses, "Skipped" \notin statuses,
         Failed(recs[p].status) => Failed(rec.status)
  PROVE  StoreMoves /\ MemoryIsCurrent'
  <1>1. pc = "advance" /\ p \in toAdvance /\ toAdvance' = toAdvance \ {p}
    BY DEF Advancing, NewestFirst
  <1>2. recs[p] = store[p] /\ store[p].status \notin {"None", "Skipped"}
    BY <1>1 DEF RollbackInv, MemoryIsCurrent, Advancing
  <1>3. store \in [PRs -> Verification] /\ recs \in [PRs -> Verification]
        /\ toAdvance \in SUBSET PRs
    BY DEF RollbackInv, TypeOK
  <1>4. /\ \A q \in PRs : q # p => store'[q] = store[q] /\ recs'[q] = recs[q]
        /\ store'[p] = rec \/ store'[p] = store[p]
    BY <1>3 DEF Save, SaveVerification
  <1>5. StoreMoves
    BY <1>2, <1>4 DEF StoreMoves
  <1>6. MemoryIsCurrent'
    BY <1>1, <1>3, <1>4 DEF RollbackInv, MemoryIsCurrent
  <1>. QED
    BY <1>5, <1>6

LEMMA KeepMoves ==
  ASSUME RollbackInv, NEW p \in PRs, NEW statuses, Advancing(p, statuses), Keep
  PROVE  StoreMoves /\ MemoryIsCurrent'
  BY DEF RollbackInv, MemoryIsCurrent, StoreMoves, Advancing, Keep

(* A degraded change takes over the workload's rollback PR or a new one. *)
LEMMA LinkedRollbackOn ==
  ASSUME RollbackInv, StoreMoves, FaultsStay,
         NEW p \in PRs, store[p].status = "Degraded",
         NEW q \in PRs, NEW pull \in PullRequest,
         pull.state = "open", pull.target = pulls[p].target,
         pulls' = [pulls EXCEPT ![q] = RollbackOn(pull, p)],
         \/ q \in RollbacksOpen(p)
         \/ pulls[q].state = "none" /\ RollbacksOpen(p) = {}
  PROVE  Linked' /\ MergedStay
  <1>1. /\ TypeOK /\ TrackedAreMerged /\ RollbackFollowsFailure
        /\ RollbackRestoresPrevious /\ OneOpenRollback
    BY DEF RollbackInv
  <1>2. /\ pulls \in [PRs -> PullRequest]
        /\ store \in [PRs -> Verification]
    BY <1>1 DEF TypeOK
  <1>3. /\ pulls[p].state = "merged" /\ ~IsRollback(pulls[p])
        /\ pulls[p].previousKnown
    BY <1>1 DEF TrackedAreMerged
  <1>4. pulls[q].state \in {"none", "open"}
    BY DEF RollbacksOpen, OpenOn
  <1>5. q # p
    BY <1>3, <1>4
  <1>6. /\ pulls'[q].state = "open" /\ pulls'[q].target = pulls[p].target
        /\ pulls'[q].rollbackOf = p /\ pulls'[q].marker = pulls[p].previous
        /\ pulls'[q].head = pulls[p].previous
    BY <1>2 DEF RollbackOn, Restored, PullRequest
  <1>7. \A r \in PRs : r # q => pulls'[r] = pulls[r]
    BY <1>2
  <1>8. p # 0
    BY PullsAssumption DEF PRs
  <1>9. Rollbacks' = Rollbacks \union {q}
    BY <1>6, <1>7, <1>8 DEF Rollbacks, IsRollback
  <1>10. MergedStay
    BY <1>4, <1>7 DEF MergedStay
  <1>11. TrackedAreMerged'
    BY <1>1, <1>10 DEF TrackedAreMerged, StoreMoves, MergedStay
  <1>12. RollbackFollowsFailure'
    <2>1. Failed(store'[p].status)
      BY DEF StoreMoves, Failed
    <2>2. \A r \in Rollbacks : Failed(store'[pulls[r].rollbackOf].status)
      BY <1>1, RollbackOfPR DEF RollbackFollowsFailure, StoreMoves
    <2>3. \A r \in Rollbacks : r # q => pulls'[r] = pulls[r]
      BY <1>7 DEF Rollbacks
    <2>. QED
      BY <1>6, <1>9, <2>1, <2>2, <2>3 DEF RollbackFollowsFailure
  <1>13. RollbackRestoresPrevious'
    <2>1. FailuresStay /\ \A r \in Rollbacks : Restores(r)
      BY <1>1, AllRestore DEF StoreMoves, FailuresStay
    <2>2. ASSUME NEW r \in Rollbacks, r # q PROVE Restores(r)'
      <3>1. pulls'[r] = pulls[r]
        BY <1>7, <2>2 DEF Rollbacks
      <3>. QED
        BY <1>1, <1>10, <2>1, <3>1, RestoresStays
    <2>3. pulls'[p] = pulls[p]
      BY <1>5, <1>7
    <2>4. Restores(q)'
      <3>1. Recommended(p)' /\ Failed(store'[p].status)
        BY <1>3, <2>3 DEF Recommended, StoreMoves, Failed
      <3>. QED
        BY <1>6, <2>3, <3>1 DEF Restores, Restored
    <2>. QED
      BY <1>9, <2>2, <2>4 DEF RollbackRestoresPrevious, Restores
  <1>14. OneOpenRollback'
    <2>1. \A r \in Rollbacks :
            /\ r # q
            /\ pulls[r].state = "open"
            => pulls[r].target # pulls[p].target
      <3>. SUFFICES ASSUME NEW r \in Rollbacks, r # q, pulls[r].state = "open",
                           pulls[r].target = pulls[p].target
                    PROVE  FALSE
        OBVIOUS
      <3>1. r \in RollbacksOpen(p)
        BY DEF RollbacksOpen, OpenOn, BranchPRs, Rollbacks, IsRollback
      <3>2. q \in RollbacksOpen(p)
        BY <3>1
      <3>3. q \in Rollbacks /\ pulls[q].state = "open"
            /\ pulls[q].target = pulls[p].target
        BY <3>2 DEF RollbacksOpen, OpenOn, BranchPRs, Rollbacks, IsRollback
      <3>. QED
        BY <1>1, <3>3 DEF OneOpenRollback
    <2>2. \A r \in Rollbacks : r # q => pulls'[r] = pulls[r]
      BY <1>7 DEF Rollbacks
    <2>. QED
      BY <1>1, <1>6, <1>9, <2>1, <2>2 DEF OneOpenRollback
  <1>. QED
    BY <1>10, <1>11, <1>12, <1>13, <1>14 DEF Linked

(* Only the branch behind an open rollback PR changed, by a call that failed. *)
LEMMA LinkedPushesUnder ==
  ASSUME RollbackInv, UNCHANGED store, faults' # 0,
         NEW p \in PRs, store[p].status = "Degraded",
         NEW q \in PRs, PushesUnder(p, q)
  PROVE  Linked' /\ MergedStay
  <1>1. /\ pulls' = [pulls EXCEPT ![q].head = Restored(p),
                                  ![q].base = manifest[pulls[p].target]]
        /\ pulls[q].state = "open" /\ pulls[q].target = pulls[p].target
    BY DEF PushesUnder, RollbacksOpen, OpenOn, BranchPRs
  <1>2. /\ pulls \in [PRs -> PullRequest] /\ TypeOK /\ TrackedAreMerged
        /\ RollbackFollowsFailure /\ RollbackRestoresPrevious /\ OneOpenRollback
    BY DEF RollbackInv, TypeOK
  <1>3. \A r \in PRs :
          /\ r # q => pulls'[r] = pulls[r]
          /\ pulls'[r].state = pulls[r].state
          /\ pulls'[r].target = pulls[r].target
          /\ pulls'[r].rollbackOf = pulls[r].rollbackOf
          /\ pulls'[r].marker = pulls[r].marker
    BY <1>1, <1>2 DEF PullRequest
  <1>4. MergedStay
    BY <1>1, <1>3 DEF MergedStay
  <1>5. Rollbacks' = Rollbacks
    BY <1>3 DEF Rollbacks, IsRollback
  <1>6. TrackedAreMerged'
    BY <1>2, <1>4 DEF TrackedAreMerged, MergedStay
  <1>7. \A r \in Rollbacks :
          r \in PRs /\ pulls'[r].rollbackOf = pulls[r].rollbackOf
    BY <1>3 DEF Rollbacks
  <1>8. RollbackFollowsFailure'
    BY <1>2, <1>5, <1>7 DEF RollbackFollowsFailure
  <1>9. RollbackRestoresPrevious'
    <2>1. /\ FailuresStay /\ FaultsStay
          /\ \A r \in Rollbacks : Restores(r)
      BY <1>2, AllRestore DEF FailuresStay, FaultsStay
    <2>2. ASSUME NEW r \in Rollbacks, r # q PROVE Restores(r)'
      BY <1>2, <1>3, <1>4, <1>7, <2>1, <2>2, RestoresStays
    <2>3. ASSUME q \in Rollbacks PROVE Restores(q)'
      <3>1. /\ Recommended(pulls[q].rollbackOf)
            /\ pulls[q].marker = Restored(pulls[q].rollbackOf)
            /\ pulls[q].target = pulls[pulls[q].rollbackOf].target
        BY <2>1, <2>3 DEF Restores
      <3>2. pulls'[pulls[q].rollbackOf] = pulls[pulls[q].rollbackOf]
        BY <1>2, <1>4, <2>3, <3>1, RollbackOfPR DEF MergedStay, Recommended
      <3>3. Recommended(p) /\ pulls'[p] = pulls[p] /\ Failed(store'[p].status)
        BY <1>2, <1>4 DEF TrackedAreMerged, MergedStay, Recommended, Failed
      <3>4. pulls'[q].head = Restored(p)
        BY <1>1, <1>2 DEF PullRequest
      <3>5. /\ Recommended(pulls[q].rollbackOf)'
            /\ pulls'[q].marker = Restored(pulls[q].rollbackOf)'
            /\ pulls'[q].target = pulls'[pulls[q].rollbackOf].target
            /\ pulls'[q].rollbackOf = pulls[q].rollbackOf
        BY <1>3, <3>1, <3>2 DEF Recommended, Restored
      <3>6. /\ Recommended(p)' /\ pulls'[p].target = pulls'[q].target
            /\ Failed(store'[p].status) /\ pulls'[q].head = Restored(p)'
        BY <1>1, <1>3, <3>3, <3>4 DEF Recommended, Restored
      <3>. QED
        BY <3>5, <3>6 DEF Restores
    <2>. QED
      BY <1>5, <2>2, <2>3 DEF RollbackRestoresPrevious, Restores
  <1>10. OneOpenRollback'
    BY <1>2, <1>3, <1>5 DEF OneOpenRollback, Rollbacks
  <1>. QED
    BY <1>4, <1>6, <1>8, <1>9, <1>10 DEF Linked

(* GitHub did its part, whole or half, and the database does not know. *)
LEMMA LinkedCutOff ==
  ASSUME RollbackInv, UNCHANGED store, faults' # 0,
         NEW p \in PRs, store[p].status = "Degraded", CutOff(p)
  PROVE  Linked' /\ MergedStay
  <1>1. PICK q \in PRs : Rewrites(p, q) \/ PushesUnder(p, q) \/ Creates(p, q)
    BY DEF CutOff
  <1>2. CASE PushesUnder(p, q)
    BY <1>2, LinkedPushesUnder
  <1>3. CASE Rewrites(p, q) \/ Creates(p, q)
    <2>1. TypeOK /\ StoreMoves /\ FaultsStay
      BY DEF RollbackInv, StoreMoves, FaultsStay
    <2>. QED
      BY <1>3, <2>1, ProposedOnGitHub, LinkedRollbackOn
  <1>. QED
    BY <1>1, <1>2, <1>3

LEMMA LinkedDegraded ==
  ASSUME RollbackInv, FaultsStay, NEW p \in PRs, AdvanceDegraded(p)
  PROVE  Linked' /\ MemoryIsCurrent' /\ MergedStay /\ StoreMoves
  <1>1. Advancing(p, {"Degraded"}) /\ TypeOK /\ Linked
    BY DEF AdvanceDegraded, RollbackDue, RollbackInv, Linked
  <1>2. recs[p].status = "Degraded" /\ store[p].status = "Degraded"
    BY <1>1 DEF Advancing, NewestFirst, RollbackInv, MemoryIsCurrent
  <1>3. pulls[p] \in PullRequest /\ recs[p] \in Verification
    BY <1>1 DEF TypeOK
  <1>4. ASSUME NEW n, Answered(p, n) PROVE StoreMoves /\ MemoryIsCurrent'
    <2>. DEFINE rec == [recs[p] EXCEPT
                  !.status = IF n = 0 THEN "RollbackDeclined" ELSE "RollbackProposed",
                  !.rollbackPR = IF n = 0 THEN @ ELSE n]
    <2>1. Failed(rec.status)
      BY <1>3 DEF Failed, Verification
    <2>2. Save(p, rec)
      BY <1>4 DEF Answered, Answer
    <2>3. "None" \notin {"Degraded"} /\ "Skipped" \notin {"Degraded"}
      OBVIOUS
    <2>. HIDE DEF rec
    <2>. QED
      BY <1>1, <2>1, <2>2, <2>3, AdvanceMoves
  <1>5. CASE KeepRollback(p) \/ NoRollback(p)
    <2>1. StoreMoves /\ MemoryIsCurrent' /\ UNCHANGED pulls
      BY <1>4, <1>5 DEF KeepRollback, NoRollback
    <2>. QED
      BY <1>1, <2>1, LinkedSamePulls DEF MergedStay
  <1>6. CASE RewriteRollback(p) \/ CreateRollback(p)
    <2>1. PICK q \in PRs : (Rewrites(p, q) \/ Creates(p, q)) /\ Answered(p, q)
      BY <1>6 DEF RewriteRollback, CreateRollback
    <2>. QED
      BY <1>1, <1>2, <1>4, <2>1, ProposedOnGitHub, LinkedRollbackOn
  <1>7. CASE AnswerLost(p)
    <2>1. CutOff(p) /\ Keep /\ UNCHANGED store /\ faults' # 0
      BY <1>1, <1>7 DEF AnswerLost, Keep, Fault, TypeOK
    <2>. QED
      BY <1>1, <1>2, <2>1, LinkedCutOff, KeepMoves
  <1>. QED
    BY <1>5, <1>6, <1>7 DEF AdvanceDegraded

(* The other steps of advance leave the pull requests alone. *)
LEMMA LinkedAdvance ==
  ASSUME RollbackInv, NEW p \in PRs,
         \/ AdvanceWaiting(p) \/ AdvanceVerifying(p) \/ AdvanceVerified(p)
         \/ AdvanceTerminal(p) \/ CallFails(p)
  PROVE  StoreMoves /\ MemoryIsCurrent' /\ UNCHANGED pulls
  <1>1. recs[p] \in Verification
    BY DEF RollbackInv, TypeOK
  <1>2. ASSUME NEW statuses, Advancing(p, statuses),
               statuses \in {{"WaitingForRollout"}, {"Verifying"}, {"Verified"}},
               NEW rec, Save(p, rec)
        PROVE  StoreMoves /\ MemoryIsCurrent'
    <2>1. /\ "None" \notin statuses /\ "Skipped" \notin statuses
          /\ ~Failed(recs[p].status)
      BY <1>2 DEF Advancing, Failed
    <2>. QED
      BY <1>2, <2>1, AdvanceMoves
  <1>3. CASE AdvanceWaiting(p)
    <2>1. Advancing(p, {"WaitingForRollout"}) /\ UNCHANGED pulls
          /\ (Keep \/ \E rec : Save(p, rec))
      BY <1>3 DEF AdvanceWaiting
    <2>. QED
      BY <1>2, <2>1, KeepMoves
  <1>4. CASE AdvanceVerifying(p)
    <2>1. Advancing(p, {"Verifying"}) /\ UNCHANGED pulls
          /\ \E rec : Save(p, rec)
      BY <1>4 DEF AdvanceVerifying, Degrade, Verify
    <2>. QED
      BY <1>2, <2>1
  <1>5. CASE AdvanceVerified(p)
    <2>1. Advancing(p, {"Verified"}) /\ UNCHANGED pulls
          /\ (Keep \/ \E rec : Save(p, rec))
      BY <1>5 DEF AdvanceVerified, Degrade, Verify
    <2>. QED
      BY <1>2, <2>1, KeepMoves
  <1>6. CASE AdvanceTerminal(p)
    BY <1>6, KeepMoves DEF AdvanceTerminal
  <1>7. CASE CallFails(p)
    BY <1>7, KeepMoves DEF CallFails
  <1>. QED
    BY <1>3, <1>4, <1>5, <1>6, <1>7

(* Humans merge recommendations and merge or close open rollbacks. *)
LEMMA LinkedHumans ==
  ASSUME RollbackInv, UNCHANGED store, FaultsStay,
         \/ \E t \in Targets : MergeChange(t)
         \/ \E q \in PRs : MergeRollback(q) \/ DeclineRollback(q)
  PROVE  Linked' /\ MergedStay
  <1>1. /\ pulls \in [PRs -> PullRequest]
        /\ TypeOK /\ TrackedAreMerged /\ RollbackFollowsFailure
        /\ RollbackRestoresPrevious /\ OneOpenRollback
    BY DEF RollbackInv, TypeOK
  <1>2. PICK q \in PRs :
          /\ \A r \in PRs : r # q => pulls'[r] = pulls[r]
          /\ \/ pulls[q].state = "none" /\ ~IsRollback(pulls'[q])
             \/ /\ pulls[q].state = "open" /\ pulls'[q].state # "open"
                /\ pulls'[q].state # "none"
                /\ pulls'[q].target = pulls[q].target
                /\ pulls'[q].rollbackOf = pulls[q].rollbackOf
                /\ pulls'[q].marker = pulls[q].marker
                /\ pulls'[q].head = pulls[q].head
    <2>1. ASSUME NEW t \in Targets, MergeChange(t)
          PROVE  \E q \in PRs : /\ \A r \in PRs : r # q => pulls'[r] = pulls[r]
                                /\ pulls[q].state = "none"
                                /\ ~IsRollback(pulls'[q])
      <3>1. PICK q \in PRs, v \in Values \ {manifest[t]}, known \in BOOLEAN :
              /\ IsNextNumber(pulls, q)
              /\ pulls' = [pulls EXCEPT ![q] =
                   [state |-> "merged", target |-> t, head |-> v,
                    base |-> manifest[t], marker |-> v,
                    previous |-> manifest[t], previousKnown |-> known,
                    rollbackOf |-> 0, mergedAt |-> clock]]
        BY <2>1 DEF MergeChange
      <3>. QED
        BY <1>1, <3>1 DEF IsNextNumber, IsRollback
    <2>2. ASSUME NEW q \in PRs, MergeRollback(q) \/ DeclineRollback(q)
          PROVE  /\ \A r \in PRs : r # q => pulls'[r] = pulls[r]
                 /\ pulls[q].state = "open" /\ pulls'[q].state # "open"
                 /\ pulls'[q].state # "none"
                 /\ pulls'[q].target = pulls[q].target
                 /\ pulls'[q].rollbackOf = pulls[q].rollbackOf
                 /\ pulls'[q].marker = pulls[q].marker
                 /\ pulls'[q].head = pulls[q].head
      BY <1>1, <2>2 DEF MergeRollback, DeclineRollback, PullRequest
    <2>. QED
      BY <2>1, <2>2
  <1>3. MergedStay
    BY <1>2 DEF MergedStay
  <1>4. Rollbacks' = Rollbacks
    BY <1>2 DEF Rollbacks, IsRollback
  <1>5. \A r \in Rollbacks :
          /\ pulls'[r].target = pulls[r].target
          /\ pulls'[r].rollbackOf = pulls[r].rollbackOf
          /\ pulls'[r].marker = pulls[r].marker
          /\ pulls'[r].head = pulls[r].head
          /\ pulls'[r].state = "open" => pulls[r].state = "open"
    BY <1>2 DEF Rollbacks
  <1>6. TrackedAreMerged'
    BY <1>1, <1>3 DEF TrackedAreMerged, MergedStay
  <1>7. RollbackFollowsFailure'
    BY <1>1, <1>4, <1>5 DEF RollbackFollowsFailure
  <1>8. RollbackRestoresPrevious'
    <2>1. FailuresStay /\ \A r \in Rollbacks : Restores(r)
      BY <1>1, AllRestore DEF FailuresStay
    <2>2. \A r \in Rollbacks : Restores(r)'
      BY <1>1, <1>3, <1>5, <2>1, RestoresStays
    <2>. QED
      BY <1>4, <2>2 DEF RollbackRestoresPrevious, Restores
  <1>9. OneOpenRollback'
    BY <1>1, <1>4, <1>5 DEF OneOpenRollback
  <1>. QED
    BY <1>3, <1>6, <1>7, <1>8, <1>9 DEF Linked

LEMMA StoreStays == UNCHANGED store => StoreMoves
  BY DEF StoreMoves

(* One step preserves what the run remembers and what links the tables. *)
LEMMA RollbackStep ==
  ASSUME RollbackInv, [Next]_vars
  PROVE  /\ ListedAreMerged' /\ MemoryIsCurrent' /\ Linked'
         /\ MergedStay /\ FailuresStay
  <1>1. TypeOK /\ ListedAreMerged /\ MemoryIsCurrent /\ Linked /\ FaultsStay
    BY FaultsGrow DEF RollbackInv, Linked
  <1>2. MergedStay /\ toRecord' \subseteq toRecord => ListedAreMerged'
    BY <1>1 DEF ListedAreMerged, MergedStay, TypeOK
  <1>3. UNCHANGED pulls => MergedStay
    BY DEF MergedStay
  <1>0. StoreMoves => FailuresStay
    BY DEF StoreMoves, FailuresStay
  <1>4. UNCHANGED <<store, pulls>> => Linked' /\ MergedStay /\ FailuresStay
    BY <1>0, <1>1, <1>3, StoreStays, LinkedSamePulls
  <1>5. UNCHANGED <<store, recs, toAdvance, pc>> => MemoryIsCurrent'
    BY <1>1 DEF MemoryIsCurrent
  <1>6. pc' # "advance" => MemoryIsCurrent'
    BY DEF MemoryIsCurrent
  <1>7. CASE StartRun
    BY <1>2, <1>4, <1>6, <1>7 DEF StartRun, services, database
  <1>8. CASE ListMerged
    <2>1. ListedAreMerged'
      BY <1>8 DEF ListMerged, ListedAreMerged, MergedChanges, services
    <2>. QED
      BY <1>4, <1>6, <1>8, <2>1 DEF ListMerged, services, database
  <1>9. CASE Record
    <2>1. UNCHANGED pulls /\ pc' = "record" /\ toRecord' \subseteq toRecord
      BY <1>9 DEF Record, services
    <2>. QED
      BY <1>1, <1>2, <1>3, <1>6, <1>9, <2>1, LinkedRecord
  <1>10. CASE ReadRecords
    <2>1. UNCHANGED <<store, pulls, toRecord>>
      BY <1>10 DEF ReadRecords, services, database
    <2>2. MemoryIsCurrent'
      BY <1>1, <1>10, <2>1, LoadedType DEF ReadRecords, Rows, MemoryIsCurrent
    <2>. QED
      BY <1>2, <1>4, <2>1, <2>2
  <1>11. CASE Advance
    <2>1. PICK p \in PRs :
            \/ AdvanceWaiting(p) \/ AdvanceVerifying(p) \/ AdvanceVerified(p)
            \/ AdvanceDegraded(p) \/ AdvanceTerminal(p) \/ CallFails(p)
      BY <1>11 DEF Advance
    <2>2. toRecord' = toRecord
      BY <2>1 DEF AdvanceWaiting, AdvanceVerifying, AdvanceVerified,
                  AdvanceDegraded, AdvanceTerminal, CallFails, Advancing
    <2>3. CASE AdvanceDegraded(p)
      BY <1>0, <1>1, <1>2, <2>2, <2>3, LinkedDegraded
    <2>4. CASE ~AdvanceDegraded(p)
      <3>1. StoreMoves /\ MemoryIsCurrent' /\ UNCHANGED pulls
        BY <2>1, <2>4, LinkedAdvance
      <3>. QED
        BY <1>0, <1>1, <1>2, <1>3, <2>2, <3>1, LinkedSamePulls
    <2>. QED
      BY <2>3, <2>4
  <1>12. CASE Halts
    BY <1>2, <1>4, <1>6, <1>12 DEF Halts, services
  <1>13. CASE Crash
    <2>1. Dies
      BY <1>13 DEF Crash, CrashBetween, CrashMidway
    <2>2. UNCHANGED store /\ pc' = "idle" /\ toRecord' = {} /\ faults' # 0
      BY <1>1, <2>1 DEF Dies, database, Fault, TypeOK
    <2>3. CASE UNCHANGED pulls
      BY <1>2, <1>4, <1>6, <2>2, <2>3
    <2>4. CASE CrashMidway
      <3>1. PICK p \in PRs : CutOff(p) /\ store[p].status = "Degraded"
        BY <2>4 DEF CrashMidway, RollbackDue, NewestFirst, RollbackInv, MemoryIsCurrent
      <3>2. Linked' /\ MergedStay /\ FailuresStay
        BY <2>2, <3>1, LinkedCutOff DEF FailuresStay
      <3>. QED
        BY <1>2, <1>6, <2>2, <3>2
    <2>. QED
      BY <1>13, <2>3, <2>4 DEF Crash, CrashBetween
  <1>14. CASE Environment
    <2>1. UNCHANGED <<store, recs, toAdvance, pc, toRecord>>
      BY <1>14 DEF Environment, Tick, MergeChange, Sync, Readiness, SetResume,
                   MergeRollback, DeclineRollback, Around, database, memory
    <2>2. CASE UNCHANGED pulls
      BY <1>2, <1>4, <1>5, <2>1, <2>2
    <2>3. CASE pulls' # pulls
      <3>1. \/ \E t \in Targets : MergeChange(t)
            \/ \E q \in PRs : MergeRollback(q) \/ DeclineRollback(q)
        BY <1>14, <2>3 DEF Environment, Tick, Sync, Readiness, SetResume
      <3>. QED
        BY <1>0, <1>1, <1>2, <1>5, <2>1, <3>1, StoreStays, LinkedHumans
    <2>. QED
      BY <2>2, <2>3
  <1>15. CASE UNCHANGED vars
    BY <1>2, <1>4, <1>5, <1>15 DEF vars, services, database, memory
  <1>. QED
    BY <1>7, <1>8, <1>9, <1>10, <1>11, <1>12, <1>13, <1>14, <1>15 DEF Next, Run

LEMMA RollbackInvariant == Spec => []RollbackInv
  <1>1. Init => RollbackInv
    BY InitType, LinkedStart DEF RollbackInv, Linked
  <1>2. RollbackInv /\ TypeOK' /\ [Next]_vars => RollbackInv'
    BY RollbackStep DEF RollbackInv, Linked
  <1>. QED
    BY <1>1, <1>2, TypeCorrect, PTL DEF Spec

(* Every rollback PR belongs to a change whose stored verification failed,
   through any crash and any failed write. *)
THEOREM RollbacksFollowFailures == Spec => []RollbackFollowsFailure
  <1>1. RollbackInv => RollbackFollowsFailure
    BY DEF RollbackInv
  <1>. QED
    BY <1>1, RollbackInvariant, PTL

(* Every rollback PR names a merged recommendation of its workload and the value
   that one replaced; its branch holds that value until something has failed, and
   what a failed recommendation of the workload replaced in any case. *)
THEOREM RollbacksRestorePrevious == Spec => []RollbackRestoresPrevious
  <1>1. RollbackInv => RollbackRestoresPrevious
    BY DEF RollbackInv
  <1>. QED
    BY <1>1, RollbackInvariant, PTL

(* No workload ever has two open rollback PRs. *)
THEOREM AtMostOneOpenRollback == Spec => []OneOpenRollback
  <1>1. RollbackInv => OneOpenRollback
    BY DEF RollbackInv
  <1>. QED
    BY <1>1, RollbackInvariant, PTL

(* A stored failure counts towards halting its workload for good. *)
THEOREM FailuresArePermanent == Spec => FailureIsPermanent
  <1>1. RollbackInv /\ [Next]_vars
        => [\A p \in PRs : Failed(store[p].status) => Failed(store'[p].status)]_vars
    BY RollbackStep DEF FailuresStay
  <1>. QED
    BY <1>1, RollbackInvariant, PTL DEF Spec, FailureIsPermanent

-----------------------------------------------------------------------------
(***************************************************************************)
(* The refinement of Lifecycle.  StatusOf, ProposedOf and UndoneOf are the *)
(* mapping; each step of a run moves the status of one change.             *)
(***************************************************************************)
Mapped == <<StatusOf, ProposedOf, UndoneOf>>

LEMMA SameMap == UNCHANGED <<store, pulls>> => UNCHANGED Mapped
  BY DEF Mapped, StatusOf, ProposedOf, UndoneOf, Rollbacks

LEMMA SameRollbacks == UNCHANGED pulls => UNCHANGED <<ProposedOf, UndoneOf>>
  BY DEF ProposedOf, UndoneOf, Rollbacks

LEMMA StatusWrite ==
  ASSUME TypeOK, NEW p \in PRs, NEW rec, SaveVerification(p, rec)
  PROVE  \/ StatusOf' = StatusOf
         \/ StatusOf' = [StatusOf EXCEPT ![p] = rec.status]
  BY DEF TypeOK, SaveVerification, StatusOf

LEMMA StatusKept == UNCHANGED store => StatusOf' = StatusOf
  BY DEF StatusOf

(* A write to row p alone is a move of change p or a stutter. *)
LEMMA MoveStep ==
  ASSUME TypeOK, NEW p \in PRs, NEW rec, SaveVerification(p, rec),
         UNCHANGED pulls, NEW from, NEW to,
         store[p].status \in from, rec.status \in to
  PROVE  Promise!Move(p, from, to) \/ UNCHANGED Mapped
  <1>1. StatusOf[p] = store[p].status
    BY DEF StatusOf
  <1>. QED
    BY <1>1, StatusWrite, SameRollbacks DEF Promise!Move, Mapped

LEMMA RefineInit == Init => Promise!Init
  <1>. SUFFICES ASSUME Init PROVE Promise!Init
    OBVIOUS
  <1>1. Rollbacks = {}
    BY DEF Init, Rollbacks, NoPulls, NeverOpened
  <1>2. StatusOf = [p \in PRs |-> "None"]
    BY DEF Init, StatusOf, NoRecords, NoRecord
  <1>. QED
    BY <1>1, <1>2 DEF Promise!Init, ProposedOf, UndoneOf

LEMMA RefineRecord ==
  ASSUME RollbackInv, Record
  PROVE  Promise!Next \/ UNCHANGED Mapped
  <1>0. TypeOK /\ UNCHANGED pulls
    BY DEF RollbackInv, Record, services
  <1>1. PICK p \in OldestFirst(toRecord) : RecordChange(p) \/ RecordRollback(p)
    BY DEF Record
  <1>2. p \in PRs /\ pulls[p].state = "merged"
    BY <1>0 DEF OldestFirst, TypeOK, RollbackInv, ListedAreMerged
  <1>3. CASE UNCHANGED store
    BY <1>0, <1>3, SameMap
  <1>4. CASE RecordChange(p) /\ store' # store
    <2>. DEFINE rec == [NoRecord EXCEPT
                  !.status = IF pulls[p].previousKnown THEN "WaitingForRollout"
                                                       ELSE "Skipped"]
    <2>1. store[p].status \in {"None"} /\ SaveVerification(p, rec)
      BY <1>4 DEF RecordChange, IsNew, FirstStatus
    <2>2. rec.status \in {"WaitingForRollout", "Skipped"}
      BY DEF NoRecord
    <2>. HIDE DEF rec
    <2>3. Promise!Move(p, {"None"}, {"WaitingForRollout", "Skipped"})
          \/ UNCHANGED Mapped
      BY <1>0, <1>2, <2>1, <2>2, MoveStep
    <2>. QED
      BY <1>2, <2>3 DEF Promise!Next, Promise!Track
  <1>5. CASE RecordRollback(p) /\ store' # store
    <2>. DEFINE source == pulls[p].rollbackOf
                rec == [store[source] EXCEPT !.status = "RolledBack",
                          !.rollbackPR = p, !.measuredAt = NoTime]
                from == {"Degraded", "RollbackProposed", "RollbackDeclined"}
    <2>1. /\ IsRollback(pulls[p])
          /\ store[source].status # "RolledBack"
          /\ SaveVerification(source, rec)
      BY <1>5 DEF RecordRollback, Settles
    <2>2. p \in Rollbacks
      BY <1>2, <2>1 DEF Rollbacks
    <2>3. source \in PRs /\ Failed(store[source].status)
      BY <1>0, <2>2, RollbackOfPR DEF RollbackInv, RollbackFollowsFailure
    <2>4. source \in UndoneOf
      BY <1>2, <2>2 DEF UndoneOf
    <2>5. rec.status \in {"RolledBack"}
      BY <1>0, <2>3 DEF TypeOK, Verification
    <2>6. store[source].status \in from
      BY <2>1, <2>3 DEF Failed
    <2>. HIDE DEF rec
    <2>7. Promise!Move(source, from, {"RolledBack"}) \/ UNCHANGED Mapped
      BY <1>0, <2>1, <2>3, <2>5, <2>6, MoveStep
    <2>. QED
      BY <2>3, <2>4, <2>7 DEF Promise!Next, Promise!Settle
  <1>. QED
    BY <1>1, <1>3, <1>4, <1>5

LEMMA RefineAdvance ==
  ASSUME RollbackInv, NEW p \in PRs,
         \/ AdvanceWaiting(p) \/ AdvanceVerifying(p) \/ AdvanceVerified(p)
         \/ AdvanceTerminal(p) \/ CallFails(p)
  PROVE  Promise!Next \/ UNCHANGED Mapped
  <1>0. TypeOK /\ UNCHANGED pulls
    BY LinkedAdvance DEF RollbackInv
  <1>1. ASSUME NEW from, NEW to, Advancing(p, from), NEW rec, Save(p, rec),
               rec.status \in to
        PROVE  Promise!Move(p, from, to) \/ UNCHANGED Mapped
    <2>1. store[p].status \in from
      BY <1>1 DEF Advancing, NewestFirst, RollbackInv, MemoryIsCurrent
    <2>. QED
      BY <1>0, <1>1, <2>1, MoveStep DEF Save
  <1>2. ASSUME Keep PROVE UNCHANGED Mapped
    BY <1>0, <1>2, SameMap DEF Keep
  <1>3. recs[p] \in Verification
    BY <1>0 DEF TypeOK
  <1>8. /\ Degrade(p) => \E rec : Save(p, rec) /\ rec.status = "Degraded"
        /\ Verify(p) => \E rec : Save(p, rec) /\ rec.status = "Verified"
    <2>. DEFINE bad == [recs[p] EXCEPT !.status = "Degraded", !.measuredAt = NoTime]
                good == [recs[p] EXCEPT !.status = "Verified", !.measuredAt = runNow]
    <2>1. bad.status = "Degraded" /\ good.status = "Verified"
      BY <1>3 DEF Verification
    <2>2. /\ Degrade(p) => Save(p, bad)
          /\ Verify(p) => Save(p, good)
      BY DEF Degrade, Verify
    <2>. HIDE DEF bad, good
    <2>. QED
      BY <2>1, <2>2
  <1>4. CASE AdvanceWaiting(p)
    <2>. DEFINE to == {"Verifying", "NotDeployed"}
    <2>1. Advancing(p, {"WaitingForRollout"})
      BY <1>4 DEF AdvanceWaiting
    <2>. DEFINE rolledOut == [recs[p] EXCEPT !.status = "Verifying",
                                             !.deployedAt = runNow]
                timedOut == [recs[p] EXCEPT !.status = "NotDeployed"]
    <2>4. rolledOut.status \in to /\ timedOut.status \in to
      BY <1>3 DEF Verification
    <2>5. Keep \/ Save(p, rolledOut) \/ Save(p, timedOut)
      BY <1>4 DEF AdvanceWaiting
    <2>. HIDE DEF rolledOut, timedOut
    <2>2. Keep \/ \E rec : Save(p, rec) /\ rec.status \in to
      BY <2>4, <2>5
    <2>3. Promise!Move(p, {"WaitingForRollout"}, to) \/ UNCHANGED Mapped
      BY <1>1, <1>2, <2>1, <2>2
    <2>. QED
      BY <2>3 DEF Promise!Next, Promise!RollOut
  <1>5. CASE AdvanceVerifying(p)
    <2>1. Advancing(p, {"Verifying"})
      BY <1>5 DEF AdvanceVerifying
    <2>2. CASE Save(p, recs[p])
      <3>1. UNCHANGED store
        BY <2>1, <2>2, <1>0
        DEF Save, SaveVerification, Advancing, NewestFirst, RollbackInv,
            MemoryIsCurrent, TypeOK
      <3>. QED
        BY <1>0, <3>1, SameMap
    <2>3. CASE ~Save(p, recs[p])
      <3>1. \E rec : Save(p, rec) /\ rec.status \in {"Verified", "Degraded"}
        BY <1>5, <1>8, <2>3 DEF AdvanceVerifying
      <3>2. Promise!Move(p, {"Verifying"}, {"Verified", "Degraded"})
            \/ UNCHANGED Mapped
        BY <1>1, <2>1, <3>1
      <3>. QED
        BY <3>2 DEF Promise!Next, Promise!Judge
    <2>. QED
      BY <2>2, <2>3
  <1>6. CASE AdvanceVerified(p)
    <2>1. Advancing(p, {"Verified"})
      BY <1>6 DEF AdvanceVerified
    <2>2. CASE Degrade(p)
      <3>1. \E rec : Save(p, rec) /\ rec.status \in {"Degraded"}
        BY <1>8, <2>2
      <3>2. Promise!Move(p, {"Verified"}, {"Degraded"}) \/ UNCHANGED Mapped
        BY <1>1, <2>1, <3>1
      <3>. QED
        BY <3>2 DEF Promise!Next, Promise!Regress
    <2>3. CASE Verify(p)
      <3>1. recs[p].status = "Verified" /\ store[p] = recs[p]
        BY <2>1 DEF Advancing, NewestFirst, RollbackInv, MemoryIsCurrent
      <3>2. StatusOf[p] = "Verified"
        BY <3>1 DEF StatusOf
      <3>3. StatusOf' = StatusOf \/ StatusOf' = [StatusOf EXCEPT ![p] = "Verified"]
        <4>. DEFINE rec == [recs[p] EXCEPT !.status = "Verified",
                                           !.measuredAt = runNow]
        <4>1. rec.status = "Verified" /\ SaveVerification(p, rec)
          BY <1>3, <2>3 DEF Verification, Verify, Save
        <4>. HIDE DEF rec
        <4>. QED
          BY <1>0, <4>1, StatusWrite
      <3>4. StatusOf' = StatusOf
        BY <3>2, <3>3 DEF StatusOf
      <3>. QED
        BY <1>0, <3>4, SameRollbacks DEF Mapped
    <2>. QED
      BY <1>2, <1>6, <2>2, <2>3 DEF AdvanceVerified
  <1>7. CASE AdvanceTerminal(p) \/ CallFails(p)
    BY <1>2, <1>7 DEF AdvanceTerminal, CallFails
  <1>. QED
    BY <1>4, <1>5, <1>6, <1>7

(* Opening or rewriting a rollback PR for p proposes p, and stops proposing
   at most changes whose rollback is not merged, whether or not the database
   comes to know. *)
LEMMA ProposeStep ==
  ASSUME RollbackInv, NEW p \in PRs, store[p].status = "Degraded",
         NEW q \in PRs, Rewrites(p, q) \/ Creates(p, q),
         StatusOf' \in {StatusOf, [StatusOf EXCEPT ![p] = "RollbackProposed"]}
  PROVE  Promise!Propose(p)
  <1>1. TypeOK /\ pulls \in [PRs -> PullRequest]
    BY DEF RollbackInv, TypeOK
  <1>0. PICK pull \in PullRequest :
          /\ pull.state = "open"
          /\ pulls' = [pulls EXCEPT ![q] = RollbackOn(pull, p)]
          /\ q \in RollbacksOpen(p) \/ pulls[q].state = "none"
    BY <1>1, ProposedOnGitHub
  <1>2. /\ pulls'[q].state = "open" /\ pulls'[q].rollbackOf = p
        /\ pulls[q].state \in {"none", "open"}
    BY <1>0, <1>1 DEF RollbackOn, PullRequest, RollbacksOpen, OpenOn
  <1>3. \A r \in PRs : r # q => pulls'[r] = pulls[r]
    BY <1>0, <1>1
  <1>4. p # 0
    BY PullsAssumption DEF PRs
  <1>5. Rollbacks' = Rollbacks \union {q}
    BY <1>2, <1>3, <1>4 DEF Rollbacks, IsRollback
  <1>6. UndoneOf' = UndoneOf
    <2>0. pulls[q].state # "merged" /\ pulls'[q].state # "merged"
      BY <1>2
    <2>3. \A r \in Rollbacks : r # q => pulls'[r].state = pulls[r].state
      BY <1>3 DEF Rollbacks
    <2>1. {r \in Rollbacks' : pulls'[r].state = "merged"}
            = {r \in Rollbacks : pulls[r].state = "merged"}
      BY <1>5, <2>0, <2>3
    <2>2. \A r \in {x \in Rollbacks : pulls[x].state = "merged"} :
            pulls'[r] = pulls[r]
      BY <1>3, <2>0 DEF Rollbacks
    <2>. QED
      BY <2>1, <2>2 DEF UndoneOf
  <1>7. ProposedOf' = (ProposedOf \ (ProposedOf \ ProposedOf')) \union {p}
    <2>1. p \in ProposedOf'
      BY <1>2, <1>5 DEF ProposedOf
    <2>2. ProposedOf' \subseteq ProposedOf \union {p}
      BY <1>2, <1>3, <1>5 DEF ProposedOf, Rollbacks
    <2>. QED
      BY <2>1, <2>2
  <1>8. (ProposedOf \ ProposedOf') \subseteq ProposedOf \ UndoneOf
    <2>1. UndoneOf' \subseteq ProposedOf'
      BY DEF UndoneOf, ProposedOf
    <2>. QED
      BY <1>6, <2>1
  <1>9. StatusOf[p] = "Degraded"
    BY DEF StatusOf
  <1>. QED
    BY <1>6, <1>7, <1>8, <1>9 DEF Promise!Propose

(* What GitHub did for a degraded change and the database does not know of is a
   proposal, or nothing the lifecycle speaks of. *)
LEMMA RefineCutOff ==
  ASSUME RollbackInv, UNCHANGED store,
         NEW p \in PRs, store[p].status = "Degraded", CutOff(p)
  PROVE  Promise!Next \/ UNCHANGED Mapped
  <1>1. PICK q \in PRs : Rewrites(p, q) \/ PushesUnder(p, q) \/ Creates(p, q)
    BY DEF CutOff
  <1>2. StatusOf' = StatusOf
    BY StatusKept
  <1>3. CASE Rewrites(p, q) \/ Creates(p, q)
    <2>1. Promise!Propose(p)
      BY <1>2, <1>3, ProposeStep
    <2>. QED
      BY <2>1 DEF Promise!Next
  <1>4. CASE PushesUnder(p, q)
    <2>1. pulls' = [pulls EXCEPT ![q].head = Restored(p),
                                 ![q].base = manifest[pulls[p].target]]
      BY <1>4 DEF PushesUnder
    <2>2. pulls \in [PRs -> PullRequest]
      BY DEF RollbackInv, TypeOK
    <2>3. \A r \in PRs : pulls'[r].state = pulls[r].state
                         /\ pulls'[r].rollbackOf = pulls[r].rollbackOf
      BY <2>1, <2>2 DEF PullRequest
    <2>4. Rollbacks' = Rollbacks
      BY <2>3 DEF Rollbacks, IsRollback
    <2>5. ProposedOf' = ProposedOf
      BY <2>3, <2>4 DEF ProposedOf, Rollbacks
    <2>6. UndoneOf' = UndoneOf
      BY <2>3, <2>4 DEF UndoneOf, Rollbacks
    <2>. QED
      BY <1>2, <2>5, <2>6 DEF Mapped
  <1>. QED
    BY <1>1, <1>3, <1>4

LEMMA RefineDegraded ==
  ASSUME RollbackInv, NEW p \in PRs, AdvanceDegraded(p)
  PROVE  Promise!Next \/ UNCHANGED Mapped
  <1>1. Advancing(p, {"Degraded"}) /\ TypeOK
    BY DEF AdvanceDegraded, RollbackDue, RollbackInv
  <1>2. store[p].status \in {"Degraded"} /\ recs[p] \in Verification
    BY <1>1 DEF Advancing, NewestFirst, RollbackInv, MemoryIsCurrent, TypeOK
  <1>. DEFINE to == {"RollbackProposed", "RollbackDeclined"}
  <1>3. ASSUME NEW n, Answered(p, n)
        PROVE  \E rec : /\ SaveVerification(p, rec)
                        /\ rec.status \in to
                        /\ n # 0 => rec.status = "RollbackProposed"
    <2>. DEFINE rec == [recs[p] EXCEPT
                  !.status = IF n = 0 THEN "RollbackDeclined" ELSE "RollbackProposed",
                  !.rollbackPR = IF n = 0 THEN @ ELSE n]
    <2>1. SaveVerification(p, rec)
      BY <1>3 DEF Answered, Answer, Save
    <2>2. rec.status = IF n = 0 THEN "RollbackDeclined" ELSE "RollbackProposed"
      BY <1>2 DEF Verification
    <2>. HIDE DEF rec
    <2>. QED
      BY <2>1, <2>2
  <1>4. CASE KeepRollback(p) \/ NoRollback(p)
    <2>1. UNCHANGED pulls /\ \E n : Answered(p, n)
      BY <1>4 DEF KeepRollback, NoRollback
    <2>2. PICK rec : SaveVerification(p, rec) /\ rec.status \in to
      BY <1>3, <2>1
    <2>3. Promise!Move(p, {"Degraded"}, to) \/ UNCHANGED Mapped
      BY <1>1, <1>2, <2>1, <2>2, MoveStep
    <2>. QED
      BY <2>3 DEF Promise!Next, Promise!Answer
  <1>5. CASE RewriteRollback(p) \/ CreateRollback(p)
    <2>1. PICK q \in PRs : (Rewrites(p, q) \/ Creates(p, q)) /\ Answered(p, q)
      BY <1>5 DEF RewriteRollback, CreateRollback
    <2>2. q # 0
      BY PullsAssumption DEF PRs
    <2>3. PICK rec : SaveVerification(p, rec) /\ rec.status = "RollbackProposed"
      BY <1>3, <2>1, <2>2
    <2>4. StatusOf' \in {StatusOf, [StatusOf EXCEPT ![p] = "RollbackProposed"]}
      BY <1>1, <2>3, StatusWrite
    <2>5. Promise!Propose(p)
      BY <1>2, <2>1, <2>4, ProposeStep
    <2>. QED
      BY <2>5 DEF Promise!Next
  <1>6. CASE AnswerLost(p)
    BY <1>2, <1>6, RefineCutOff DEF AnswerLost, Keep
  <1>. QED
    BY <1>4, <1>5, <1>6 DEF AdvanceDegraded

(* Merging a rollback undoes the change it names; nothing else humans do is
   visible to the lifecycle. *)
LEMMA RefineHumans ==
  ASSUME RollbackInv, UNCHANGED store,
         \/ \E t \in Targets : MergeChange(t)
         \/ \E q \in PRs : MergeRollback(q) \/ DeclineRollback(q)
  PROVE  Promise!Next \/ UNCHANGED Mapped
  <1>1. pulls \in [PRs -> PullRequest] /\ TypeOK
    BY DEF RollbackInv, TypeOK
  <1>2. StatusOf' = StatusOf
    BY StatusKept
  <1>3. ASSUME NEW t \in Targets, MergeChange(t) PROVE UNCHANGED Mapped
    <2>1. PICK q \in PRs, v \in Values \ {manifest[t]}, known \in BOOLEAN :
            /\ IsNextNumber(pulls, q)
            /\ pulls' = [pulls EXCEPT ![q] =
                 [state |-> "merged", target |-> t, head |-> v,
                  base |-> manifest[t], marker |-> v,
                  previous |-> manifest[t], previousKnown |-> known,
                  rollbackOf |-> 0, mergedAt |-> clock]]
      BY <1>3 DEF MergeChange
    <2>2. /\ pulls[q].state = "none" /\ ~IsRollback(pulls'[q])
          /\ \A r \in PRs : r # q => pulls'[r] = pulls[r]
      BY <1>1, <2>1 DEF IsNextNumber, IsRollback
    <2>3. Rollbacks' = Rollbacks /\ \A r \in Rollbacks : pulls'[r] = pulls[r]
      BY <2>2 DEF Rollbacks
    <2>. QED
      BY <1>2, <2>3 DEF Mapped, ProposedOf, UndoneOf
  <1>4. ASSUME NEW q \in PRs, MergeRollback(q) \/ DeclineRollback(q)
        PROVE  Promise!Next \/ UNCHANGED Mapped
    <2>1. /\ \A r \in PRs : r # q => pulls'[r] = pulls[r]
          /\ pulls[q].state = "open"
          /\ pulls'[q].rollbackOf = pulls[q].rollbackOf
          /\ pulls'[q].state \in {"merged", "declined"}
      BY <1>1, <1>4 DEF MergeRollback, DeclineRollback, PullRequest
    <2>2. Rollbacks' = Rollbacks
      BY <2>1 DEF Rollbacks, IsRollback
    <2>3. \A r \in Rollbacks : pulls'[r].rollbackOf = pulls[r].rollbackOf
      BY <2>1 DEF Rollbacks
    <2>4. ProposedOf' = ProposedOf
      BY <2>2, <2>3 DEF ProposedOf
    <2>. DEFINE Merged == {r \in Rollbacks : pulls[r].state = "merged"}
    <2>5. CASE q \in Rollbacks /\ pulls'[q].state = "merged"
      <3>1. Merged' = Merged \union {q}
        BY <2>1, <2>2, <2>5 DEF Rollbacks
      <3>2. UndoneOf' = UndoneOf \union {pulls[q].rollbackOf}
        <4>1. \A r \in Merged : r \in Rollbacks
          OBVIOUS
        <4>2. UndoneOf' = {pulls'[r].rollbackOf : r \in Merged'}
          BY DEF UndoneOf
        <4>3. UndoneOf = {pulls[r].rollbackOf : r \in Merged}
          BY DEF UndoneOf
        <4>. HIDE DEF Merged
        <4>. QED
          BY <2>1, <2>3, <3>1, <4>1, <4>2, <4>3
      <3>3. pulls[q].rollbackOf \in PRs /\ pulls[q].rollbackOf \in ProposedOf
        BY <1>1, <2>5, RollbackOfPR DEF ProposedOf
      <3>4. Promise!Undo(pulls[q].rollbackOf)
        BY <1>2, <2>4, <3>2, <3>3 DEF Promise!Undo
      <3>. QED
        BY <3>3, <3>4 DEF Promise!Next
    <2>6. CASE ~(q \in Rollbacks /\ pulls'[q].state = "merged")
      <3>1. Merged' = Merged
        BY <2>1, <2>2, <2>6 DEF Rollbacks
      <3>2. UndoneOf' = UndoneOf
        BY <2>3, <3>1 DEF UndoneOf
      <3>. QED
        BY <1>2, <2>4, <3>2 DEF Mapped
    <2>. QED
      BY <2>5, <2>6
  <1>. QED
    BY <1>3, <1>4

LEMMA RefineStep ==
  ASSUME RollbackInv, [Next]_vars
  PROVE  Promise!Next \/ UNCHANGED Mapped
  <1>1. CASE UNCHANGED <<store, pulls>>
    BY <1>1, SameMap
  <1>2. CASE Record
    BY <1>2, RefineRecord
  <1>3. CASE Advance
    <2>1. PICK p \in PRs :
            \/ AdvanceWaiting(p) \/ AdvanceVerifying(p) \/ AdvanceVerified(p)
            \/ AdvanceDegraded(p) \/ AdvanceTerminal(p) \/ CallFails(p)
      BY <1>3 DEF Advance
    <2>. QED
      BY <2>1, RefineAdvance, RefineDegraded
  <1>4. CASE /\ UNCHANGED store
             /\ \/ \E t \in Targets : MergeChange(t)
                \/ \E q \in PRs : MergeRollback(q) \/ DeclineRollback(q)
    BY <1>4, RefineHumans
  <1>5. CASE StartRun \/ ListMerged \/ ReadRecords \/ Halts \/ CrashBetween
    BY <1>1, <1>5 DEF StartRun, ListMerged, ReadRecords, Halts, CrashBetween,
                      Dies, services, database
  <1>8. CASE CrashMidway
    <2>1. PICK p \in PRs : CutOff(p) /\ store[p].status = "Degraded"
      BY <1>8 DEF CrashMidway, RollbackDue, NewestFirst, RollbackInv, MemoryIsCurrent
    <2>. QED
      BY <1>8, <2>1, RefineCutOff DEF CrashMidway, Dies, database
  <1>6. CASE Environment
    <2>1. UNCHANGED store
      BY <1>6 DEF Environment, Tick, MergeChange, Sync, Readiness, SetResume,
                  MergeRollback, DeclineRollback, Around, database
    <2>2. CASE UNCHANGED pulls
      BY <1>1, <2>1, <2>2
    <2>3. CASE pulls' # pulls
      BY <1>4, <1>6, <2>1, <2>3 DEF Environment, Tick, Sync, Readiness, SetResume
    <2>. QED
      BY <2>2, <2>3
  <1>7. CASE UNCHANGED vars
    BY <1>1, <1>7 DEF vars, services, database
  <1>. QED
    BY <1>2, <1>3, <1>5, <1>6, <1>7, <1>8 DEF Next, Run, Crash

(* The verifier, with its database, retries and restarts, implements the
   lifecycle: statuses in order, rollbacks only of degraded changes, and
   "RolledBack" only after the merge of a rollback. *)
THEOREM VerifierImplementsLifecycle == Spec => ImplementsLifecycle
  <1>1. Init => Promise!Init
    BY RefineInit
  <1>2. RollbackInv /\ [Next]_vars => [Promise!Next]_(Promise!vars)
    BY RefineStep DEF Mapped, Promise!vars
  <1>. QED
    BY <1>1, <1>2, RollbackInvariant, PTL
    DEF Spec, ImplementsLifecycle, Promise!Spec
=============================================================================
