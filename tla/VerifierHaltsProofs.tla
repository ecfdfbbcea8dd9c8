------------------------ MODULE VerifierHaltsProofs ------------------------
(***************************************************************************)
(* More proofs about Verifier.tla: how long verdicts take, what halts rest *)
(* on when the database takes every write, and how often a change can be   *)
(* rolled back.  All of them build on RollbackInv, the invariant of        *)
(* VerifierProofs.                                                         *)
(***************************************************************************)
EXTENDS VerifierProofs, FiniteSetTheorems

(* The row a step of advance changes is the row it advances, which is the one
   in the database. *)
LEMMA AdvancedRow ==
  ASSUME RollbackInv, NEW p \in PRs, NEW statuses, Advancing(p, statuses)
  PROVE  /\ pc = "advance" /\ p \in toAdvance
         /\ recs[p] = store[p] /\ store[p] \in Verification
         /\ store[p].status \in statuses
  BY DEF Advancing, NewestFirst, RollbackInv, MemoryIsCurrent, TypeOK

(* Row p is advanced from one status to another, in memory at least. *)
Moves(p, from, to) ==
  \E rec : Advancing(p, {from}) /\ Save(p, rec) /\ rec.status = to

LEMMA MovesTo ==
  ASSUME NEW p, NEW from, NEW to, Advancing(p, {from}), NEW rec, Save(p, rec),
         rec.status = to
  PROVE  Moves(p, from, to)
  BY DEF Moves

(* The rows Degrade and Verify save. *)
LEMMA JudgedStatus ==
  ASSUME NEW p \in PRs, recs[p] \in Verification
  PROVE  /\ Degrade(p) => \E rec : Save(p, rec) /\ rec.status = "Degraded"
         /\ Verify(p) => \E rec : Save(p, rec) /\ rec.status = "Verified"
  <1>. DEFINE degraded == [recs[p] EXCEPT !.status = "Degraded",
                                          !.measuredAt = NoTime]
              verified == [recs[p] EXCEPT !.status = "Verified",
                                          !.measuredAt = runNow]
  <1>1. degraded.status = "Degraded" /\ verified.status = "Verified"
    BY DEF Verification
  <1>2. /\ Degrade(p) => Save(p, degraded)
        /\ Verify(p) => Save(p, verified)
    BY DEF Degrade, Verify
  <1>. HIDE DEF degraded, verified
  <1>. QED
    BY <1>1, <1>2

(* What a step of advance can do to row p: see the switch in advance. *)
LEMMA RowAfterAdvance ==
  ASSUME RollbackInv, NEW p \in PRs,
         \/ AdvanceWaiting(p) \/ AdvanceVerifying(p) \/ AdvanceVerified(p)
         \/ AdvanceDegraded(p) \/ AdvanceTerminal(p) \/ CallFails(p)
  PROVE  \/ UNCHANGED <<store, recs>>
         \/ Moves(p, "WaitingForRollout", "Verifying")
         \/ Moves(p, "WaitingForRollout", "NotDeployed") /\ TimedOut(p)
         \/ Moves(p, "Verifying", "Degraded")
         \/ Moves(p, "Verifying", "Verified") /\ Final(p)
         \/ Moves(p, "Verifying", "Verifying")
         \/ Moves(p, "Verified", "Degraded") /\ RecheckTime(p)
         \/ Moves(p, "Verified", "Verified") /\ RecheckTime(p)
         \/ Moves(p, "Degraded", "RollbackProposed")
         \/ Moves(p, "Degraded", "RollbackDeclined")
  <1>1. recs[p] \in Verification
    BY DEF RollbackInv, TypeOK
  <1>2. CASE AdvanceWaiting(p)
    <2>. DEFINE verifying == [recs[p] EXCEPT !.status = "Verifying",
                                             !.deployedAt = runNow]
                given == [recs[p] EXCEPT !.status = "NotDeployed"]
    <2>1. Advancing(p, {"WaitingForRollout"})
      BY <1>2 DEF AdvanceWaiting
    <2>2. verifying.status = "Verifying" /\ given.status = "NotDeployed"
      BY <1>1 DEF Verification
    <2>3. Save(p, verifying) \/ (Save(p, given) /\ TimedOut(p)) \/ Keep
      BY <1>2 DEF AdvanceWaiting
    <2>. HIDE DEF verifying, given
    <2>. QED
      BY <2>1, <2>2, <2>3, MovesTo DEF Keep
  <1>3. CASE AdvanceVerifying(p)
    <2>1. Advancing(p, {"Verifying"}) /\ recs[p].status = "Verifying"
      BY <1>3, AdvancedRow DEF AdvanceVerifying
    <2>2. Degrade(p) \/ (Verify(p) /\ Final(p)) \/ Save(p, recs[p])
      BY <1>3 DEF AdvanceVerifying
    <2>. QED
      BY <1>1, <2>1, <2>2, JudgedStatus, MovesTo
  <1>4. CASE AdvanceVerified(p)
    <2>1. Advancing(p, {"Verified"})
      BY <1>4 DEF AdvanceVerified
    <2>2. ((Degrade(p) \/ Verify(p)) /\ RecheckTime(p)) \/ Keep
      BY <1>4 DEF AdvanceVerified
    <2>. QED
      BY <1>1, <2>1, <2>2, JudgedStatus, MovesTo DEF Keep
  <1>5. CASE AdvanceDegraded(p)
    <2>1. Advancing(p, {"Degraded"})
      BY <1>5 DEF AdvanceDegraded, RollbackDue
    <2>2. PICK q : Answered(p, q) \/ Keep
      BY <1>5 DEF AdvanceDegraded, KeepRollback, NoRollback, RewriteRollback,
                  CreateRollback, AnswerLost
    <2>. DEFINE rec == [recs[p] EXCEPT !.status = Answer(q),
                                       !.rollbackPR = IF q = 0 THEN @ ELSE q]
    <2>3. rec.status \in {"RollbackProposed", "RollbackDeclined"}
      BY <1>1 DEF Verification, Answer
    <2>4. Save(p, rec) \/ Keep
      BY <2>2 DEF Answered
    <2>. HIDE DEF rec
    <2>. QED
      BY <2>1, <2>3, <2>4, MovesTo DEF Keep
  <1>6. CASE AdvanceTerminal(p) \/ CallFails(p)
    BY <1>6 DEF AdvanceTerminal, CallFails, Keep
  <1>. QED
    BY <1>2, <1>3, <1>4, <1>5, <1>6

(* Recording starts a row, settles one, or leaves the table alone. *)
LEMMA RowAfterRecord ==
  ASSUME RollbackInv, Record
  PROVE  \/ UNCHANGED store
         \/ \E p \in PRs : /\ store[p].status = "None"
                           /\ store' = [store EXCEPT ![p] =
                                [NoRecord EXCEPT !.status = FirstStatus(p)]]
         \/ \E p \in PRs : \E rec :
              /\ store[p].status \notin {"None", "RolledBack"}
              /\ rec.status = "RolledBack"
              /\ store' = [store EXCEPT ![p] = rec]
  <1>1. PICK p \in OldestFirst(toRecord) : RecordChange(p) \/ RecordRollback(p)
    BY DEF Record
  <1>2. p \in PRs /\ TypeOK
    BY DEF OldestFirst, RollbackInv, TypeOK
  <1>3. CASE RecordChange(p)
    BY <1>2, <1>3 DEF RecordChange, SaveVerification, IsNew
  <1>4. CASE RecordRollback(p)
    <2>. DEFINE source == pulls[p].rollbackOf
    <2>1. CASE Settles(source)
      <3>1. source \in PRs
        <4>1. pulls[p].state = "merged" /\ IsRollback(pulls[p])
          BY <1>1, <1>4 DEF RollbackInv, ListedAreMerged, OldestFirst, RecordRollback
        <4>. QED
          BY <1>2, <4>1, RollbackOfPR DEF Rollbacks
      <3>2. store[source] \in Verification
        BY <1>2, <3>1 DEF TypeOK
      <3>. QED
        BY <1>2, <1>4, <2>1, <3>1, <3>2
           DEF RecordRollback, Settles, SaveVerification, Verification
    <2>2. CASE ~Settles(source)
      BY <1>4, <2>2 DEF RecordRollback
    <2>. QED
      BY <2>1, <2>2
  <1>. QED
    BY <1>1, <1>3, <1>4

(* The table is written by Record and Advance only. *)
LEMMA OthersKeepTheTable ==
  ASSUME [Next]_vars, ~Record, ~Advance
  PROVE  UNCHANGED store
  BY DEF Next, Run, StartRun, ListMerged, ReadRecords, Halts, Crash, CrashBetween,
         CrashMidway, Dies, Environment, Tick, MergeChange, MergeRollback,
         DeclineRollback, Sync, Readiness, SetResume, Around, database, vars

-----------------------------------------------------------------------------
(* How long verdicts take.  A run works with the time it started at, which is
   in the past, and nothing was merged before the clock started. *)

RunIsPast == pc # "idle" => runNow <= clock

MergesAreTimed ==
  /\ clock > NoTime
  /\ \A p \in PRs : pulls[p].state = "merged" => pulls[p].mergedAt > NoTime

ClockInv == RunIsPast /\ MergesAreTimed

(* The agent merges nothing itself. *)
LEMMA CallsMergeNothing ==
  ASSUME TypeOK, NEW p \in PRs, NEW q \in PRs,
         Rewrites(p, q) \/ PushesUnder(p, q) \/ Creates(p, q), NEW r \in PRs
  PROVE  pulls'[r].state = "merged" => pulls[r].state = "merged" /\ pulls'[r] = pulls[r]
  <1>1. pulls \in [PRs -> PullRequest]
    BY DEF TypeOK
  <1>2. CASE Rewrites(p, q) \/ Creates(p, q)
    <2>1. PICK pull \in PullRequest :
            pull.state = "open" /\ pulls' = [pulls EXCEPT ![q] = RollbackOn(pull, p)]
      BY <1>2, ProposedOnGitHub
    <2>2. RollbackOn(pull, p).state = "open"
      BY <2>1 DEF RollbackOn, PullRequest
    <2>. QED
      BY <1>1, <2>1, <2>2
  <1>3. CASE PushesUnder(p, q)
    <2>1. /\ pulls' = [pulls EXCEPT ![q].head = Restored(p),
                                    ![q].base = manifest[pulls[p].target]]
          /\ pulls[q].state = "open"
      BY <1>3 DEF PushesUnder, RollbacksOpen, OpenOn
    <2>2. pulls'[q].state = "open"
      BY <1>1, <2>1 DEF PullRequest
    <2>. QED
      BY <1>1, <2>1, <2>2
  <1>. QED
    BY <1>2, <1>3

LEMMA AgentMergesNothing ==
  ASSUME TypeOK, NEW p \in PRs, AdvanceDegraded(p) \/ CutOff(p), NEW r \in PRs
  PROVE  pulls'[r].state = "merged" => pulls[r].state = "merged" /\ pulls'[r] = pulls[r]
  <1>1. \/ UNCHANGED pulls
        \/ \E q \in PRs : Rewrites(p, q) \/ PushesUnder(p, q) \/ Creates(p, q)
    BY DEF AdvanceDegraded, KeepRollback, NoRollback, RewriteRollback,
           CreateRollback, AnswerLost, CutOff
  <1>. QED
    BY <1>1, CallsMergeNothing

LEMMA ClockStart == Init => ClockInv
  BY DEF Init, ClockInv, RunIsPast, MergesAreTimed, NoPulls, NeverOpened, NoTime

LEMMA ClockStep ==
  ASSUME RollbackInv, ClockInv, [Next]_vars
  PROVE  ClockInv'
  <1>1. /\ TypeOK /\ clock \in Nat /\ pulls \in [PRs -> PullRequest]
        /\ RunIsPast /\ MergesAreTimed
    BY DEF RollbackInv, TypeOK, ClockInv
  <1>2. UNCHANGED <<clock, pulls>> => MergesAreTimed'
    BY <1>1 DEF MergesAreTimed
  <1>3. UNCHANGED <<clock, pc, runNow>> \/ pc' = "idle" => RunIsPast'
    BY <1>1 DEF RunIsPast
  <1>4. CASE StartRun
    BY <1>1, <1>2, <1>4 DEF StartRun, services, RunIsPast, ClockInv
  <1>5. CASE ListMerged \/ Record \/ ReadRecords
    <2>1. UNCHANGED <<clock, pulls>>
      BY <1>5 DEF ListMerged, Record, ReadRecords, services
    <2>2. pc # "idle" /\ (runNow' = runNow \/ pc' = "idle")
      BY <1>5 DEF ListMerged, Record, ReadRecords
    <2>. QED
      BY <1>1, <1>2, <2>1, <2>2 DEF ClockInv, RunIsPast
  <1>6. CASE Advance
    <2>1. PICK p \in PRs :
            \/ AdvanceWaiting(p) \/ AdvanceVerifying(p) \/ AdvanceVerified(p)
            \/ AdvanceDegraded(p) \/ AdvanceTerminal(p) \/ CallFails(p)
      BY <1>6 DEF Advance
    <2>2. UNCHANGED <<clock, pc, runNow>>
      BY <2>1 DEF AdvanceWaiting, AdvanceVerifying, AdvanceVerified,
                  AdvanceDegraded, AdvanceTerminal, CallFails, Advancing
    <2>3. CASE AdvanceDegraded(p)
      BY <1>1, <1>3, <2>2, <2>3, AgentMergesNothing DEF ClockInv, MergesAreTimed
    <2>4. CASE ~AdvanceDegraded(p)
      BY <1>2, <1>3, <2>1, <2>2, <2>4, LinkedAdvance DEF ClockInv
    <2>. QED
      BY <2>3, <2>4
  <1>7. CASE Halts
    BY <1>2, <1>3, <1>7 DEF Halts, services, ClockInv
  <1>10. CASE Crash
    <2>1. UNCHANGED clock /\ pc' = "idle"
      BY <1>10 DEF Crash, CrashBetween, CrashMidway, Dies
    <2>2. UNCHANGED pulls \/ \E p \in PRs : CutOff(p)
      BY <1>10 DEF Crash, CrashBetween, CrashMidway
    <2>3. MergesAreTimed'
      BY <1>1, <1>2, <2>1, <2>2, AgentMergesNothing DEF MergesAreTimed
    <2>. QED
      BY <1>3, <2>1, <2>3 DEF ClockInv
  <1>8. CASE Environment
    <2>0. UNCHANGED <<pc, runNow>> /\ (Tick \/ UNCHANGED clock)
      BY <1>8 DEF Environment, MergeChange, Sync, Readiness, SetResume,
                  MergeRollback, DeclineRollback, Around, memory, Tick
    <2>1. clock' \in Nat /\ clock' >= clock
      BY <1>1, <2>0 DEF Tick
    <2>2. runNow \in Nat
      BY <1>1 DEF TypeOK
    <2>3. RunIsPast'
      BY <1>1, <2>0, <2>1, <2>2 DEF RunIsPast
    <2>4. \A q \in PRs : \/ pulls'[q] = pulls[q]
                         \/ pulls'[q].state # "merged"
                         \/ pulls'[q].mergedAt = clock
      <3>1. ASSUME NEW t \in Targets, MergeChange(t), NEW q \in PRs
            PROVE  pulls'[q] = pulls[q] \/ pulls'[q].mergedAt = clock
        <4>1. PICK r \in PRs, v \in Values \ {manifest[t]}, known \in BOOLEAN :
                pulls' = [pulls EXCEPT ![r] =
                  [state |-> "merged", target |-> t, head |-> v,
                   base |-> manifest[t], marker |-> v,
                   previous |-> manifest[t], previousKnown |-> known,
                   rollbackOf |-> 0, mergedAt |-> clock]]
          BY <3>1 DEF MergeChange
        <4>. QED
          BY <1>1, <4>1
      <3>2. ASSUME NEW r \in PRs, MergeRollback(r) \/ DeclineRollback(r), NEW q \in PRs
            PROVE  \/ pulls'[q] = pulls[q]
                   \/ pulls'[q].state # "merged"
                   \/ pulls'[q].mergedAt = clock
        BY <1>1, <3>2 DEF MergeRollback, DeclineRollback, PullRequest
      <3>. QED
        BY <1>8, <3>1, <3>2 DEF Environment, Tick, Sync, Readiness, SetResume
    <2>5. MergesAreTimed'
      BY <1>1, <2>1, <2>4 DEF MergesAreTimed, NoTime
    <2>. QED
      BY <2>3, <2>5 DEF ClockInv
  <1>9. CASE UNCHANGED vars
    BY <1>2, <1>3, <1>9 DEF vars, services, memory, ClockInv
  <1>. QED
    BY <1>4, <1>5, <1>6, <1>7, <1>8, <1>9, <1>10 DEF Next, Run

LEMMA ClockInvariant == Spec => [](RollbackInv /\ ClockInv)
  BY ClockStart, ClockStep, RollbackInvariant, PTL DEF Spec

(* The verdicts of VerdictsTakeTheirTime. *)
InTime(p) ==
  /\ store[p].status = "Verifying" /\ store'[p].status = "Verified"
     => clock >= store[p].deployedAt + Window
  /\ store[p].status # "NotDeployed" /\ store'[p].status = "NotDeployed"
     => clock > pulls[p].mergedAt + RolloutTimeout
  /\ /\ store[p].status = "Verified" /\ store'[p] # store[p]
     /\ store'[p].status # "RolledBack"
     => /\ RecheckInterval > 0
        /\ clock >= store[p].measuredAt + RecheckInterval

LEMMA VerdictInTime ==
  ASSUME RollbackInv, ClockInv, [Next]_vars, NEW p \in PRs
  PROVE  InTime(p)
  <1>1. /\ TypeOK /\ store \in [PRs -> Verification]
        /\ pulls \in [PRs -> PullRequest] /\ clock \in Nat /\ runNow \in Nat
    BY DEF RollbackInv, TypeOK
  <1>2. CASE store'[p] = store[p]
    BY <1>2 DEF InTime
  <1>3. CASE Record
    <2>1. NoRecord \in Verification
      BY NoRecordType
    <2>2. \A q \in PRs : [NoRecord EXCEPT !.status = FirstStatus(q)].status
                         \in {"WaitingForRollout", "Skipped"}
      BY <2>1 DEF Verification, FirstStatus
    <2>. QED
      BY <1>1, <1>2, <1>3, <2>2, RowAfterRecord DEF InTime
  <1>4. CASE Advance
    <2>1. PICK q \in PRs :
            \/ AdvanceWaiting(q) \/ AdvanceVerifying(q) \/ AdvanceVerified(q)
            \/ AdvanceDegraded(q) \/ AdvanceTerminal(q) \/ CallFails(q)
      BY <1>4 DEF Advance
    <2>2. ASSUME NEW from, NEW to, Moves(q, from, to), q = p,
                 store'[p] # store[p]
          PROVE  /\ store[p].status = from /\ store'[p].status = to
                 /\ recs[p] = store[p] /\ runNow <= clock
      <3>1. PICK rec : Advancing(p, {from}) /\ Save(p, rec) /\ rec.status = to
        BY <2>2 DEF Moves
      <3>2. recs[p] = store[p] /\ store[p].status = from /\ pc = "advance"
        BY <3>1, AdvancedRow
      <3>3. store' = [store EXCEPT ![p] = rec]
        BY <2>2, <3>1 DEF Save, SaveVerification
      <3>. QED
        BY <1>1, <3>1, <3>2, <3>3 DEF ClockInv, RunIsPast
    <2>3. CASE q = p
      <3>1. \A from, to : Moves(p, from, to) /\ store'[p] # store[p]
              => /\ store[p].status = from /\ store'[p].status = to
                 /\ recs[p] = store[p] /\ runNow <= clock
        BY <2>2, <2>3
      <3>2. CASE UNCHANGED store
        BY <1>2, <3>2
      <3>3. CASE Moves(p, "WaitingForRollout", "NotDeployed") /\ TimedOut(p)
        <4>1. runNow > pulls[p].mergedAt + RolloutTimeout /\ pulls[p].mergedAt \in Nat
              /\ RolloutTimeout \in Nat
          BY <1>1, <3>3, VerifierAssumption DEF TimedOut, PullRequest
        <4>. QED
          BY <1>1, <1>2, <3>1, <3>3, <4>1 DEF InTime
      <3>4. CASE Moves(p, "Verifying", "Verified") /\ Final(p)
        <4>1. CASE store'[p] # store[p]
          <5>1. /\ runNow >= store[p].deployedAt + Window /\ runNow <= clock
                /\ store[p].status = "Verifying" /\ store'[p].status = "Verified"
                /\ store[p].deployedAt \in Nat /\ Window \in Nat
            BY <1>1, <3>1, <3>4, <4>1, VerifierAssumption DEF Final, Verification
          <5>. QED
            BY <1>1, <5>1 DEF InTime
        <4>. QED
          BY <1>2, <4>1
      <3>5. CASE /\ Moves(p, "Verified", "Degraded") \/ Moves(p, "Verified", "Verified")
                 /\ RecheckTime(p)
        <4>1. CASE store'[p] # store[p]
          <5>1. /\ RecheckInterval > 0 /\ RecheckInterval \in Nat
                /\ runNow >= store[p].measuredAt + RecheckInterval /\ runNow <= clock
                /\ store[p].status = "Verified" /\ store'[p].status # "NotDeployed"
                /\ store[p].measuredAt \in Nat
            BY <1>1, <3>1, <3>5, <4>1, VerifierAssumption DEF RecheckTime, Verification
          <5>. QED
            BY <1>1, <5>1 DEF InTime
        <4>. QED
          BY <1>2, <4>1
      <3>. QED
        BY <1>2, <2>1, <2>3, <3>1, <3>2, <3>3, <3>4, <3>5, RowAfterAdvance DEF InTime
    <2>4. CASE q # p
      <3>1. UNCHANGED store \/ \E rec : Save(q, rec)
        BY <2>1, RowAfterAdvance DEF Moves
      <3>. QED
        BY <1>1, <1>2, <2>4, <3>1 DEF Save, SaveVerification
    <2>. QED
      BY <2>3, <2>4
  <1>. QED
    BY <1>2, <1>3, <1>4, OthersKeepTheTable

(* No change is found verified, given up or measured again before its time,
   whatever the windows, timeouts and intervals and however long a run takes:
   for all parameters and failures. *)
THEOREM VerdictsAreInTime == Spec => VerdictsTakeTheirTime
  <1>1. RollbackInv /\ ClockInv /\ [Next]_vars
        => [\A p \in PRs :
              /\ store[p].status = "Verifying" /\ store'[p].status = "Verified"
                 => clock >= store[p].deployedAt + Window
              /\ store[p].status # "NotDeployed" /\ store'[p].status = "NotDeployed"
                 => clock > pulls[p].mergedAt + RolloutTimeout
              /\ /\ store[p].status = "Verified" /\ store'[p] # store[p]
                 /\ store'[p].status # "RolledBack"
                 => /\ RecheckInterval > 0
                    /\ clock >= store[p].measuredAt + RecheckInterval]_vars
    BY VerdictInTime DEF InTime
  <1>. QED
    BY <1>1, ClockInvariant, PTL DEF Spec, VerdictsTakeTheirTime

(* What a run has still to advance is what the database holds. *)
THEOREM RunsWorkOnTheTable == Spec => []MemoryIsCurrent
  <1>1. RollbackInv => MemoryIsCurrent
    BY DEF RollbackInv
  <1>. QED
    BY <1>1, RollbackInvariant, PTL

-----------------------------------------------------------------------------
(***************************************************************************)
(* Halts.  They are counted from the rows in memory and persisted beside   *)
(* the table, so what they rest on depends on two things: no write of a    *)
(* row fails (RowsAreStored), and a run reads every row (AllAreRead).      *)
(***************************************************************************)
RowsAreStored ==
  pc = "advance" => \A p \in PRs : recs[p].status \in {"None", store[p].status}

AllAreRead ==
  pc = "advance" => \A p \in Stored : recs[p].status # "None"

(* A saved row is changed in memory and in the table alike. *)
LEMMA SavedRows ==
  ASSUME RollbackInv, "save" \notin Faults, Advance
  PROVE  \E p \in toAdvance :
           /\ p \in PRs /\ recs[p] = store[p] /\ recs'[p] = store'[p]
           /\ \A q \in PRs \ {p} : recs'[q] = recs[q] /\ store'[q] = store[q]
  <1>1. PICK p \in PRs :
          \/ AdvanceWaiting(p) \/ AdvanceVerifying(p) \/ AdvanceVerified(p)
          \/ AdvanceDegraded(p) \/ AdvanceTerminal(p) \/ CallFails(p)
    BY DEF Advance
  <1>2. /\ store \in [PRs -> Verification] /\ recs \in [PRs -> Verification]
    BY DEF RollbackInv, TypeOK
  <1>3. p \in toAdvance /\ recs[p] = store[p]
    <2>1. \E statuses : Advancing(p, statuses)
      BY <1>1 DEF AdvanceWaiting, AdvanceVerifying, AdvanceVerified,
                  AdvanceDegraded, AdvanceTerminal, CallFails
    <2>. QED
      BY <2>1, AdvancedRow
  <1>4. UNCHANGED <<store, recs>> \/ \E rec : Save(p, rec)
    BY <1>1, RowAfterAdvance DEF Moves
  <1>5. ASSUME NEW rec, Save(p, rec)
        PROVE  recs' = [recs EXCEPT ![p] = rec] /\ store' = [store EXCEPT ![p] = rec]
    BY <1>5 DEF Save, SaveVerification, Fault
  <1>. QED
    BY <1>2, <1>3, <1>4, <1>5

(* Other steps leave the rows in memory alone, read them or drop them. *)
LEMMA OthersKeepTheRows ==
  ASSUME [Next]_vars, ~Advance, ~ReadRecords
  PROVE  pc' # "advance" \/ UNCHANGED <<pc, store, recs>>
  BY DEF Next, Run, StartRun, ListMerged, Record, Halts, Crash, CrashBetween,
         CrashMidway, Dies, Environment, Tick, MergeChange, MergeRollback,
         DeclineRollback, Sync, Readiness, SetResume, Around, database, memory, vars

LEMMA RowsStep ==
  ASSUME RollbackInv, RowsAreStored, "save" \notin Faults, [Next]_vars
  PROVE  RowsAreStored'
  <1>1. CASE Advance
    <2>1. pc = "advance"
      BY <1>1 DEF Advance, AdvanceWaiting, AdvanceVerifying, AdvanceVerified,
                  AdvanceDegraded, AdvanceTerminal, CallFails, Advancing
    <2>. QED
      BY <1>1, <2>1, SavedRows DEF RowsAreStored
  <1>2. CASE ReadRecords
    BY <1>2 DEF ReadRecords, Rows, RowsAreStored, NoRecord, database
  <1>. QED
    BY <1>1, <1>2, OthersKeepTheRows DEF RowsAreStored

(* With a limit no table can exceed, a run reads all of it. *)
LEMMA AllLoaded ==
  ASSUME MaxPRs <= RecordLimit, pulls \in [PRs -> PullRequest]
  PROVE  Loaded = Stored
  <1>1. ASSUME NEW p \in Stored
        PROVE  Cardinality({q \in Stored : Newer(q, p)}) < RecordLimit
    <2>. DEFINE newer == {q \in Stored : Newer(q, p)}
    <2>1. p \in PRs /\ pulls[p].mergedAt \in Nat
      BY DEF Stored, PullRequest
    <2>2. ~Newer(p, p)
      BY <2>1 DEF Newer, PRs
    <2>3. newer \subseteq PRs \ {p}
      BY <2>2 DEF Stored
    <2>4. IsFiniteSet(PRs) /\ Cardinality(PRs) = MaxPRs
      BY <2>1, FS_Interval, PullsAssumption DEF PRs
    <2>5. IsFiniteSet(PRs \ {p}) /\ Cardinality(PRs \ {p}) = MaxPRs - 1
      BY <2>1, <2>4, FS_RemoveElement
    <2>6. Cardinality(newer) <= MaxPRs - 1 /\ Cardinality(newer) \in Nat
      BY <2>3, <2>5, FS_Subset, FS_CardinalityType
    <2>. QED
      BY <2>6, PullsAssumption, VerifierAssumption
  <1>. QED
    BY <1>1 DEF Loaded

LEMMA AllReadStep ==
  ASSUME RollbackInv, AllAreRead, MaxPRs <= RecordLimit, [Next]_vars
  PROVE  AllAreRead'
  <1>1. /\ TypeOK /\ pulls \in [PRs -> PullRequest]
        /\ store \in [PRs -> Verification] /\ recs \in [PRs -> Verification]
    BY DEF RollbackInv, TypeOK
  <1>2. CASE Advance
    <2>1. PICK p \in PRs :
            \/ AdvanceWaiting(p) \/ AdvanceVerifying(p) \/ AdvanceVerified(p)
            \/ AdvanceDegraded(p) \/ AdvanceTerminal(p) \/ CallFails(p)
      BY <1>2 DEF Advance
    <2>2. UNCHANGED pc /\ pc = "advance"
      BY <2>1 DEF AdvanceWaiting, AdvanceVerifying, AdvanceVerified,
                  AdvanceDegraded, AdvanceTerminal, CallFails, Advancing
    <2>3. CASE UNCHANGED <<store, recs>>
      BY <2>2, <2>3 DEF AllAreRead, Stored
    <2>4. CASE \E rec : Save(p, rec) /\ rec.status # "None"
      <3>1. PICK rec : Save(p, rec) /\ rec.status # "None"
        BY <2>4
      <3>2. /\ recs' = [recs EXCEPT ![p] = rec]
            /\ \A q \in PRs \ {p} : store'[q] = store[q]
        BY <1>1, <3>1 DEF Save, SaveVerification
      <3>. QED
        BY <1>1, <2>2, <3>1, <3>2 DEF AllAreRead, Stored
    <2>. QED
      BY <2>1, <2>3, <2>4, RowAfterAdvance DEF Moves
  <1>3. CASE ReadRecords
    BY <1>1, <1>3, AllLoaded DEF ReadRecords, Rows, AllAreRead, Stored, database
  <1>. QED
    BY <1>2, <1>3, OthersKeepTheRows DEF AllAreRead, Stored

(* A failure in memory is a failure in the table. *)
LEMMA CountedAreStored ==
  ASSUME RowsAreStored, pc = "advance", NEW p \in PRs, Failed(recs[p].status)
  PROVE  Failed(store[p].status)
  BY DEF RowsAreStored, Failed

(* What Halts does: it counts, with each annotation as it is or unread. *)
LEMMA HaltsCounts ==
  ASSUME TypeOK, Halts
  PROVE  \E after \in [Targets -> Nat] :
           /\ result' = HaltedAfter(after)
           /\ \A t \in Targets : after[t] \in {resume[t], NoTime}
  <1>1. resume \in [Targets -> Nat] /\ NoTime \in Nat
    BY DEF TypeOK, NoTime
  <1>2. CASE result' = HaltedAfter(resume)
    BY <1>1, <1>2
  <1>3. CASE \E t \in Targets : result' = HaltedAfter([resume EXCEPT ![t] = NoTime])
    <2>1. PICK t \in Targets : result' = HaltedAfter([resume EXCEPT ![t] = NoTime])
      BY <1>3
    <2>. DEFINE after == [resume EXCEPT ![t] = NoTime]
    <2>2. /\ after \in [Targets -> Nat]
          /\ \A u \in Targets : after[u] \in {resume[u], NoTime}
      BY <1>1
    <2>. HIDE DEF after
    <2>3. result' = HaltedAfter(after)
      BY <2>1 DEF after
    <2>. QED
      BY <2>2, <2>3
  <1>. QED
    BY <1>2, <1>3 DEF Halts

LEMMA FailuresAreFinite ==
  ASSUME NEW S \in SUBSET PRs
  PROVE  IsFiniteSet(S) /\ Cardinality(S) \in Nat
  <1>1. IsFiniteSet(PRs)
    BY FS_Interval, PullsAssumption DEF PRs
  <1>. QED
    BY <1>1, FS_Subset, FS_CardinalityType

HaltsInv == RowsAreStored /\ HaltsRestOnFailures

LEMMA RestStep ==
  ASSUME RollbackInv, HaltsInv, [Next]_vars
  PROVE  HaltsRestOnFailures'
  <1>1. /\ TypeOK /\ halted \in [Targets -> SUBSET PRs]
        /\ RowsAreStored /\ HaltsRestOnFailures /\ TrackedAreMerged
    BY DEF RollbackInv, TypeOK, HaltsInv
  <1>2. CASE UNCHANGED halted
    <2>1. MergedStay /\ FailuresStay
      BY RollbackStep
    <2>2. \A p \in PRs : Failed(store[p].status) => pulls'[p] = pulls[p]
      BY <1>1, <2>1 DEF TrackedAreMerged, MergedStay, Failed
    <2>. QED
      BY <1>1, <1>2, <2>1, <2>2 DEF HaltsRestOnFailures, FailuresStay
  <1>3. CASE Halts /\ halted' = result'
    <2>1. PICK after : result' = HaltedAfter(after)
      BY <1>1, <1>3, HaltsCounts
    <2>2. UNCHANGED <<store, pulls>> /\ pc = "advance"
      BY <1>3 DEF Halts, services
    <2>3. ASSUME NEW t \in Targets, halted'[t] # {}
          PROVE  /\ Cardinality(halted'[t]) >= MaxRollbacks
                 /\ \A p \in halted'[t] : pulls[p].target = t /\ Failed(store[p].status)
      <3>1. halted'[t] = FailedAfter(t, after[t]) /\ TooMany(halted'[t])
        BY <1>3, <2>1, <2>3 DEF HaltedAfter
      <3>2. \A p \in halted'[t] : p \in PRs /\ pulls[p].target = t
                                 /\ Failed(recs[p].status)
        BY <3>1 DEF FailedAfter, Counts
      <3>. QED
        BY <1>1, <2>2, <3>1, <3>2, CountedAreStored DEF TooMany
    <2>. QED
      BY <2>2, <2>3 DEF HaltsRestOnFailures
  <1>4. UNCHANGED halted \/ (Halts /\ halted' = result')
    BY DEF Next, Run, StartRun, ListMerged, Record, ReadRecords, Advance,
           AdvanceWaiting, AdvanceVerifying, AdvanceVerified, AdvanceDegraded,
           AdvanceTerminal, CallFails, Advancing, Halts, Crash, CrashBetween,
           CrashMidway, Dies, Environment, Tick, MergeChange, MergeRollback, DeclineRollback, Sync, Readiness,
           SetResume, Around, database, vars
  <1>. QED
    BY <1>2, <1>3, <1>4

LEMMA HaltsStart == Init => HaltsInv /\ AllAreRead
  BY DEF Init, HaltsInv, RowsAreStored, AllAreRead, HaltsRestOnFailures,
         NothingHalted

(* If no write fails, a persisted halt names as many failures as it takes, all
   of them in the table and of that workload. *)
THEOREM HaltsRestOnStoredFailures ==
  ASSUME "save" \notin Faults
  PROVE  Spec => []HaltsRestOnFailures
  <1>1. RollbackInv /\ HaltsInv /\ [Next]_vars => HaltsInv'
    BY RestStep, RowsStep DEF HaltsInv
  <1>2. HaltsInv => HaltsRestOnFailures
    BY DEF HaltsInv
  <1>. QED
    BY <1>1, <1>2, HaltsStart, RollbackInvariant, PTL DEF Spec

-----------------------------------------------------------------------------
(* Stored failures are counted, whichever annotation cannot be read. *)
LEMMA StoredAreCounted ==
  ASSUME TypeOK, RowsAreStored, AllAreRead, pc = "advance", NEW t \in Targets,
         NEW after \in {resume[t], NoTime},
         Cardinality(StoredFailures(t)) >= MaxRollbacks
  PROVE  TooMany(FailedAfter(t, after)) /\ FailedAfter(t, after) # {}
  <1>1. resume[t] \in Nat /\ pulls \in [PRs -> PullRequest]
    BY DEF TypeOK
  <1>2. ASSUME NEW p \in StoredFailures(t) PROVE p \in FailedAfter(t, after)
    <2>1. p \in PRs /\ Failed(store[p].status) /\ pulls[p].mergedAt \in Nat
      BY <1>1 DEF StoredFailures, PullRequest
    <2>2. recs[p].status = store[p].status
      BY <2>1 DEF AllAreRead, RowsAreStored, Stored, Failed
    <2>. QED
      BY <1>1, <2>1, <2>2 DEF StoredFailures, FailedAfter, Counts, NoTime
  <1>3. FailedAfter(t, after) \subseteq PRs
    BY DEF FailedAfter
  <1>4. Cardinality(StoredFailures(t)) <= Cardinality(FailedAfter(t, after))
    BY <1>2, <1>3, FailuresAreFinite, FS_Subset
  <1>5. /\ Cardinality(FailedAfter(t, after)) \in Nat
        /\ Cardinality(StoredFailures(t)) \in Nat
    BY <1>2, <1>3, FailuresAreFinite
  <1>. QED
    BY <1>4, <1>5, FS_EmptySet, VerifierAssumption DEF TooMany

ReadInv == HaltsInv /\ AllAreRead

LEMMA ReadInvariant ==
  ASSUME "save" \notin Faults, MaxPRs <= RecordLimit
  PROVE  Spec => [](RollbackInv /\ ClockInv /\ ReadInv)
  <1>1. RollbackInv /\ ReadInv /\ [Next]_vars => ReadInv'
    BY RestStep, RowsStep, AllReadStep DEF HaltsInv, ReadInv
  <1>2. Init => ReadInv
    BY HaltsStart DEF ReadInv
  <1>. QED
    BY <1>1, <1>2, ClockInvariant, PTL DEF Spec

(* If no write fails and the limit of a read exceeds no table, a run that could
   read the table tells the cycle of each workload with too many stored failures
   since its annotation, also when the annotation cannot be read. *)
THEOREM CyclesKnowTheHalts ==
  ASSUME "save" \notin Faults, MaxPRs <= RecordLimit
  PROVE  Spec => HaltsReachTheCycle
  <1>1. ASSUME RollbackInv, ReadInv, Next, Halts, NEW t \in Targets,
               Cardinality(StoredFailures(t)) >= MaxRollbacks
        PROVE  result'[t] # {}
    <2>1. TypeOK /\ RowsAreStored /\ AllAreRead
      BY <1>1 DEF RollbackInv, ReadInv, HaltsInv
    <2>2. PICK after \in [Targets -> Nat] :
            /\ result' = HaltedAfter(after)
            /\ \A u \in Targets : after[u] \in {resume[u], NoTime}
      BY <1>1, <2>1, HaltsCounts
    <2>3. TooMany(FailedAfter(t, after[t])) /\ FailedAfter(t, after[t]) # {}
      BY <1>1, <2>1, <2>2, StoredAreCounted DEF Halts
    <2>. QED
      BY <2>2, <2>3 DEF HaltedAfter
  <1>2. RollbackInv /\ ReadInv /\ [Next]_vars
        => [Halts => \A t \in Targets :
              Cardinality(StoredFailures(t)) >= MaxRollbacks => result'[t] # {}]_vars
    BY <1>1
  <1>. QED
    BY <1>2, ReadInvariant, PTL DEF Spec, HaltsReachTheCycle

(* Under the same assumptions a persisted halt ends only when a human's
   annotation discounts its failures. *)
THEOREM OnlyHumansLiftHalts ==
  ASSUME "save" \notin Faults, MaxPRs <= RecordLimit
  PROVE  Spec => HaltsLiftOnlyByResume
  <1>1. ASSUME RollbackInv, ClockInv, ReadInv, Next, NEW t \in Targets,
               halted[t] # {}, halted'[t] = {}
        PROVE  Cardinality(StoredFailures(t)) < MaxRollbacks /\ resume[t] # NoTime
    <2>1. /\ TypeOK /\ RowsAreStored /\ AllAreRead /\ HaltsRestOnFailures
          /\ TrackedAreMerged /\ MergesAreTimed /\ halted[t] \subseteq PRs
      BY <1>1 DEF RollbackInv, ReadInv, HaltsInv, ClockInv, TypeOK
    <2>2. Halts /\ halted' = result'
      BY <1>1 DEF Next, Run, StartRun, ListMerged, Record, ReadRecords, Advance,
             AdvanceWaiting, AdvanceVerifying, AdvanceVerified, AdvanceDegraded,
             AdvanceTerminal, CallFails, Advancing, Halts, Crash, CrashBetween,
             CrashMidway, Dies, Environment, Tick, MergeChange, MergeRollback, DeclineRollback, Sync, Readiness,
             SetResume, Around, database
    <2>3. PICK after \in [Targets -> Nat] :
            /\ result' = HaltedAfter(after)
            /\ \A u \in Targets : after[u] \in {resume[u], NoTime}
      BY <2>1, <2>2, HaltsCounts
    <2>4. pc = "advance"
      BY <2>2 DEF Halts
    <2>5. ~(TooMany(FailedAfter(t, after[t])) /\ FailedAfter(t, after[t]) # {})
      BY <1>1, <2>2, <2>3 DEF HaltedAfter
    <2>6. ~(Cardinality(StoredFailures(t)) >= MaxRollbacks)
      BY <2>1, <2>3, <2>4, <2>5, StoredAreCounted
    <2>7. Cardinality(StoredFailures(t)) \in Nat
      BY FailuresAreFinite DEF StoredFailures
    <2>8. CASE resume[t] = NoTime
      <3>1. ASSUME NEW p \in halted[t] PROVE p \in StoredFailures(t)
        <4>1. p \in PRs /\ pulls[p].target = t /\ Failed(store[p].status)
          BY <1>1, <2>1 DEF HaltsRestOnFailures
        <4>2. pulls[p].state = "merged"
          BY <2>1, <4>1 DEF TrackedAreMerged, Failed
        <4>. QED
          BY <2>1, <2>8, <4>1, <4>2 DEF MergesAreTimed, StoredFailures
      <3>2. StoredFailures(t) \subseteq PRs
        BY DEF StoredFailures
      <3>3. /\ Cardinality(halted[t]) <= Cardinality(StoredFailures(t))
            /\ Cardinality(halted[t]) \in Nat
        BY <2>1, <3>1, <3>2, FailuresAreFinite, FS_Subset
      <3>4. Cardinality(halted[t]) >= MaxRollbacks
        BY <1>1, <2>1 DEF HaltsRestOnFailures
      <3>. QED
        BY <2>6, <2>7, <3>3, <3>4, VerifierAssumption
    <2>. QED
      BY <2>6, <2>7, <2>8, VerifierAssumption
  <1>2. RollbackInv /\ ClockInv /\ ReadInv /\ [Next]_vars
        => [\A t \in Targets : halted[t] # {} /\ halted'[t] = {}
              => Cardinality(StoredFailures(t)) < MaxRollbacks
                 /\ resume[t] # NoTime]_vars
    BY <1>1
  <1>. QED
    BY <1>2, ReadInvariant, PTL DEF Spec, HaltsLiftOnlyByResume

-----------------------------------------------------------------------------
(***************************************************************************)
(* Rollbacks.  An answered change has left "Degraded" for good.  So every  *)
(* PR that was opened or rewritten to restore a change was so in a step    *)
(* that answered the change, of which there is one, or that failed.        *)
(***************************************************************************)
Answers == {"RollbackProposed", "RolledBack"}

Naming(p) == {q \in Rollbacks : pulls[q].rollbackOf = p}

AnswersTo(p) == IF store[p].status \in Answers THEN 1 ELSE 0

NamedByFailures ==
  \A p \in PRs : Cardinality(Naming(p)) <= faults + AnswersTo(p)

AnswersStay ==
  \A p \in PRs : store[p].status \in Answers => store'[p].status \in Answers

LEMMA AnswersStayStep ==
  ASSUME RollbackInv, [Next]_vars
  PROVE  AnswersStay
  <1>1. store \in [PRs -> Verification]
    BY DEF RollbackInv, TypeOK
  <1>2. CASE Record
    <2>1. CASE \E p \in PRs : \E rec :
                  /\ store[p].status = "None"
                  /\ store' = [store EXCEPT ![p] = rec]
      BY <1>1, <2>1 DEF AnswersStay, Answers
    <2>2. CASE \E p \in PRs : \E rec :
                  /\ rec.status = "RolledBack"
                  /\ store' = [store EXCEPT ![p] = rec]
      BY <1>1, <2>2 DEF AnswersStay, Answers
    <2>. QED
      BY <1>2, <2>1, <2>2, RowAfterRecord DEF AnswersStay
  <1>3. CASE Advance
    <2>1. PICK p \in PRs :
            \/ AdvanceWaiting(p) \/ AdvanceVerifying(p) \/ AdvanceVerified(p)
            \/ AdvanceDegraded(p) \/ AdvanceTerminal(p) \/ CallFails(p)
      BY <1>3 DEF Advance
    <2>2. ASSUME NEW from, NEW to, Moves(p, from, to)
          PROVE  store[p].status = from /\ \E rec : SaveVerification(p, rec)
      BY <2>2, AdvancedRow DEF Moves, Save
    <2>3. UNCHANGED store \/ (store[p].status \notin Answers
                             /\ \E rec : SaveVerification(p, rec))
      BY <2>1, <2>2, RowAfterAdvance DEF Answers
    <2>. QED
      BY <1>1, <2>3 DEF AnswersStay, SaveVerification
  <1>. QED
    BY <1>2, <1>3, OthersKeepTheTable DEF AnswersStay

LEMMA NamingIsFinite == \A p : IsFiniteSet(Naming(p)) /\ Cardinality(Naming(p)) \in Nat
  BY FailuresAreFinite DEF Naming, Rollbacks

(* No PR names p that did not before. *)
LEMMA NoNewName ==
  ASSUME RollbackInv, NamedByFailures, [Next]_vars, NEW p \in PRs,
         Naming(p)' \subseteq Naming(p)
  PROVE  Cardinality(Naming(p)') <= faults' + AnswersTo(p)'
  <1>1. faults \in Nat /\ faults' \in {faults, faults + 1}
    BY FaultsGrow DEF RollbackInv, TypeOK
  <1>2. AnswersTo(p) \in Nat /\ AnswersTo(p)' \in Nat /\ AnswersTo(p) <= AnswersTo(p)'
    BY AnswersStayStep DEF AnswersTo, AnswersStay
  <1>3. /\ Cardinality(Naming(p)') <= Cardinality(Naming(p))
        /\ Cardinality(Naming(p)) \in Nat /\ Cardinality(Naming(p)') \in Nat
    <2>1. IsFiniteSet(Naming(p)) /\ Cardinality(Naming(p)) \in Nat
      BY NamingIsFinite
    <2>2. Naming(p)' \in SUBSET Naming(p)
      OBVIOUS
    <2>. QED
      BY <2>1, <2>2, FS_Subset, FS_CardinalityType
  <1>. QED
    BY <1>1, <1>2, <1>3 DEF NamedByFailures

(* One PR more may name p, after a failure or with p's answer. *)
LEMMA OneNewName ==
  ASSUME RollbackInv, NamedByFailures, NEW p \in PRs, NEW q,
         Naming(p)' \subseteq Naming(p) \union {q},
         store[p].status = "Degraded",
         \/ faults' = faults + 1
         \/ faults' = faults /\ store'[p].status \in Answers
  PROVE  Cardinality(Naming(p)') <= faults' + AnswersTo(p)'
  <1>1. faults \in Nat
    BY DEF RollbackInv, TypeOK
  <1>2. AnswersTo(p) = 0 /\ AnswersTo(p)' \in {0, 1}
    BY DEF AnswersTo, Answers
  <1>3. faults' + AnswersTo(p)' >= faults + 1
    BY <1>1, <1>2 DEF AnswersTo
  <1>4. Cardinality(Naming(p)) <= faults /\ Cardinality(Naming(p)) \in Nat
    BY <1>1, <1>2, NamingIsFinite DEF NamedByFailures
  <1>5. /\ IsFiniteSet(Naming(p) \union {q})
        /\ Cardinality(Naming(p) \union {q}) <= Cardinality(Naming(p)) + 1
        /\ Cardinality(Naming(p) \union {q}) \in Nat
    <2>1. IsFiniteSet(Naming(p)) /\ Cardinality(Naming(p)) \in Nat
      BY NamingIsFinite
    <2>2. /\ IsFiniteSet(Naming(p) \union {q})
          /\ Cardinality(Naming(p) \union {q})
               \in {Cardinality(Naming(p)), Cardinality(Naming(p)) + 1}
      BY <2>1, FS_AddElement, Zenon
    <2>. QED
      BY <2>1, <2>2
  <1>6. /\ Cardinality(Naming(p)') <= Cardinality(Naming(p) \union {q})
        /\ Cardinality(Naming(p)') \in Nat
    BY <1>5, FS_Subset, FS_CardinalityType
  <1>. QED
    BY <1>1, <1>2, <1>3, <1>4, <1>5, <1>6

(* What the agent has GitHub do for p gives p one more PR at most, and no other
   change one. *)
LEMMA CallsName ==
  ASSUME RollbackInv, NEW p \in PRs, NEW q \in PRs,
         Rewrites(p, q) \/ PushesUnder(p, q) \/ Creates(p, q)
  PROVE  /\ Naming(p)' \subseteq Naming(p) \union {q}
         /\ \A other \in PRs \ {p} : Naming(other)' \subseteq Naming(other)
  <1>1. TypeOK /\ pulls \in [PRs -> PullRequest]
    BY DEF RollbackInv, TypeOK
  <1>2. CASE Rewrites(p, q) \/ Creates(p, q)
    <2>1. PICK pull \in PullRequest : pulls' = [pulls EXCEPT ![q] = RollbackOn(pull, p)]
      BY <1>1, <1>2, ProposedOnGitHub
    <2>2. pulls'[q].rollbackOf = p
      BY <1>1, <2>1 DEF RollbackOn, PullRequest
    <2>3. \A r \in PRs : r # q => pulls'[r] = pulls[r]
      BY <1>1, <2>1
    <2>. QED
      BY <2>2, <2>3 DEF Naming, Rollbacks
  <1>3. CASE PushesUnder(p, q)
    <2>1. pulls' = [pulls EXCEPT ![q].head = Restored(p),
                                 ![q].base = manifest[pulls[p].target]]
      BY <1>3 DEF PushesUnder
    <2>2. \A r \in PRs : /\ pulls'[r].state = pulls[r].state
                         /\ pulls'[r].rollbackOf = pulls[r].rollbackOf
      BY <1>1, <2>1 DEF PullRequest
    <2>. QED
      BY <2>2 DEF Naming, Rollbacks, IsRollback
  <1>. QED
    BY <1>2, <1>3

(* A step that has GitHub open or rewrite a PR answers the change or fails. *)
LEMMA NameStep ==
  ASSUME RollbackInv, NamedByFailures, [Next]_vars,
         NEW p \in PRs, store[p].status = "Degraded",
         NEW q \in PRs, Rewrites(p, q) \/ PushesUnder(p, q) \/ Creates(p, q),
         \/ faults' = faults + 1
         \/ faults' = faults /\ store'[p].status \in Answers
  PROVE  NamedByFailures'
  <1>1. Cardinality(Naming(p)') <= faults' + AnswersTo(p)'
    BY CallsName, OneNewName
  <1>2. ASSUME NEW other \in PRs \ {p}
        PROVE  Cardinality(Naming(other)') <= faults' + AnswersTo(other)'
    BY CallsName, NoNewName
  <1>. QED
    BY <1>1, <1>2 DEF NamedByFailures

LEMMA NameDegraded ==
  ASSUME RollbackInv, NEW p \in PRs, AdvanceDegraded(p)
  PROVE  \/ UNCHANGED pulls
         \/ /\ store[p].status = "Degraded" /\ CutOff(p)
            /\ \/ faults' = faults + 1
               \/ faults' = faults /\ store'[p].status \in Answers
  <1>1. /\ Advancing(p, {"Degraded"}) /\ recs[p] \in Verification
        /\ store \in [PRs -> Verification]
    BY DEF AdvanceDegraded, RollbackDue, RollbackInv, TypeOK
  <1>2. store[p].status = "Degraded"
    BY <1>1, AdvancedRow
  <1>3. ASSUME NEW q \in PRs, Answered(p, q)
        PROVE  \/ faults' = faults + 1
               \/ faults' = faults /\ store'[p].status \in Answers
    <2>. DEFINE rec == [recs[p] EXCEPT !.status = Answer(q), !.rollbackPR =
                          IF q = 0 THEN @ ELSE q]
    <2>1. q # 0
      BY PullsAssumption DEF PRs
    <2>2. rec.status = "RollbackProposed"
      BY <1>1, <2>1 DEF Answer, Verification
    <2>3. SaveVerification(p, rec)
      BY <1>3 DEF Answered, Save
    <2>. HIDE DEF rec
    <2>. QED
      BY <1>1, <2>2, <2>3 DEF Answers, SaveVerification, NoFault, Fault
  <1>4. CASE RewriteRollback(p) \/ CreateRollback(p)
    BY <1>2, <1>3, <1>4 DEF RewriteRollback, CreateRollback, CutOff
  <1>5. CASE KeepRollback(p) \/ NoRollback(p)
    BY <1>5 DEF KeepRollback, NoRollback
  <1>6. CASE AnswerLost(p)
    BY <1>2, <1>6 DEF AnswerLost, Fault
  <1>. QED
    BY <1>4, <1>5, <1>6 DEF AdvanceDegraded

LEMMA NamesStep ==
  ASSUME RollbackInv, NamedByFailures, [Next]_vars
  PROVE  NamedByFailures'
  <1>1. TypeOK /\ pulls \in [PRs -> PullRequest]
    BY DEF RollbackInv, TypeOK
  <1>2. CASE \A r \in PRs : /\ pulls'[r].rollbackOf = pulls[r].rollbackOf
                            /\ pulls'[r].state = "none" <=> pulls[r].state = "none"
    <2>1. \A p \in PRs : Naming(p)' \subseteq Naming(p)
      BY <1>2 DEF Naming, Rollbacks, IsRollback
    <2>. QED
      BY <2>1, NoNewName DEF NamedByFailures
  <1>3. ASSUME NEW p \in PRs, store[p].status = "Degraded", CutOff(p),
               \/ faults' = faults + 1
               \/ faults' = faults /\ store'[p].status \in Answers
        PROVE  NamedByFailures'
    BY <1>3, NameStep DEF CutOff
  <1>4. CASE Advance
    BY <1>2, <1>3, <1>4, NameDegraded, LinkedAdvance DEF Advance
  <1>5. CASE CrashMidway
    <2>1. PICK p \in PRs : CutOff(p) /\ store[p].status = "Degraded"
      BY <1>5 DEF CrashMidway, RollbackDue, NewestFirst, RollbackInv, MemoryIsCurrent
    <2>. QED
      BY <1>3, <1>5, <2>1 DEF CrashMidway, Dies, Fault
  <1>6. ASSUME NEW t \in Targets, MergeChange(t)
        PROVE  NamedByFailures'
    <2>1. PICK q \in PRs, v \in Values \ {manifest[t]}, known \in BOOLEAN :
            pulls' = [pulls EXCEPT ![q] =
              [state |-> "merged", target |-> t, head |-> v,
               base |-> manifest[t], marker |-> v,
               previous |-> manifest[t], previousKnown |-> known,
               rollbackOf |-> 0, mergedAt |-> clock]]
      BY <1>6 DEF MergeChange
    <2>2. pulls'[q].rollbackOf = 0 /\ \A r \in PRs : r # q => pulls'[r] = pulls[r]
      BY <1>1, <2>1
    <2>3. \A p \in PRs : Naming(p)' \subseteq Naming(p)
      BY <2>2 DEF Naming, Rollbacks, IsRollback
    <2>. QED
      BY <2>3, NoNewName DEF NamedByFailures
  <1>7. ASSUME NEW q \in PRs, MergeRollback(q) \/ DeclineRollback(q)
        PROVE  NamedByFailures'
    BY <1>1, <1>2, <1>7 DEF MergeRollback, DeclineRollback, PullRequest
  <1>8. \/ UNCHANGED pulls
        \/ Advance
        \/ CrashMidway
        \/ \E t \in Targets : MergeChange(t)
        \/ \E q \in PRs : MergeRollback(q) \/ DeclineRollback(q)
    BY DEF Next, Run, StartRun, ListMerged, Record, ReadRecords, Halts, Crash,
           CrashBetween, Environment, Tick, Sync, Readiness, SetResume, services, vars
  <1>. QED
    BY <1>2, <1>4, <1>5, <1>6, <1>7, <1>8

(* A change is rolled back once, and once more at most for each failure: through
   crashes at any point, calls whose answer is lost, failed saves, reused
   branches and declined rollbacks. *)
THEOREM RollbacksTakeFailures == Spec => []RolledBackAgainByFailuresOnly
  <1>1. Init => NamedByFailures
    <2>. SUFFICES ASSUME Init, NEW p \in PRs
                  PROVE  Cardinality(Naming(p)) <= faults + AnswersTo(p)
      BY DEF NamedByFailures
    <2>1. Naming(p) = {} /\ faults = 0 /\ AnswersTo(p) \in Nat
      BY DEF Init, Naming, Rollbacks, NoPulls, NeverOpened, AnswersTo
    <2>. QED
      BY <2>1, FS_EmptySet
  <1>2. RollbackInv /\ NamedByFailures /\ [Next]_vars => NamedByFailures'
    BY NamesStep
  <1>3. ASSUME RollbackInv, NamedByFailures PROVE RolledBackAgainByFailuresOnly
    <2>. SUFFICES ASSUME NEW p \in PRs
                  PROVE  Cardinality({q \in Rollbacks :
                           pulls[q].state = "merged" /\ pulls[q].rollbackOf = p})
                         <= 1 + faults
      BY DEF RolledBackAgainByFailuresOnly
    <2>. DEFINE undoing == {q \in Rollbacks :
                              pulls[q].state = "merged" /\ pulls[q].rollbackOf = p}
    <2>1. undoing \subseteq Naming(p)
      BY DEF Naming
    <2>2. /\ Cardinality(undoing) <= Cardinality(Naming(p))
          /\ Cardinality(undoing) \in Nat /\ Cardinality(Naming(p)) \in Nat
      BY <2>1, NamingIsFinite, FS_Subset, FS_CardinalityType
    <2>3. Cardinality(Naming(p)) <= faults + AnswersTo(p) /\ AnswersTo(p) \in {0, 1}
      BY <1>3 DEF NamedByFailures, AnswersTo
    <2>4. faults \in Nat
      BY <1>3 DEF RollbackInv, TypeOK
    <2>. HIDE DEF undoing
    <2>5. Cardinality(undoing) <= 1 + faults
      BY <2>2, <2>3, <2>4
    <2>. QED
      BY <2>5 DEF undoing
  <1>. QED
    BY <1>1, <1>2, <1>3, RollbackInvariant, PTL DEF Spec
=============================================================================
