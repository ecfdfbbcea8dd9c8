---------------------------- MODULE CycleProofs ----------------------------
(***************************************************************************)
(* Proofs about Cycle.tla, for all sets of workloads and any number of     *)
(* cycles and failures.                                                    *)
(***************************************************************************)
EXTENDS Cycle, TLAPS

USE CycleAssumption DEF CycleAssumption

Finished == {i \in Saved : rows[i].analyzed}

HasNewest(ids) == ids = {} \/ \E i \in ids : \A j \in ids : j <= i

(* Newest is the maximum, when there is one. *)
LEMMA NewestIsMaximum ==
  ASSUME NEW S \in SUBSET Ids, HasNewest(S)
  PROVE  /\ Newest(S) \in Ids \cup {0}
         /\ Newest(S) = 0 <=> S = {}
         /\ S # {} => Newest(S) \in S
         /\ \A j \in S : j <= Newest(S)
<1>1. CASE S = {}
  BY <1>1 DEF Newest, Ids
<1>2. CASE S # {}
  <2>1. PICK i \in S : \A j \in S : j <= i
    BY <1>2 DEF HasNewest
  <2>2. Newest(S) = CHOOSE k \in S : \A j \in S : j <= k
    BY <1>2 DEF Newest
  <2>3. Newest(S) \in S /\ \A j \in S : j <= Newest(S)
    BY <2>1, <2>2
  <2>4. Newest(S) \in Ids
    BY <2>3
  <2>5. 0 \notin Ids
    BY DEF Ids
  <2>6. QED
    BY <1>2, <2>3, <2>4, <2>5
<1>3. QED
  BY <1>1, <1>2

(* A stored row is there, and a stored analysis is one of a stored row. *)
RowsInv ==
  /\ \A i \in Ids : rows[i].analyzed => rows[i].saved
  /\ HasNewest(Saved)
  /\ HasNewest(Finished)

(* Once it is stored, the cycle's snapshot is the newest; until the analysis is
   stored nothing stems from it. *)
SnapshotInv ==
  /\ pc \in {"verify", "analyze", "record", "apply"} =>
       /\ id \in Saved /\ \A j \in Saved : j <= id
       /\ rows[id].seen = seen
  /\ pc \in {"verify", "analyze", "record"} =>
       ~rows[id].analyzed /\ \A t \in Targets : proposal[t] # id

(* What is judged is judged by the halts that the verifier's run returned. As
   long as nothing has failed and no signal has come in, these are the stored
   ones. *)
JudgedInv ==
  /\ pc \in {"analyze", "record", "apply"} /\ faults = 0 /\ ~stopping => halted = halts
  /\ pc \in {"record", "apply"} =>
       \A r \in recs : r.target \in seen /\ (r.status = "Approved" => r.target \notin halted)
  /\ pc = "apply" =>
       /\ rows[id].analyzed => rows[id].recs = recs
       /\ \A t \in todo : [target |-> t, status |-> "Approved"] \in recs

(* What a request remembers is still there, and its snapshot is no older. *)
RequestInv ==
  /\ request.newest # 0 => request.newest \in Saved
  /\ request.newestAnalysis # 0 => request.newestAnalysis \in Finished
  /\ request.at \in {"read", "answered"} => request.snapshot >= request.newest
  /\ AnswersAreFresh

CycleInv ==
  TypeOK /\ RowsInv /\ SnapshotInv /\ JudgedInv /\ ProposalsAreOnRecord /\ RequestInv

-----------------------------------------------------------------------------
(* What the store answers. *)
LEMMA LatestIsNewest ==
  ASSUME TypeOK, RowsInv
  PROVE  /\ LatestSnapshot \in Ids \cup {0}
         /\ LatestSnapshot = 0 <=> Saved = {}
         /\ Saved # {} => LatestSnapshot \in Saved
         /\ \A j \in Saved : j <= LatestSnapshot
         /\ LatestAnalysed \in Ids \cup {0}
         /\ LatestAnalysed = 0 <=> Finished = {}
         /\ Finished # {} => LatestAnalysed \in Finished
         /\ \A j \in Finished : j <= LatestAnalysed
<1>1. Saved \in SUBSET Ids /\ Finished \in SUBSET Ids
  BY DEF Saved, Finished
<1>2. HasNewest(Saved) /\ HasNewest(Finished)
  BY DEF RowsInv
<1>3. LatestSnapshot = Newest(Saved) /\ LatestAnalysed = Newest(Finished)
  BY DEF LatestSnapshot, LatestAnalysed, Finished
<1>4. QED
  BY <1>1, <1>2, <1>3, NewestIsMaximum, Zenon

-----------------------------------------------------------------------------
LEMMA NoneTyped == NoRow \in Row /\ NoRequest \in Request
BY DEF Row, NoRow, Request, NoRequest

(* Every variable keeps its type. *)
LEMMA TypeInit == Init => TypeOK
<1> SUFFICES ASSUME Init PROVE TypeOK
  OBVIOUS
<1>1. rows \in [Ids -> Row] /\ proposal \in [Targets -> Ids \cup {0}]
  BY NoneTyped DEF Init
<1>2. faults \in 0..MaxFaults
  BY DEF Init
<1>3. QED
  BY <1>1, <1>2, NoneTyped DEF Init, TypeOK

LEMMA TypeStep == TypeOK /\ RowsInv /\ SnapshotInv /\ [Next]_vars => TypeOK'
<1> SUFFICES ASSUME TypeOK, RowsInv, SnapshotInv, [Next]_vars PROVE TypeOK'
  OBVIOUS
<1> USE DEF TypeOK, local, outside
<1>1. CASE StartCycle
  BY <1>1 DEF StartCycle, Goto
<1>2. CASE Collect
  BY <1>2 DEF Collect, Goto, Works, Fails
<1>3. CASE SaveSnapshot
  <2>1. [NoRow EXCEPT !.saved = TRUE, !.seen = seen] \in Row
    BY DEF Row, NoRow
  <2>2. QED
    BY <1>3, <2>1 DEF SaveSnapshot, Goto, Works, Fails, Forget
<1>4. CASE Verify
  BY <1>4 DEF Verify, Goto, Works, Fails
<1>5. CASE Analyze
  <2>1. ASSUME NEW verdicts \in SUBSET [target : seen, status : {"Approved", "Rejected"}]
        PROVE  Judged(verdicts) \subseteq Recommendation
    BY DEF Judged, Recommendation
  <2>2. QED
    BY <1>5, <2>1 DEF Analyze, Goto, Works, Fails, Forget
<1>6. CASE Record
  <2>1. ApprovedTargets(recs) \subseteq Targets
    BY DEF ApprovedTargets, Recommendation
  <2>2. rows' \in [Ids -> Row]
    <3>1. ASSUME NEW row \in Row
          PROVE  [row EXCEPT !.analyzed = TRUE, !.recs = recs] \in Row
      BY DEF Row
    <3>2. CASE rows' = [rows EXCEPT ![id] = [@ EXCEPT !.analyzed = TRUE, !.recs = recs]]
      BY <3>1, <3>2
    <3>3. CASE UNCHANGED rows
      BY <3>3
    <3>4. QED
      BY <1>6, <3>2, <3>3 DEF Record
  <2>3. QED
    BY <1>6, <2>1, <2>2 DEF Record, Goto, Works, Fails
<1>7. ASSUME NEW t \in Targets, Apply(t) PROVE TypeOK'
  BY <1>7 DEF Apply
<1>8. CASE EndCycle
  BY <1>8 DEF EndCycle, Goto, Forget
<1>9. CASE Exit
  BY <1>9, NoneTyped DEF Exit, Goto
<1>10. CASE Read
  <2>1. LatestSnapshot \in Ids \cup {0} /\ LatestAnalysed \in Ids \cup {0}
    BY LatestIsNewest
  <2>2. LatestRecommendations \subseteq Recommendation
    BY <2>1 DEF LatestRecommendations, Row
  <2>3. CASE Ask
    BY <2>1, <2>3 DEF Ask, Request, NoRequest
  <2>4. CASE ReadSnapshot
    BY <2>1, <2>4 DEF ReadSnapshot, Request, NoRequest
  <2>5. CASE ReadRecommendations
    BY <2>2, <2>5 DEF ReadRecommendations, Request
  <2>6. QED
    BY <1>10, <2>3, <2>4, <2>5 DEF Read
<1>11. CASE Tick
  BY <1>11 DEF Tick
<1>12. CASE Signal
  BY <1>12 DEF Signal
<1>13. CASE Crash
  <2>1. pc' = "down" /\ id' = 0 /\ seen' = {} /\ halted' = {} /\ recs' = {} /\ todo' = {}
    BY <1>13 DEF Crash, Forget
  <2>2. request' \in Request /\ due' \in BOOLEAN /\ stopping' \in BOOLEAN
    BY <1>13, NoneTyped DEF Crash
  <2>3. faults' \in 0..MaxFaults
    BY <1>13 DEF Crash
  <2>4. UNCHANGED <<rows, halts, proposal>>
    BY <1>13 DEF Crash
  <2>5. QED
    BY <2>1, <2>2, <2>3, <2>4
<1>14. CASE Restart
  BY <1>14 DEF Restart, Goto
<1>15. ASSUME NEW t \in Targets, Settle(t) PROVE TypeOK'
  BY <1>15 DEF Settle
<1>16. CASE UNCHANGED vars
  BY <1>16 DEF vars
<1>17. QED
  BY <1>1, <1>2, <1>3, <1>4, <1>5, <1>6, <1>7, <1>8, <1>9, <1>10, <1>11, <1>12,
     <1>13, <1>14, <1>15, <1>16 DEF Next, Cycle
-----------------------------------------------------------------------------
(* The two steps that write the snapshot tables. *)
Stores ==
  /\ pc = "save" /\ pc' = "verify"
  /\ id' = LatestSnapshot + 1 /\ id' \in Ids
  /\ rows' = [rows EXCEPT ![id'] = [NoRow EXCEPT !.saved = TRUE, !.seen = seen]]
  /\ UNCHANGED <<seen, recs, halts, proposal, request>>

Finishes ==
  /\ pc = "record" /\ pc' = "apply"
  /\ rows' = [rows EXCEPT ![id] = [@ EXCEPT !.analyzed = TRUE, !.recs = recs]]
  /\ UNCHANGED <<id, seen, recs, halts, proposal, request>>

LEMMA OnlyTwoStepsWrite == [Next]_vars => Stores \/ Finishes \/ UNCHANGED rows
<1> SUFFICES ASSUME [Next]_vars PROVE Stores \/ Finishes \/ UNCHANGED rows
  OBVIOUS
<1> USE DEF outside
<1>1. CASE SaveSnapshot
  BY <1>1 DEF SaveSnapshot, Goto, Stores
<1>2. CASE Record
  BY <1>2 DEF Record, Goto, Finishes
<1>3. CASE Cycle /\ ~SaveSnapshot /\ ~Record
  BY <1>3 DEF Cycle, StartCycle, Collect, Verify, Analyze, Apply, EndCycle
<1>4. CASE Read
  BY <1>4 DEF Read, Ask, ReadSnapshot, ReadRecommendations
<1>5. CASE Exit \/ Tick \/ Signal \/ Crash \/ Restart \/ \E t \in Targets : Settle(t)
  BY <1>5 DEF Exit, Tick, Signal, Crash, Restart, Settle
<1>6. CASE UNCHANGED vars
  BY <1>6 DEF vars
<1>7. QED
  BY <1>1, <1>2, <1>3, <1>4, <1>5, <1>6 DEF Next

(* A new snapshot gets a new id, the largest. *)
LEMMA StoredIsNewest ==
  ASSUME TypeOK, RowsInv, Stores
  PROVE  /\ id' \notin Saved
         /\ Saved' = Saved \cup {id'} /\ \A j \in Saved' : j <= id'
         /\ Finished' = Finished
<1>1. LatestSnapshot \in Ids \cup {0} /\ \A j \in Saved : j <= LatestSnapshot
  BY LatestIsNewest
<1>2. id' = LatestSnapshot + 1 /\ id' \in Ids
  BY DEF Stores
<1>3. id' \notin Saved /\ \A j \in Saved : j <= id'
  BY <1>1, <1>2 DEF Saved, Ids
<1>4. ASSUME NEW i \in Ids
      PROVE  rows'[i] = IF i = id' THEN [NoRow EXCEPT !.saved = TRUE, !.seen = seen]
                        ELSE rows[i]
  BY DEF Stores, TypeOK
<1>5. rows'[id'].saved /\ ~rows'[id'].analyzed
  BY <1>2, <1>4 DEF NoRow
<1>6. Saved' = Saved \cup {id'}
  BY <1>2, <1>4, <1>5 DEF Saved
<1>7. Finished' = Finished
  <2>1. \A i \in Saved : rows'[i] = rows[i]
    BY <1>3, <1>4 DEF Saved
  <2>2. QED
    BY <2>1, <1>5, <1>6 DEF Finished
<1>8. id' <= id'
  BY <1>2 DEF Ids
<1>9. QED
  BY <1>3, <1>6, <1>7, <1>8

LEMMA FinishedIsNewest ==
  ASSUME TypeOK, SnapshotInv, Finishes
  PROVE  /\ Saved' = Saved /\ Finished' = Finished \cup {id}
         /\ id \in Saved /\ \A j \in Saved : j <= id
<1>1. id \in Saved /\ \A j \in Saved : j <= id
  BY DEF SnapshotInv, Finishes
<1>2. ASSUME NEW i \in Ids
      PROVE  rows'[i] = IF i = id THEN [rows[i] EXCEPT !.analyzed = TRUE, !.recs = recs]
                        ELSE rows[i]
  BY DEF Finishes, TypeOK
<1>3. id \in Ids /\ rows[id] \in Row
  BY <1>1 DEF Saved, TypeOK
<1>4. rows'[id].analyzed /\ rows'[id].saved = rows[id].saved
  BY <1>2, <1>3 DEF Row
<1>5. Saved' = Saved
  BY <1>2, <1>4 DEF Saved
<1>6. Finished' = Finished \cup {id}
  BY <1>1, <1>2, <1>4, <1>5, <1>3 DEF Finished, Saved
<1>7. QED
  BY <1>1, <1>5, <1>6

(* What is stored of a cycle stays as it is. *)
LEMMA HistoryStays ==
  ASSUME TypeOK, RowsInv, SnapshotInv, [Next]_vars
  PROVE  /\ Saved \subseteq Saved' /\ Finished \subseteq Finished'
         /\ \A i \in Saved : rows'[i].seen = rows[i].seen
         /\ \A i \in Finished : rows'[i] = rows[i]
<1>1. CASE Stores
  <2>1. id' \notin Saved /\ Saved' = Saved \cup {id'} /\ Finished' = Finished
    BY <1>1, StoredIsNewest
  <2>2. \A i \in Saved : rows'[i] = rows[i]
    BY <1>1, <2>1 DEF Stores, TypeOK, Saved
  <2>3. QED
    BY <2>1, <2>2 DEF Finished
<1>2. CASE Finishes
  <2>1. Saved' = Saved /\ Finished' = Finished \cup {id}
    BY <1>2, FinishedIsNewest
  <2>2. ~rows[id].analyzed
    BY <1>2 DEF Finishes, SnapshotInv
  <2>3. \A i \in Saved : rows'[i].seen = rows[i].seen
    BY <1>2 DEF Finishes, TypeOK, Saved, Row
  <2>4. \A i \in Finished : rows'[i] = rows[i]
    BY <1>2, <2>2 DEF Finishes, TypeOK, Saved, Finished
  <2>5. QED
    BY <2>1, <2>3, <2>4
<1>3. CASE UNCHANGED rows
  BY <1>3 DEF Saved, Finished
<1>4. QED
  BY <1>1, <1>2, <1>3, OnlyTwoStepsWrite

LEMMA RowsStep == TypeOK /\ RowsInv /\ SnapshotInv /\ [Next]_vars => RowsInv'
<1> SUFFICES ASSUME TypeOK, RowsInv, SnapshotInv, [Next]_vars PROVE RowsInv'
  OBVIOUS
<1>1. CASE Stores
  <2>1. Saved' = Saved \cup {id'} /\ Finished' = Finished /\ \A j \in Saved' : j <= id'
    BY <1>1, StoredIsNewest
  <2>2. HasNewest(Saved)' /\ HasNewest(Finished)'
    BY <2>1 DEF HasNewest, RowsInv
  <2>3. \A i \in Ids : rows'[i].analyzed => rows'[i].saved
    BY <1>1 DEF Stores, TypeOK, RowsInv, NoRow
  <2>4. QED
    BY <2>2, <2>3 DEF RowsInv
<1>2. CASE Finishes
  <2>1. /\ Saved' = Saved /\ Finished' = Finished \cup {id}
        /\ id \in Saved /\ \A j \in Saved : j <= id
    BY <1>2, FinishedIsNewest
  <2>2. HasNewest(Saved)' /\ HasNewest(Finished)'
    BY <2>1 DEF HasNewest, RowsInv, Finished
  <2>3. \A i \in Ids : rows'[i].saved = rows[i].saved
    BY <1>2 DEF Finishes, TypeOK, Row
  <2>4. \A i \in Ids : i # id => rows'[i] = rows[i]
    BY <1>2 DEF Finishes, TypeOK
  <2>5. \A i \in Ids : rows'[i].analyzed => rows'[i].saved
    BY <2>1, <2>3, <2>4 DEF RowsInv, Saved
  <2>6. QED
    BY <2>2, <2>5 DEF RowsInv
<1>3. CASE UNCHANGED rows
  BY <1>3 DEF RowsInv, HasNewest, Saved, Finished
<1>4. QED
  BY <1>1, <1>2, <1>3, OnlyTwoStepsWrite

-----------------------------------------------------------------------------
LEMMA SnapshotStep == CycleInv /\ [Next]_vars => SnapshotInv'
<1> SUFFICES ASSUME CycleInv, [Next]_vars PROVE SnapshotInv'
  OBVIOUS
<1> USE DEF CycleInv, outside, local
<1>1. CASE SaveSnapshot
  <2>1. CASE Stores
    <3>1. id' \notin Saved /\ Saved' = Saved \cup {id'} /\ \A j \in Saved' : j <= id'
      BY <2>1, StoredIsNewest
    <3>2. rows'[id'] = [NoRow EXCEPT !.saved = TRUE, !.seen = seen]
      BY <2>1 DEF Stores, TypeOK
    <3>3. \A t \in Targets : proposal'[t] # id'
      <4>1. \A t \in Targets : proposal[t] # 0 => proposal[t] \in Saved
        BY DEF ProposalsAreOnRecord, TypeOK, Saved
      <4>2. id' \notin Saved /\ id' # 0 /\ UNCHANGED proposal
        BY <2>1, <3>1 DEF Stores, Ids
      <4>3. QED
        BY <4>1, <4>2
    <3>4. QED
      BY <2>1, <3>1, <3>2, <3>3 DEF Stores, SnapshotInv, NoRow
  <2>2. CASE pc' = "idle"
    BY <2>2 DEF SnapshotInv
  <2>3. QED
    BY <1>1, <2>1, <2>2 DEF SaveSnapshot, Stores, Goto
<1>2. CASE Record
  <2>1. CASE Finishes
    <3>1. Saved' = Saved
      BY <2>1, FinishedIsNewest
    <3>2. rows'[id].seen = rows[id].seen
      BY <2>1 DEF Finishes, TypeOK, SnapshotInv, Saved, Row
    <3>3. QED
      BY <2>1, <3>1, <3>2 DEF Finishes, SnapshotInv
  <2>2. CASE UNCHANGED rows
    BY <1>2, <2>2 DEF Record, Goto, SnapshotInv, Saved
  <2>3. QED
    BY <1>2, <2>1, <2>2 DEF Record, Finishes, Goto
<1>3. ASSUME NEW t \in Targets, Apply(t) PROVE SnapshotInv'
  BY <1>3 DEF Apply, SnapshotInv, Saved
<1>4. ASSUME NEW t \in Targets, Settle(t) PROVE SnapshotInv'
  <2>1. UNCHANGED <<pc, id, seen, rows>>
    BY <1>4 DEF Settle
  <2>2. Saved' = Saved
    BY <2>1 DEF Saved
  <2>3. ASSUME id \in Saved PROVE \A u \in Targets : proposal[u] # id => proposal'[u] # id
    BY <1>4, <2>3 DEF Settle, TypeOK, Saved, Ids
  <2>4. QED
    BY <2>1, <2>2, <2>3 DEF SnapshotInv
<1>5. CASE StartCycle \/ Collect \/ EndCycle \/ Exit \/ Crash \/ Restart
  <2>1. pc' \in {"collect", "save", "idle", "down"}
    BY <1>5 DEF StartCycle, Collect, EndCycle, Exit, Crash, Restart, Goto
  <2>2. QED
    BY <2>1 DEF SnapshotInv
<1>6. CASE Verify
  BY <1>6 DEF Verify, Goto, SnapshotInv, Saved
<1>7. CASE Analyze
  BY <1>7 DEF Analyze, Goto, SnapshotInv, Saved
<1>8. CASE Read \/ Tick \/ Signal \/ UNCHANGED vars
  <2>1. UNCHANGED <<pc, id, seen, rows, proposal>>
    BY <1>8 DEF Read, Ask, ReadSnapshot, ReadRecommendations, Tick, Signal, vars
  <2>2. QED
    BY <2>1 DEF SnapshotInv, Saved
<1>9. QED
  BY <1>1, <1>2, <1>3, <1>4, <1>5, <1>6, <1>7, <1>8 DEF Next, Cycle

(* A workload is judged by the halts that its PR would have to respect. *)
LEMMA JudgedStep == CycleInv /\ [Next]_vars => JudgedInv'
<1> SUFFICES ASSUME CycleInv, [Next]_vars PROVE JudgedInv'
  OBVIOUS
<1> USE DEF CycleInv, outside, local
<1>1. CASE Verify
  BY <1>1 DEF Verify, Goto, Works, Fails, TypeOK, JudgedInv
<1>2. CASE Analyze
  <2>1. CASE pc' = "idle"
    BY <2>1 DEF JudgedInv
  <2>2. CASE pc' = "record"
    <3>1. PICK verdicts \in SUBSET [target : seen, status : {"Approved", "Rejected"}] :
            recs' = Judged(verdicts)
      BY <1>2, <2>2 DEF Analyze, Goto
    <3>2. UNCHANGED <<halted, halts, seen, stopping, faults>> /\ pc = "analyze"
      BY <1>2, <2>2 DEF Analyze, Goto, Works
    <3>3. faults' = 0 /\ ~stopping' => halted' = halts'
      BY <3>2 DEF JudgedInv
    <3>4. \A r \in Judged(verdicts) :
            r.target \in seen /\ (r.status = "Approved" => r.target \notin halted)
      BY DEF Judged
    <3>5. QED
      BY <2>2, <3>1, <3>2, <3>3, <3>4 DEF JudgedInv
  <2>3. QED
    BY <1>2, <2>1, <2>2 DEF Analyze, Goto
<1>3. CASE Record
  <2>1. ~rows[id].analyzed /\ id \in Ids
    BY <1>3 DEF Record, Goto, SnapshotInv, Saved
  <2>2. rows'[id'].analyzed => rows'[id'].recs = recs'
    BY <1>3, <2>1 DEF Record, TypeOK, Row
  <2>3. \A t \in todo' : [target |-> t, status |-> "Approved"] \in recs'
    BY <1>3 DEF Record, ApprovedTargets, TypeOK, Recommendation
  <2>4. faults' = 0 /\ ~stopping' => halted' = halts'
    BY <1>3 DEF Record, Goto, Works, Fails, TypeOK, JudgedInv
  <2>5. QED
    BY <1>3, <2>2, <2>3, <2>4 DEF Record, Goto, JudgedInv
<1>4. ASSUME NEW t \in Targets, Apply(t) PROVE JudgedInv'
  BY <1>4 DEF Apply, JudgedInv
<1>5. CASE StartCycle \/ Collect \/ SaveSnapshot \/ EndCycle \/ Exit \/ Crash \/ Restart
  <2>1. pc' \in {"collect", "save", "verify", "idle", "down"}
    BY <1>5 DEF StartCycle, Collect, SaveSnapshot, EndCycle, Exit, Crash, Restart, Goto
  <2>2. QED
    BY <2>1 DEF JudgedInv
<1>6. CASE Read \/ Tick \/ Signal \/ UNCHANGED vars \/ \E t \in Targets : Settle(t)
  <2>1. /\ UNCHANGED <<pc, id, seen, rows, halted, halts, recs, todo, faults>>
        /\ stopping => stopping'
    BY <1>6 DEF Read, Ask, ReadSnapshot, ReadRecommendations, Tick, Signal, vars, Settle
  <2>2. QED
    BY <2>1 DEF JudgedInv
<1>7. QED
  BY <1>1, <1>2, <1>3, <1>4, <1>5, <1>6 DEF Next, Cycle

-----------------------------------------------------------------------------
LEMMA OnlyApplyProposes ==
  ASSUME TypeOK, [Next]_vars, NEW t \in Targets, proposal'[t] # 0, proposal'[t] # proposal[t]
  PROVE  Apply(t) /\ proposal'[t] = id
<1> USE DEF outside
<1>1. ASSUME NEW u \in Targets, Apply(u) PROVE Apply(t) /\ proposal'[t] = id
  BY <1>1 DEF Apply, TypeOK
<1>2. ASSUME NEW u \in Targets, Settle(u) PROVE FALSE
  BY <1>2 DEF Settle, TypeOK
<1>3. CASE UNCHANGED proposal
  BY <1>3
<1>4. (\E u \in Targets : Apply(u)) \/ (\E u \in Targets : Settle(u)) \/ UNCHANGED proposal
  BY DEF Next, Cycle, StartCycle, Collect, SaveSnapshot, Verify, Analyze, Record, EndCycle,
     Exit, Read, Ask, ReadSnapshot, ReadRecommendations, Tick, Signal, Crash, Restart, vars
<1>5. QED
  BY <1>1, <1>2, <1>3, <1>4

LEMMA ProposalStep == CycleInv /\ [Next]_vars => ProposalsAreOnRecord'
<1> SUFFICES ASSUME CycleInv, [Next]_vars PROVE ProposalsAreOnRecord'
  OBVIOUS
<1> DEFINE OnRecord(t, i, rs) ==
      /\ rs[i].saved /\ t \in rs[i].seen
      /\ rs[i].analyzed => [target |-> t, status |-> "Approved"] \in rs[i].recs
<1> SUFFICES ASSUME NEW t \in Targets, proposal'[t] # 0
             PROVE  OnRecord(t, proposal'[t], rows')
  BY DEF ProposalsAreOnRecord
<1> USE DEF CycleInv, outside, local
<1>1. CASE proposal'[t] = proposal[t]
  <2>1. proposal[t] \in Ids /\ OnRecord(t, proposal[t], rows)
    BY <1>1 DEF ProposalsAreOnRecord, TypeOK
  <2>2. proposal[t] \in Saved
    BY <2>1 DEF Saved
  <2>3. CASE Stores
    <3>1. proposal[t] # id'
      BY <2>2, <2>3, StoredIsNewest
    <3>2. rows'[proposal[t]] = rows[proposal[t]]
      BY <2>1, <2>3, <3>1 DEF Stores, TypeOK
    <3>3. QED
      BY <1>1, <2>1, <3>2
  <2>4. CASE Finishes
    <3>1. proposal[t] # id
      BY <2>4 DEF Finishes, SnapshotInv
    <3>2. rows'[proposal[t]] = rows[proposal[t]]
      BY <2>1, <2>4, <3>1 DEF Finishes, TypeOK
    <3>3. QED
      BY <1>1, <2>1, <3>2
  <2>5. CASE UNCHANGED rows
    BY <1>1, <2>1, <2>5
  <2>6. QED
    BY <2>3, <2>4, <2>5, OnlyTwoStepsWrite
<1>2. CASE proposal'[t] # proposal[t]
  <2>1. Apply(t) /\ proposal'[t] = id
    BY <1>2, OnlyApplyProposes
  <2>2. UNCHANGED rows /\ pc = "apply" /\ t \in todo
    BY <2>1 DEF Apply
  <2>3. [target |-> t, status |-> "Approved"] \in recs
    BY <2>2 DEF JudgedInv
  <2>4. t \in seen
    BY <2>2, <2>3 DEF JudgedInv
  <2>5. rows[id].saved /\ rows[id].seen = seen
    BY <2>2 DEF SnapshotInv, Saved
  <2>6. rows[id].analyzed => rows[id].recs = recs
    BY <2>2 DEF JudgedInv
  <2>7. QED
    BY <2>1, <2>2, <2>3, <2>4, <2>5, <2>6
<1>3. QED
  BY <1>1, <1>2

(* What a request has been told is still true, or has been overtaken. *)
LEMMA RequestStep == CycleInv /\ [Next]_vars => RequestInv'
<1> SUFFICES ASSUME CycleInv, [Next]_vars PROVE RequestInv'
  OBVIOUS
<1> USE DEF CycleInv
<1>1. /\ Saved \subseteq Saved' /\ Finished \subseteq Finished'
      /\ \A i \in Finished : rows'[i] = rows[i]
  BY HistoryStays
<1>2. CASE UNCHANGED request
  <2>1. ASSUME NEW i \in Ids, rows[i].analyzed
        PROVE  rows'[i].analyzed /\ rows'[i].recs = rows[i].recs
    <3>1. i \in Finished
      BY <2>1 DEF RowsInv, Finished, Saved
    <3>2. QED
      BY <1>1, <2>1, <3>1
  <2>2. AnswersAreFresh'
    BY <1>2, <2>1 DEF RequestInv, AnswersAreFresh
  <2>3. QED
    BY <1>1, <1>2, <2>2 DEF RequestInv
<1>3. CASE request' = NoRequest
  BY <1>3 DEF NoRequest, RequestInv, AnswersAreFresh
<1>4. CASE Read
  <2>1. /\ LatestSnapshot # 0 => LatestSnapshot \in Saved
        /\ \A j \in Saved : j <= LatestSnapshot
        /\ LatestAnalysed # 0 => LatestAnalysed \in Finished
        /\ LatestAnalysed = 0 => Finished = {}
        /\ \A j \in Finished : j <= LatestAnalysed
        /\ LatestSnapshot \in Nat /\ LatestAnalysed \in Nat
    BY LatestIsNewest DEF Ids
  <2>2. UNCHANGED rows /\ Saved' = Saved /\ Finished' = Finished
    BY <1>4 DEF Read, Ask, ReadSnapshot, ReadRecommendations, outside, Saved, Finished
  <2>3. CASE Ask
    BY <2>1, <2>2, <2>3 DEF Ask, NoRequest, RequestInv, AnswersAreFresh
  <2>4. CASE ReadSnapshot /\ LatestSnapshot # 0
    <3>1. request' = [request EXCEPT !.at = "read", !.snapshot = LatestSnapshot]
      BY <2>4 DEF ReadSnapshot
    <3>2. LatestSnapshot >= request.newest
      BY <2>1 DEF RequestInv
    <3>3. QED
      BY <2>2, <3>1, <3>2 DEF RequestInv, AnswersAreFresh, TypeOK, Request
  <2>5. CASE ReadSnapshot /\ LatestSnapshot = 0
    BY <1>3, <2>5 DEF ReadSnapshot
  <2>6. CASE ReadRecommendations
    <3>1. /\ request' = [request EXCEPT !.at = "answered", !.recs = LatestRecommendations]
          /\ request.at = "read"
      BY <2>6 DEF ReadRecommendations
    <3>2. CASE LatestAnalysed = 0
      <4>1. request.newestAnalysis = 0 /\ LatestRecommendations = {}
        BY <2>1, <3>2 DEF RequestInv, LatestRecommendations
      <4>2. QED
        BY <2>2, <3>1, <4>1 DEF RequestInv, AnswersAreFresh, TypeOK, Request
    <3>3. CASE LatestAnalysed # 0
      <4>1. LatestAnalysed \in Ids /\ rows[LatestAnalysed].analyzed
        BY <2>1, <3>3 DEF Finished, Saved
      <4>2. LatestAnalysed >= request.newestAnalysis
        BY <2>1 DEF RequestInv
      <4>3. LatestRecommendations = rows[LatestAnalysed].recs
        BY <3>3 DEF LatestRecommendations
      <4>4. QED
        BY <2>2, <3>1, <4>1, <4>2, <4>3 DEF RequestInv, AnswersAreFresh, TypeOK, Request
    <3>4. QED
      BY <3>2, <3>3
  <2>7. QED
    BY <1>4, <2>3, <2>4, <2>5, <2>6 DEF Read
<1>5. request' = request \/ request' = NoRequest \/ Read
  BY DEF Next, Cycle, StartCycle, Collect, SaveSnapshot, Verify, Analyze, Record, Apply,
     EndCycle, Exit, Tick, Signal, Crash, Restart, Settle, vars
<1>6. QED
  BY <1>2, <1>3, <1>4, <1>5

LEMMA CycleInvInit == Init => CycleInv
<1> SUFFICES ASSUME Init PROVE CycleInv
  OBVIOUS
<1>1. \A i \in Ids : ~rows[i].saved /\ ~rows[i].analyzed
  BY DEF Init, NoRow
<1>2. Saved = {} /\ Finished = {}
  BY <1>1 DEF Saved, Finished
<1>3. RowsInv
  BY <1>1, <1>2 DEF RowsInv, HasNewest
<1>4. SnapshotInv /\ JudgedInv /\ ProposalsAreOnRecord
  BY DEF Init, SnapshotInv, JudgedInv, ProposalsAreOnRecord
<1>5. RequestInv
  BY DEF Init, NoRequest, RequestInv, AnswersAreFresh
<1>6. QED
  BY <1>3, <1>4, <1>5, TypeInit DEF CycleInv

LEMMA CycleInvStep == CycleInv /\ [Next]_vars => CycleInv'
BY TypeStep, RowsStep, SnapshotStep, JudgedStep, ProposalStep, RequestStep DEF CycleInv

LEMMA CycleInvariant == Spec => []CycleInv
BY CycleInvInit, CycleInvStep, PTL DEF Spec

-----------------------------------------------------------------------------
(* Every variable keeps its type. *)
THEOREM CycleTypeCorrect == Spec => []TypeOK
<1>1. CycleInv => TypeOK
  BY DEF CycleInv
<1>2. QED
  BY <1>1, CycleInvariant, PTL

(* Every open PR stems from a stored snapshot, and from an approval if the
   analysis of that snapshot was stored. *)
THEOREM OpenPRsAreOnRecord == Spec => []ProposalsAreOnRecord
<1>1. CycleInv => ProposalsAreOnRecord
  BY DEF CycleInv
<1>2. QED
  BY <1>1, CycleInvariant, PTL

(* No answer of the overview is older than what was stored when it was asked
   for, however the two queries and the cycle's writes interleave. *)
THEOREM OverviewIsFresh == Spec => []AnswersAreFresh
<1>1. CycleInv => AnswersAreFresh
  BY DEF CycleInv, RequestInv
<1>2. QED
  BY <1>1, CycleInvariant, PTL

(* A proposal is written by the cycle that judged its workload and holds it for
   not halted. *)
LEMMA NoneForHalted ==
  ASSUME CycleInv, [Next]_vars, NEW t \in Targets,
         proposal'[t] # 0, proposal'[t] # proposal[t]
  PROVE  t \notin halted /\ (faults = 0 => halted = halts)
<1>1. pc = "apply" /\ t \in todo /\ Apply(t)
  BY OnlyApplyProposes DEF Apply, CycleInv
<1>2. ~stopping
  BY <1>1 DEF Apply
<1>3. [target |-> t, status |-> "Approved"] \in recs
  BY <1>1 DEF CycleInv, JudgedInv
<1>4. QED
  BY <1>1, <1>2, <1>3 DEF CycleInv, JudgedInv

(* No cycle proposes anything for a workload that its own verification found
   halted, nor, until the first failure, for one that is stored as halted. *)
THEOREM HaltsAreRespected == Spec => HaltedGetsNoProposal
<1>1. CycleInv /\ [Next]_vars =>
        [\A t \in Targets :
           t \in halted \/ (t \in halts /\ faults = 0)
           => proposal'[t] \in {proposal[t], 0}]_vars
  BY NoneForHalted
<1>2. QED
  BY <1>1, CycleInvariant, PTL DEF Spec, HaltedGetsNoProposal
=============================================================================
