------------------------------- MODULE Cycle -------------------------------
(***************************************************************************)
(* The agent's process: main's loop runs one reconciliation cycle after    *)
(* the other, each collects a snapshot, stores it, verifies merged         *)
(* changes, has the snapshot analysed, stores the judged recommendations   *)
(* and proposes the approved ones. The read API answers from the same      *)
(* database between any two steps.                                         *)
(*                                                                         *)
(* The verifier's run and an operation of the generator are one step each: *)
(* what they do inside, and how they fail, is Verifier.tla's and           *)
(* Generator.tla's. How the policies judge is Rightsizing.tla's. A         *)
(* snapshot's id stands for its timestamp too: the wall clock is taken not *)
(* to step back between two cycles.                                        *)
(***************************************************************************)
EXTENDS Integers, FiniteSets

CONSTANTS
  Targets,     \* the workloads in the namespaces that are looked at
  MaxCycles,   \* bound: snapshots stored
  MaxFaults    \* bound: failing calls and crashes

ASSUME CycleAssumption == MaxCycles \in Nat /\ MaxFaults \in Nat

Ids == 1..MaxCycles

Recommendation == [target : Targets, status : {"Approved", "Rejected"}]

(* A row of cluster_snapshots with its workloads and recommendations. *)
Row == [saved : BOOLEAN, seen : SUBSET Targets, analyzed : BOOLEAN,
        recs : SUBSET Recommendation]

NoRow == [saved |-> FALSE, seen |-> {}, analyzed |-> FALSE, recs |-> {}]

(* A request for the overview: the newest snapshot and the newest analysed one
   when it came in, the snapshot it has read, and what it answers. *)
Request ==
  [at : {"none", "asked", "read", "answered"}, newest : Ids \cup {0},
   newestAnalysis : Ids \cup {0}, snapshot : Ids \cup {0}, recs : SUBSET Recommendation]

NoRequest ==
  [at |-> "none", newest |-> 0, newestAnalysis |-> 0, snapshot |-> 0, recs |-> {}]

VARIABLES
  pc,        \* where the loop is
  id,        \* the id of this cycle's snapshot, 0 before it is stored
  seen,      \* the workloads in this cycle's snapshot
  halted,    \* what the verifier's run returned
  recs,      \* this cycle's recommendations, judged
  todo,      \* the workloads still to propose changes for
  due,       \* the ticker has fired
  stopping,  \* a signal has come in: the context is cancelled
  rows,      \* cluster_snapshots, workload_snapshots, recommendations
  halts,     \* halted_workloads
  proposal,  \* the cycle that wrote a workload's open PR, 0 if none is open
  request,   \* a request to the read API
  faults

local == <<id, seen, halted, recs, todo>>
outside == <<rows, halts, proposal>>
vars == <<pc, id, seen, halted, recs, todo, due, stopping, rows, halts,
          proposal, request, faults>>

-----------------------------------------------------------------------------
(* The store.                                                              *)

Saved == {i \in Ids : rows[i].saved}

(* The newest of some ids, 0 if there is none. *)
Newest(ids) == IF ids = {} THEN 0 ELSE CHOOSE i \in ids : \A j \in ids : j <= i

(* GetLatestSnapshot. *)
LatestSnapshot == Newest(Saved)

LatestAnalysedOrNot == Newest(Saved)

(* The snapshot that LatestOnly asks for. *)
LatestAnalysed == Newest({i \in Saved : rows[i].analyzed})

(* GetRecommendations with LatestOnly: none before the first analysis. *)
LatestRecommendations ==
  IF LatestAnalysed = 0 THEN {} ELSE rows[LatestAnalysed].recs

Init ==
  /\ pc = "collect"                     \* the first cycle runs immediately
  /\ id = 0 /\ seen = {} /\ halted = {} /\ recs = {} /\ todo = {}
  /\ due = FALSE /\ stopping = FALSE
  /\ rows = [i \in Ids |-> NoRow]
  /\ halts = {}
  /\ proposal = [t \in Targets |-> 0]
  /\ request = NoRequest
  /\ faults = 0

(* A call fails, by itself or because the context is cancelled. *)
Fails ==
  \/ stopping /\ UNCHANGED faults
  \/ ~stopping /\ faults < MaxFaults /\ faults' = faults + 1

Works == ~stopping /\ UNCHANGED faults

Goto(from, to) == pc = from /\ pc' = to

Forget == id' = 0 /\ seen' = {} /\ halted' = {} /\ recs' = {} /\ todo' = {}

-----------------------------------------------------------------------------
(* main's loop and runCycle.                                               *)

StartCycle ==
  /\ Goto("idle", "collect")
  /\ due /\ due' = FALSE
  /\ UNCHANGED <<local, stopping, outside, request, faults>>

(* The namespaces cannot be listed: no cycle. A namespace whose Deployments
   cannot be listed is left out of the snapshot. *)
Collect ==
  /\ \/ Works /\ Goto("collect", "save") /\ seen' \in SUBSET Targets
     \/ Fails /\ Goto("collect", "idle") /\ UNCHANGED seen
  /\ UNCHANGED <<id, halted, recs, todo, due, stopping, outside, request>>

SaveSnapshot ==
  \/ /\ Works /\ Goto("save", "verify")
     /\ id' = LatestSnapshot + 1
     /\ id' \in Ids
     /\ rows' = [rows EXCEPT ![id'] = [NoRow EXCEPT !.saved = TRUE, !.seen = seen]]
     /\ UNCHANGED <<seen, halted, recs, todo, due, stopping, halts, proposal, request>>
  \/ /\ Fails /\ Goto("save", "idle")
     /\ Forget
     /\ UNCHANGED <<due, stopping, outside, request>>

(* verifier.Run: any workload may be halted or resumed by it. If it cannot read
   the verifications it returns nothing and leaves the table as it is; if it
   cannot store the halts it returns them all the same. *)
Verify ==
  /\ Goto("verify", "analyze")
  /\ \/ Works /\ halted' \in SUBSET Targets /\ halts' = halted'
     \/ Fails /\ halted' = {} /\ UNCHANGED halts
     \/ Fails /\ halted' \in SUBSET Targets /\ UNCHANGED halts
  /\ UNCHANGED <<id, seen, recs, todo, due, stopping, rows, proposal, request>>

JudgedByPolicy(verdicts) == verdicts

JudgedHalted(verdicts) ==
  {[target |-> r.target, status |-> IF r.target \in halted THEN "Halted" ELSE r.status] :
     r \in verdicts}

(* What the policies approved is rejected all the same for a halted workload. *)
Judged(verdicts) ==
  {[target |-> r.target,
    status |-> IF r.target \in halted THEN "Rejected" ELSE r.status] : r \in verdicts}

(* The AI service recommends for workloads of the snapshot only, the policies
   approve or reject. Without an answer the snapshot stays unanalysed. *)
Analyze ==
  \/ /\ Works /\ Goto("analyze", "record")
     /\ \E verdicts \in SUBSET [target : seen, status : {"Approved", "Rejected"}] :
          recs' = Judged(verdicts)
     /\ UNCHANGED <<id, seen, halted, todo, due, stopping, outside, request>>
  \/ /\ Fails /\ Goto("analyze", "idle")
     /\ Forget
     /\ UNCHANGED <<due, stopping, outside, request>>

ApprovedAnyhow(judged) == {r.target : r \in judged}

ApprovedTargets(judged) == {r.target : r \in {r \in judged : r.status = "Approved"}}

(* SaveRecommendations is one transaction; without it the cycle goes on. *)
Record ==
  /\ Goto("record", "apply")
  /\ \/ Works /\ rows' = [rows EXCEPT ![id] = [@ EXCEPT !.analyzed = TRUE, !.recs = recs]]
     \/ Fails /\ UNCHANGED rows
  /\ todo' = ApprovedTargets(recs)
  /\ UNCHANGED <<id, seen, halted, recs, due, stopping, halts, proposal, request>>

(* Apply, one workload: a PR is opened or rewritten, or nothing is to be done,
   or it fails; the others are handled all the same. *)
Apply(t) ==
  /\ pc = "apply" /\ t \in todo
  /\ todo' = todo \ {t}
  /\ \/ ~stopping /\ proposal' = [proposal EXCEPT ![t] = id]
     \/ UNCHANGED proposal
  /\ UNCHANGED <<pc, id, seen, halted, recs, due, stopping, rows, halts, request, faults>>

EndCycle ==
  /\ Goto("apply", "idle") /\ todo = {}
  /\ Forget
  /\ UNCHANGED <<due, stopping, outside, request, faults>>

MayExitWhenQuiet == stopping /\ ~due

(* select: the loop may leave as soon as the context is cancelled, whether or
   not the ticker has fired too. *)
MayExit == stopping

(* The HTTP server is shut down and the database closed. *)
Exit ==
  /\ Goto("idle", "down") /\ MayExit
  /\ request' = NoRequest /\ due' = FALSE /\ stopping' = FALSE
  /\ UNCHANGED <<local, outside, faults>>

Cycle == StartCycle \/ Collect \/ SaveSnapshot \/ Verify \/ Analyze \/ Record
         \/ (\E t \in Targets : Apply(t)) \/ EndCycle

-----------------------------------------------------------------------------
(* The read API: the overview takes two queries.                           *)

Ask ==
  /\ pc # "down" /\ request.at \in {"none", "answered"}
  /\ request' = [NoRequest EXCEPT !.at = "asked", !.newest = LatestSnapshot,
                                  !.newestAnalysis = LatestAnalysed]
  /\ UNCHANGED <<pc, local, due, stopping, outside, faults>>

(* The first query, or 404. *)
ReadSnapshot ==
  /\ request.at = "asked"
  /\ request' =
       IF LatestSnapshot = 0 THEN NoRequest
       ELSE [request EXCEPT !.at = "read", !.snapshot = LatestSnapshot]
  /\ UNCHANGED <<pc, local, due, stopping, outside, faults>>

ReadRecommendations ==
  /\ request.at = "read"
  /\ request' = [request EXCEPT !.at = "answered", !.recs = LatestRecommendations]
  /\ UNCHANGED <<pc, local, due, stopping, outside, faults>>

Read == Ask \/ ReadSnapshot \/ ReadRecommendations

-----------------------------------------------------------------------------
(* The environment: the ticker, a signal, a crash, a restart; a human merges
   or closes the open PR of a workload.                                    *)

Tick ==
  /\ pc # "down" /\ ~due
  /\ due' = TRUE
  /\ UNCHANGED <<pc, local, stopping, outside, request, faults>>

Signal ==
  /\ pc # "down" /\ ~stopping
  /\ stopping' = TRUE
  /\ UNCHANGED <<pc, local, due, outside, request, faults>>

Crash ==
  /\ pc # "down" /\ pc' = "down"
  /\ faults < MaxFaults /\ faults' = faults + 1
  /\ Forget
  /\ request' = NoRequest /\ due' = FALSE /\ stopping' = FALSE
  /\ UNCHANGED outside

Restart ==
  /\ Goto("down", "collect")
  /\ UNCHANGED <<local, due, stopping, outside, request, faults>>

Settle(t) ==
  /\ proposal[t] # 0
  /\ proposal' = [proposal EXCEPT ![t] = 0]
  /\ UNCHANGED <<pc, local, due, stopping, rows, halts, request, faults>>

Next ==
  Cycle \/ Exit \/ Read \/ Tick \/ Signal \/ Crash \/ Restart
  \/ \E t \in Targets : Settle(t)

Spec == Init /\ [][Next]_vars

(* A cycle goes on: every call has a timeout. Go's select picks each ready case
   with the same probability, so an exit that is possible again and again is
   taken. *)
FairSpec == Spec /\ WF_vars(Cycle) /\ SF_vars(Exit)
-----------------------------------------------------------------------------
TypeOK ==
  /\ pc \in {"down", "idle", "collect", "save", "verify", "analyze", "record", "apply"}
  /\ id \in Ids \cup {0}
  /\ seen \subseteq Targets /\ halted \subseteq Targets
  /\ recs \subseteq Recommendation
  /\ todo \subseteq Targets
  /\ due \in BOOLEAN /\ stopping \in BOOLEAN
  /\ rows \in [Ids -> Row]
  /\ halts \subseteq Targets
  /\ proposal \in [Targets -> Ids \cup {0}]
  /\ request \in Request
  /\ faults \in 0..MaxFaults

(* An open PR stems from a stored snapshot that holds its workload; and if the
   analysis of that snapshot was stored, it says there that the change was
   approved. That it was not stored is possible: a failed save does not stop
   the PRs. *)
ProposalsAreOnRecord ==
  \A t \in Targets : proposal[t] # 0 =>
    LET row == rows[proposal[t]] IN
      /\ row.saved /\ t \in row.seen
      /\ row.analyzed => [target |-> t, status |-> "Approved"] \in row.recs

(* A workload that the verifier found halted gets no new proposal in that cycle,
   though verification, analysis and generation are steps of their own, which a
   crash or a signal may come between. Neither does one that the database has
   down as halted, as long as no call has failed and the process has not died:
   after a failed read of the verifications, or a failed write of the halts, the
   table holds others than the cycle goes by. *)
HaltedGetsNoProposal ==
  [][\A t \in Targets :
       t \in halted \/ (t \in halts /\ faults = 0)
       => proposal'[t] \in {proposal[t], 0}]_vars

(* What the overview shows is not older than what was there when it was asked
   for: the snapshot, and the recommendations of a finished analysis. A cycle
   that has stored its snapshot and not yet its analysis, or died in between,
   does not blank the recommendations. *)
AnswersAreFresh ==
  request.at = "answered" =>
    /\ request.snapshot >= request.newest
    /\ \/ request.newestAnalysis = 0 /\ request.recs = {}
       \/ \E i \in Ids : /\ i >= request.newestAnalysis
                        /\ rows[i].analyzed /\ request.recs = rows[i].recs

(* After a signal the process ends, whatever the cycle is doing and although
   the ticker goes on firing. *)
SignalEndsTheAgent == stopping ~> pc = "down"
=============================================================================
