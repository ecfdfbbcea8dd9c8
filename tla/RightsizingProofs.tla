------------------------- MODULE RightsizingProofs -------------------------
(***************************************************************************)
(* Type correctness of the rightsizing loop, and what the AI service's     *)
(* arithmetic and the policies make of the load: no PR takes a workload    *)
(* below the floors, and for a cluster in sync none causes throttling or   *)
(* cuts a request by more than the policy allows, for all requests,        *)
(* counts, demands and limits.                                             *)
(***************************************************************************)
EXTENDS Rightsizing, TLAPS

Recs == [from : Sizes, to : Sizes, factor : Nat]

(* Rounding a fraction of naturals gives a natural. *)
LEMMA RoundedIsNat ==
  ASSUME NEW num \in Nat, NEW den \in Nat \ {0}, NEW n \in Rounded(num, den)
  PROVE  n \in Nat
<1>1. num \div den \in Nat
  BY Z3
<1>. QED
  BY <1>1 DEF Rounded

LEMMA ReplicasPositive ==
  ASSUME NEW size \in Sizes
  PROVE  Replicas(size) \in Nat \ {0}
BY DEF Sizes, Replicas, Larger

(* The AI service recommends at most one change of the CPU request, which
   leaves the replicas alone... *)
LEMMA CPURecsType ==
  ASSUME NEW size \in Sizes, NEW u \in Nat, NEW recs \in CPURecs(size, u)
  PROVE  recs = {} \/ \E rec \in Recs :
           recs = {rec} /\ rec.to.replicas = rec.from.replicas
<1>1. /\ Replicas(size) \in Nat \ {0} /\ size.cpu \in Nat
      /\ 10 * Replicas(size) \in Nat \ {0} /\ 4 * Replicas(size) \in Nat \ {0}
      /\ 13 * u \in Nat /\ 5 * u \in Nat /\ 7 * size.cpu \in Nat /\ 6 * size.cpu \in Nat
  BY ReplicasPositive DEF Sizes
<1>2. ASSUME NEW c \in Nat, NEW factor \in Nat
      PROVE  /\ Rec(size, c, Replicas(size), factor) \in Recs
             /\ LET rec == Rec(size, c, Replicas(size), factor)
                IN  rec.to.replicas = rec.from.replicas
  BY <1>1 DEF Rec, Recs, Sizes
<1>3. ASSUME NEW a \in Nat, NEW b \in Nat PROVE Larger(a, b) \in Nat
  BY DEF Larger
<1>4. CASE recs \in CPUDown(size, u)
  <2>1. PICK safe \in Rounded(13 * u, 10 * Replicas(size)),
             capped \in Rounded(7 * size.cpu, 10) :
          recs = IF 100 * Larger(safe, capped) < 95 * size.cpu
                 THEN {Rec(size, Larger(safe, capped), Replicas(size), 92)} ELSE {}
    BY <1>4 DEF CPUDown
  <2>2. safe \in Nat /\ capped \in Nat
    BY <1>1, RoundedIsNat
  <2>3. Larger(safe, capped) \in Nat
    BY <2>2, <1>3
  <2>. QED
    BY <2>1, <2>3, <1>2
<1>5. CASE recs \in CPUUp(size, u)
  <2>1. PICK peak \in Rounded(5 * u, 4 * Replicas(size)),
             step \in Rounded(6 * size.cpu, 5) :
          recs = {Rec(size, Larger(peak, step), Replicas(size), 88)}
    BY <1>5 DEF CPUUp
  <2>2. peak \in Nat /\ step \in Nat
    BY <1>1, RoundedIsNat
  <2>3. Larger(peak, step) \in Nat
    BY <2>2, <1>3
  <2>. QED
    BY <2>1, <2>3, <1>2
<1>6. CASE recs = {}
  BY <1>6
<1>. QED
  BY <1>4, <1>5, <1>6 DEF CPURecs

(* ... and at most one change of the replicas, which leaves the request alone. *)
LEMMA ReplicaRecsType ==
  ASSUME NEW size \in Sizes, NEW u \in Nat, NEW rising \in BOOLEAN
  PROVE  LET recs == ReplicaRecs(size, u, rising)
         IN  recs = {} \/ \E rec \in Recs :
               recs = {rec} /\ rec.to.cpu = rec.from.cpu
                            /\ rec.to.replicas < rec.from.replicas
<1>1. CASE Replicas(size) > 2 /\ LowLoad(size, u) /\ ~rising
  <2>. DEFINE rec == Rec(size, size.cpu, Replicas(size) - 1, 85)
  <2>1. ReplicaRecs(size, u, rising) = {rec}
    BY <1>1 DEF ReplicaRecs
  <2>2. /\ rec \in Recs /\ rec.to.cpu = rec.from.cpu
        /\ rec.to.replicas < rec.from.replicas
    BY <1>1, ReplicasPositive DEF Rec, Recs, Sizes
  <2>. HIDE DEF rec
  <2>. QED
    BY <2>1, <2>2
<1>2. CASE ~(Replicas(size) > 2 /\ LowLoad(size, u) /\ ~rising)
  BY <1>2 DEF ReplicaRecs
<1>. QED
  BY <1>1, <1>2

(* What an approved recommendation changes is above the floors. *)
AboveFloors(cs) ==
  /\ cs \in ChangeSets
  /\ cs.cpu # Unchanged => cs.cpu >= MinCPU
  /\ cs.replicas # Unchanged => cs.replicas >= Floor

LEMMA ApprovedIsAboveFloors ==
  ASSUME RightsizingAssumption, kind \in Kinds,
         NEW rec \in Recs, NEW certainty, Approved(rec, certainty),
         rec.to.replicas <= rec.from.replicas
  PROVE  AboveFloors(Diff(rec))
<1>1. Diff(rec) \in ChangeSets
  BY DEF Diff, ChangeSets, Recs, Sizes
<1>2. rec.to.cpu >= MinCPU
  BY DEF Approved, KyvernoApproves
<1>3. ASSUME rec.to.replicas # rec.from.replicas
      PROVE  rec.to.replicas >= Floor
  <2>1. /\ rec.to.replicas \in Nat /\ rec.from.replicas \in Nat
        /\ MinReplicas \in Nat
    BY DEF Recs, Sizes, RightsizingAssumption
  <2>2. rec.to.replicas >= MinReplicas
    BY <1>3, <2>1 DEF Approved, LocalApproves, ReplicasBelow
  <2>3. kind.prod => rec.to.replicas >= 3
    BY <1>3, <2>1 DEF Approved, OPAApproves, ReplicasBelow
  <2>. QED
    BY <2>1, <2>2, <2>3 DEF Floor, Larger
<1>. QED
  BY <1>1, <1>2, <1>3 DEF AboveFloors, Diff

LEMMA PlanIsAboveFloors ==
  ASSUME RightsizingAssumption, kind \in Kinds, NEW size \in Sizes, NEW u \in Nat,
         NEW certainty, NEW rising \in BOOLEAN, NEW recs \in CPURecs(size, u)
  PROVE  AboveFloors(Plan(recs, ReplicaRecs(size, u, rising), certainty))
<1>. DEFINE Change(S) == IF \E rec \in S : Approved(rec, certainty)
                         THEN Diff(CHOOSE rec \in S : TRUE) ELSE Empty
            fewer == ReplicaRecs(size, u, rising)
<1>1. AboveFloors(Empty)
  BY DEF AboveFloors, Empty, ChangeSets, Unchanged
<1>2. ASSUME NEW S, S = {} \/ \E rec \in Recs : S = {rec} /\ rec.to.replicas <= rec.from.replicas
      PROVE  AboveFloors(Change(S))
  <2>1. CASE ~ \E rec \in S : Approved(rec, certainty)
    BY <1>1, <2>1
  <2>2. CASE \E rec \in S : Approved(rec, certainty)
    <3>1. PICK rec \in Recs : S = {rec} /\ rec.to.replicas <= rec.from.replicas
      BY <1>2, <2>2
    <3>2. Approved(rec, certainty) /\ (CHOOSE x \in S : TRUE) = rec
      BY <3>1, <2>2
    <3>3. AboveFloors(Diff(rec))
      BY <3>1, <3>2, ApprovedIsAboveFloors
    <3>. QED
      BY <2>2, <3>2, <3>3
  <2>. QED
    BY <2>1, <2>2
<1>3. AboveFloors(Change(recs))
  <2>1. recs = {} \/ \E rec \in Recs : recs = {rec} /\ rec.to.replicas <= rec.from.replicas
    BY CPURecsType DEF Recs, Sizes
  <2>. QED
    BY <2>1, <1>2
<1>4. AboveFloors(Change(fewer))
  <2>1. fewer = {} \/ \E rec \in Recs : fewer = {rec} /\ rec.to.replicas <= rec.from.replicas
    BY ReplicaRecsType DEF Recs, Sizes
  <2>. QED
    BY <2>1, <1>2
<1>5. Plan(recs, fewer, certainty) =
        MergeInto(IF kind.memory THEN Change(recs) ELSE Empty, Change(fewer))
  BY DEF Plan
<1>. HIDE DEF Change
<1>6. AboveFloors(IF kind.memory THEN Change(recs) ELSE Empty)
  BY <1>1, <1>3
<1>. QED
  BY <1>4, <1>5, <1>6 DEF AboveFloors, MergeInto, ChangeSets

-----------------------------------------------------------------------------
(* The inductive invariant: a PR is above the floors wherever it differs from
   what it was cut from. FloorsKept needs it, for a PR outlives the cycle, the
   demand and the replicas it was made for. *)
ProposalAboveFloors ==
  pr.open =>
    /\ pr.head.cpu # pr.base.cpu => pr.head.cpu >= MinCPU
    /\ pr.head.replicas # pr.base.replicas => pr.head.replicas >= Floor

RightsizingInv == TypeOK /\ ProposalAboveFloors

LEMMA PatchedType ==
  ASSUME kind \in Kinds, NEW size \in Sizes, NEW cs, AboveFloors(cs)
  PROVE  /\ Patched(size, cs) \in Sizes
         /\ Patched(size, cs).cpu # size.cpu => Patched(size, cs).cpu >= MinCPU
         /\ Patched(size, cs).replicas # size.replicas =>
              Patched(size, cs).replicas >= Floor
BY DEF Patched, AboveFloors, ChangeSets, Sizes, Unchanged

LEMMA RightsizingInit ==
  ASSUME RightsizingAssumption, Init
  PROVE  RightsizingInv
<1>1. manifest \in Sizes /\ live \in Sizes
  BY DEF Init, Sizes, RightsizingAssumption
<1>2. pr = NoPR /\ ~pr.open
  BY DEF Init, NoPR
<1>3. TypeOK
  BY <1>1, <1>2 DEF Init, TypeOK, RightsizingAssumption
<1>. QED
  BY <1>2, <1>3 DEF RightsizingInv, ProposalAboveFloors

LEMMA RightsizingStep ==
  ASSUME RightsizingAssumption, RightsizingInv, [Next]_vars
  PROVE  RightsizingInv'
<1>. USE DEF RightsizingInv
<1>1. CASE Analyze
  <2>1. PICK certainty \in Certainties, rising \in BOOLEAN, recs \in CPURecs(live, usage) :
          Propose(Plan(recs, ReplicaRecs(live, usage, rising), certainty))
    BY <1>1 DEF Analyze
  <2>. DEFINE cs == Plan(recs, ReplicaRecs(live, usage, rising), certainty)
  <2>2. kind \in Kinds /\ live \in Sizes /\ manifest \in Sizes /\ usage \in Nat
    BY DEF TypeOK, RightsizingAssumption
  <2>3. AboveFloors(cs)
    BY <2>2, PlanIsAboveFloors
  <2>. HIDE DEF cs
  <2>4. pr' = Proposal(cs, manifest, Patched(manifest, cs))
    BY <2>1 DEF Propose, cs
  <2>5. UNCHANGED <<kind, live, manifest, usage, events>>
    BY <1>1 DEF Analyze
  <2>6. cs \in ChangeSets
    BY <2>3 DEF AboveFloors
  <2>7. pr' \in Proposals
    BY <2>2, <2>3, <2>4, <2>6, PatchedType DEF Proposal, Proposals
  <2>8. TypeOK'
    BY <2>5, <2>7 DEF TypeOK
  <2>9. ProposalAboveFloors'
    <3>1. pr'.head = Patched(manifest, cs) /\ pr'.base = manifest
      BY <2>4 DEF Proposal
    <3>2. Floor' = Floor
      BY <2>5 DEF Floor
    <3>. QED
      BY <3>1, <3>2, <2>2, <2>3, PatchedType DEF ProposalAboveFloors
  <2>. QED
    BY <2>8, <2>9
<1>2. CASE Merge
  <2>1. pr \in Proposals
    BY <1>2 DEF Merge, TypeOK, NoPR
  <2>2. manifest' \in Sizes
    BY <1>2, <2>1 DEF Merge, TypeOK, Proposals, Sizes
  <2>. QED
    BY <1>2, <2>2 DEF Merge, TypeOK, ProposalAboveFloors, NoPR
<1>3. CASE Sync
  <2>1. live' \in Sizes
    BY <1>3 DEF Sync, TypeOK, Sizes
  <2>. QED
    BY <1>3, <2>1 DEF Sync, TypeOK, ProposalAboveFloors, Floor
<1>4. CASE Demand
  BY <1>4 DEF Demand, Event, TypeOK, ProposalAboveFloors, Floor, RightsizingAssumption
<1>5. CASE Edit
  <2>1. manifest' \in Sizes
    BY <1>5 DEF Edit, Sizes, RightsizingAssumption
  <2>. QED
    BY <1>5, <2>1 DEF Edit, Event, TypeOK, ProposalAboveFloors, Floor, RightsizingAssumption
<1>6. CASE Autoscale
  <2>1. live' \in Sizes
    BY <1>6 DEF Autoscale, TypeOK, Sizes, RightsizingAssumption
  <2>. QED
    BY <1>6, <2>1 DEF Autoscale, Event, TypeOK, ProposalAboveFloors, Floor,
                      RightsizingAssumption
<1>7. CASE Close
  BY <1>7 DEF Close, Event, TypeOK, ProposalAboveFloors, NoPR, RightsizingAssumption
<1>8. CASE UNCHANGED vars
  BY <1>8 DEF vars, TypeOK, ProposalAboveFloors, Floor
<1>. QED
  BY <1>1, <1>2, <1>3, <1>4, <1>5, <1>6, <1>7, <1>8 DEF Next

(* What a merge does to the manifest when the PR is above the floors. *)
LEMMA MergeKeepsFloors ==
  ASSUME RightsizingAssumption, RightsizingInv, [Next]_vars, pr.open, ~pr'.open
  PROVE  /\ manifest'.replicas < manifest.replicas => manifest'.replicas >= Floor
         /\ manifest'.cpu # manifest.cpu => manifest'.cpu >= MinCPU
<1>1. manifest \in Sizes
  BY DEF RightsizingInv, TypeOK
<1>2. CASE Merge
  <2>1. /\ manifest'.cpu = IF pr.head.cpu # pr.base.cpu THEN pr.head.cpu ELSE manifest.cpu
        /\ manifest'.replicas = IF pr.head.replicas # pr.base.replicas
                                THEN pr.head.replicas ELSE manifest.replicas
    BY <1>2 DEF Merge
  <2>. QED
    BY <1>1, <2>1 DEF RightsizingInv, ProposalAboveFloors, Sizes
<1>3. CASE manifest' = manifest
  BY <1>1, <1>3 DEF Sizes
<1>4. CASE Edit
  BY <1>4 DEF Edit
<1>. QED
  BY <1>2, <1>3, <1>4 DEF Next, vars, Analyze, Sync, Demand, Autoscale, Close

(* The loop's state has its type: sizes and change sets are naturals or left
   alone, whatever is rounded, merged and patched. *)
THEOREM RightsizingTypeCorrect == Spec => []TypeOK
<1>1. Init => RightsizingInv
  BY RightsizingAssumption, RightsizingInit
<1>2. RightsizingInv /\ [Next]_vars => RightsizingInv'
  BY RightsizingAssumption, RightsizingStep
<1>3. RightsizingInv => TypeOK
  BY DEF RightsizingInv
<1>. QED
  BY <1>1, <1>2, <1>3, PTL DEF Spec

(* Merging a PR never takes replicas below the floor or a CPU request below
   the smallest allowed, whatever was combined in it and whatever happened
   since it was opened. *)
THEOREM MergedPRsKeepFloors == Spec => FloorsKept
<1>1. Init => RightsizingInv
  BY RightsizingAssumption, RightsizingInit
<1>2. RightsizingInv /\ [Next]_vars => RightsizingInv'
  BY RightsizingAssumption, RightsizingStep
<1>3. RightsizingInv /\ [Next]_vars =>
        [pr.open /\ ~pr'.open =>
           /\ manifest'.replicas < manifest.replicas => manifest'.replicas >= Floor
           /\ manifest'.cpu # manifest.cpu => manifest'.cpu >= MinCPU]_vars
  BY RightsizingAssumption, MergeKeepsFloors
<1>. QED
  BY <1>1, <1>2, <1>3, PTL DEF Spec, FloorsKept

-----------------------------------------------------------------------------
(* A rounded number is within a half of what was rounded. *)
LEMMA RoundedIsNear ==
  ASSUME NEW c \in Nat, NEW n \in Rounded(7 * c, 10)
  PROVE  n \in Nat /\ 20 * n >= 14 * c - 10
<1>1. n \in Nat
  BY RoundedIsNat
<1>2. 2 * (7 * c - n * 10) \in (-10)..10
  BY DEF Rounded
<1>. QED
  BY <1>1, <1>2

(* A cut by 30 percent leaves well over half of a request, rounding included,
   unless it leaves one millicore. *)
LEMMA CutKeepsHalf ==
  ASSUME NEW c \in Nat, NEW capped \in Rounded(7 * c, 10), NEW safe \in Nat,
         Larger(safe, capped) >= 2
  PROVE  88 * Larger(safe, capped) >= 50 * c
<1>1. capped \in Nat /\ 20 * capped >= 14 * c - 10
  BY RoundedIsNear
<1>2. Larger(safe, capped) \in Nat /\ Larger(safe, capped) >= capped
  BY <1>1 DEF Larger
<1>3. CASE c <= 3
  BY <1>2, <1>3
<1>4. CASE c >= 4
  BY <1>1, <1>2, <1>4
<1>. QED
  BY <1>3, <1>4

-----------------------------------------------------------------------------
(* What a change set is made of, field by field. *)

(* A step down within the policy's limit and its tolerance. *)
WithinLimit(from, to) ==
  1000000 * (from - to) <= (10000 * MaxStepDown + 1) * from

CPUStep(size, u, cpu) ==
  /\ cpu \in Nat
  /\ WithinLimit(size.cpu, cpu)
  /\ \/ Throttled(size, u)
     \/ /\ Overprovisioned(size, u)
        /\ MinCPU >= 2 => 88 * cpu >= 50 * size.cpu

ReplicaStep(size, u, replicas) ==
  /\ Replicas(size) > 2 /\ LowLoad(size, u)
  /\ replicas = Replicas(size) - 1

(* The recommendation for the CPU, as far as it is approved. *)
LEMMA CPURecIsStep ==
  ASSUME RightsizingAssumption,
         NEW size \in Sizes, NEW u \in Nat, NEW recs \in CPURecs(size, u),
         NEW rec \in recs, NEW certainty, Approved(rec, certainty)
  PROVE  /\ recs = {rec}
         /\ rec.to.replicas = rec.from.replicas
         /\ rec.from.cpu = size.cpu
         /\ CPUStep(size, u, rec.to.cpu)
<1>1. PICK r \in Recs : recs = {r} /\ r.to.replicas = r.from.replicas
  BY CPURecsType
<1>2. rec = r /\ rec.to.cpu \in Nat
  BY <1>1 DEF Recs, Sizes
<1>3. /\ Replicas(size) \in Nat \ {0} /\ size.cpu \in Nat
      /\ 10 * Replicas(size) \in Nat \ {0} /\ 13 * u \in Nat /\ MinCPU \in Nat
      /\ MaxStepDown \in Nat
  BY ReplicasPositive DEF Sizes, RightsizingAssumption
<1>4. MinCPU >= 2 => rec.to.cpu >= 2
  BY <1>2, <1>3 DEF Approved, KyvernoApproves
<1>5. ASSUME recs \in CPUDown(size, u)
      PROVE  /\ rec.from.cpu = size.cpu
             /\ MinCPU >= 2 => 88 * rec.to.cpu >= 50 * size.cpu
  <2>1. PICK safe \in Rounded(13 * u, 10 * Replicas(size)),
             capped \in Rounded(7 * size.cpu, 10) :
          recs = IF 100 * Larger(safe, capped) < 95 * size.cpu
                 THEN {Rec(size, Larger(safe, capped), Replicas(size), 92)} ELSE {}
    BY <1>5 DEF CPUDown
  <2>2. rec = Rec(size, Larger(safe, capped), Replicas(size), 92)
    BY <1>1, <1>2, <2>1
  <2>3. rec.from.cpu = size.cpu /\ rec.to.cpu = Larger(safe, capped)
    BY <2>2 DEF Rec
  <2>4. safe \in Nat
    BY <1>3, RoundedIsNat
  <2>5. MinCPU >= 2 => 88 * rec.to.cpu >= 50 * size.cpu
    BY <1>3, <1>4, <2>3, <2>4, CutKeepsHalf
  <2>. QED
    BY <2>3, <2>5
<1>6. ASSUME recs \in CPUUp(size, u)
      PROVE  rec.from.cpu = size.cpu
  <2>1. PICK peak, step :
          recs = {Rec(size, Larger(peak, step), Replicas(size), 88)}
    BY <1>6 DEF CPUUp
  <2>2. rec.from.cpu = size.cpu
    BY <2>1 DEF Rec
  <2>. QED
    BY <2>2
<1>7. /\ rec.from.cpu = size.cpu
      /\ \/ Throttled(size, u)
         \/ /\ Overprovisioned(size, u)
            /\ MinCPU >= 2 => 88 * rec.to.cpu >= 50 * size.cpu
  BY <1>1, <1>5, <1>6 DEF CPURecs
<1>8. WithinLimit(size.cpu, rec.to.cpu)
  <2>1. ~(1000000 * (size.cpu - rec.to.cpu) > (10000 * MaxStepDown + 1) * size.cpu)
    BY <1>7 DEF Approved, LocalApproves, StepTooLarge
  <2>2. /\ 1000000 * (size.cpu - rec.to.cpu) \in Int
        /\ (10000 * MaxStepDown + 1) * size.cpu \in Int
    BY <1>2, <1>3
  <2>. QED
    BY <2>1, <2>2 DEF WithinLimit
<1>. QED
  BY <1>1, <1>2, <1>7, <1>8 DEF CPUStep

LEMMA PlanIsSteps ==
  ASSUME RightsizingAssumption,
         NEW size \in Sizes, NEW u \in Nat, NEW certainty, NEW rising \in BOOLEAN,
         NEW recs \in CPURecs(size, u)
  PROVE  LET cs == Plan(recs, ReplicaRecs(size, u, rising), certainty) IN
         /\ cs.cpu # Unchanged => CPUStep(size, u, cs.cpu)
         /\ cs.replicas # Unchanged => ReplicaStep(size, u, cs.replicas)
<1>. DEFINE Change(S) == IF \E rec \in S : Approved(rec, certainty)
                         THEN Diff(CHOOSE rec \in S : TRUE) ELSE Empty
            fewer == ReplicaRecs(size, u, rising)
            cs == Plan(recs, fewer, certainty)
<1>0. Empty.cpu = Unchanged /\ Empty.replicas = Unchanged
  BY DEF Empty
<1>1. /\ Change(recs).cpu # Unchanged => CPUStep(size, u, Change(recs).cpu)
      /\ Change(recs).replicas = Unchanged
  <2>1. CASE ~ \E rec \in recs : Approved(rec, certainty)
    BY <1>0, <2>1
  <2>2. CASE \E rec \in recs : Approved(rec, certainty)
    <3>1. PICK rec \in recs : Approved(rec, certainty)
      BY <2>2
    <3>2. /\ recs = {rec} /\ rec.to.replicas = rec.from.replicas
          /\ CPUStep(size, u, rec.to.cpu)
      BY <3>1, CPURecIsStep
    <3>3. Change(recs) = Diff(rec)
      BY <2>2, <3>2
    <3>. QED
      BY <3>2, <3>3 DEF Diff
  <2>. QED
    BY <2>1, <2>2
<1>2. /\ Change(fewer).cpu = Unchanged
      /\ Change(fewer).replicas # Unchanged =>
           ReplicaStep(size, u, Change(fewer).replicas)
  <2>1. CASE ~ \E rec \in fewer : Approved(rec, certainty)
    BY <1>0, <2>1
  <2>2. CASE \E rec \in fewer : Approved(rec, certainty)
    <3>. DEFINE rec == Rec(size, size.cpu, Replicas(size) - 1, 85)
    <3>1. /\ fewer = {rec} /\ Replicas(size) > 2 /\ LowLoad(size, u)
      BY <2>2 DEF ReplicaRecs
    <3>2. /\ rec.to.cpu = rec.from.cpu
          /\ rec.to.replicas = Replicas(size) - 1
      BY DEF Rec
    <3>. HIDE DEF rec
    <3>3. Change(fewer) = Diff(rec)
      BY <2>2, <3>1
    <3>. QED
      BY <3>1, <3>2, <3>3 DEF Diff, ReplicaStep
  <2>. QED
    BY <2>1, <2>2
<1>3. cs = MergeInto(IF kind.memory THEN Change(recs) ELSE Empty, Change(fewer))
  BY DEF Plan
<1>. HIDE DEF Change, cs
<1>. SUFFICES /\ cs.cpu # Unchanged => CPUStep(size, u, cs.cpu)
              /\ cs.replicas # Unchanged => ReplicaStep(size, u, cs.replicas)
  BY DEF cs
<1>4. CASE kind.memory
  BY <1>1, <1>2, <1>3, <1>4 DEF MergeInto
<1>5. CASE ~kind.memory
  BY <1>0, <1>2, <1>3, <1>5 DEF MergeInto
<1>. QED
  BY <1>4, <1>5

-----------------------------------------------------------------------------
(* The load after the change. *)

LEMMA LoadAfterCut ==
  ASSUME NEW c \in Nat, NEW d \in Nat, NEW r \in Nat, NEW u \in Nat,
         2 * u < c * r, 88 * d >= 50 * c
  PROVE  ~(100 * u >= 88 * d * r)
<1>1. (88 * d) * r >= (50 * c) * r
  BY Z3
<1>2. (50 * c) * r = 50 * (c * r) /\ c * r \in Nat
  BY Z3
<1>. QED
  BY <1>1, <1>2

LEMMA LoadAfterFewer ==
  ASSUME NEW c \in Nat, NEW d \in Nat, NEW r \in Nat, NEW u \in Nat, r > 2,
         4 * u < c * r, 88 * d >= 50 * c
  PROVE  ~(100 * u >= 88 * d * (r - 1))
<1>. DEFINE x == c * r
<1>0. c * r = x /\ x \in Nat
  BY Z3
<1>1. (88 * d) * (r - 1) >= (50 * c) * (r - 1)
  BY Z3
<1>2. (50 * c) * (r - 1) = 50 * x - 50 * c
  BY Z3
<1>3. x >= 3 * c
  BY Z3
<1>. HIDE DEF x
<1>4. 100 * u < 25 * x
  BY <1>0
<1>5. 50 * x - 50 * c >= 25 * x
  BY <1>0, <1>3
<1>. QED
  BY <1>0, <1>1, <1>2, <1>4, <1>5

LEMMA PatchedIsNotThrottled ==
  ASSUME MinCPU >= 2,
         NEW size \in Sizes, NEW u \in Nat, NEW cs, ~Throttled(size, u),
         cs.cpu # Unchanged => CPUStep(size, u, cs.cpu),
         cs.replicas # Unchanged => ReplicaStep(size, u, cs.replicas)
  PROVE  ~Throttled(Patched(size, cs), u)
<1>. DEFINE head == Patched(size, cs)
            r == Replicas(size)
<1>1. size.cpu \in Nat /\ size.replicas \in Nat /\ r \in Nat \ {0}
  BY ReplicasPositive DEF Sizes
<1>2. \/ head.cpu = size.cpu
      \/ /\ head.cpu \in Nat /\ Overprovisioned(size, u)
         /\ 88 * head.cpu >= 50 * size.cpu
  BY DEF Patched, CPUStep
<1>3. head.cpu \in Nat /\ 88 * head.cpu >= 50 * size.cpu
  BY <1>1, <1>2
<1>4. \/ head.replicas = size.replicas
      \/ head.replicas = r - 1 /\ r > 2 /\ LowLoad(size, u)
  BY DEF Patched, ReplicaStep
<1>. HIDE DEF head
<1>5. CASE head.replicas = r - 1 /\ r > 2 /\ LowLoad(size, u)
  <2>1. Replicas(head) = r - 1
    BY <1>1, <1>5 DEF Replicas, Larger
  <2>2. 4 * u < size.cpu * r
    BY <1>5 DEF LowLoad
  <2>. HIDE DEF r
  <2>3. ~(100 * u >= 88 * head.cpu * (r - 1))
    BY <1>1, <1>3, <1>5, <2>2, LoadAfterFewer
  <2>. QED
    BY <2>1, <2>3 DEF Throttled, head
<1>6. CASE head.replicas = size.replicas
  <2>1. Replicas(head) = r
    BY <1>6 DEF Replicas
  <2>2. CASE head.cpu = size.cpu
    BY <2>1, <2>2 DEF Throttled, head
  <2>3. CASE Overprovisioned(size, u)
    <3>1. 2 * u < size.cpu * r
      BY <2>3 DEF Overprovisioned
    <3>. HIDE DEF r
    <3>2. ~(100 * u >= 88 * head.cpu * r)
      BY <1>1, <1>3, <3>1, LoadAfterCut
    <3>. QED
      BY <2>1, <3>2 DEF Throttled, head
  <2>. QED
    BY <1>2, <2>2, <2>3
<1>. QED
  BY <1>4, <1>5, <1>6

-----------------------------------------------------------------------------
LEMMA InvariantHolds == Spec => []RightsizingInv
<1>1. Init => RightsizingInv
  BY RightsizingAssumption, RightsizingInit
<1>2. RightsizingInv /\ [Next]_vars => RightsizingInv'
  BY RightsizingAssumption, RightsizingStep
<1>. QED
  BY <1>1, <1>2, PTL DEF Spec

(* Only a cycle opens or rewrites a PR. *)
LEMMA ProposedByACycle ==
  ASSUME RightsizingAssumption, RightsizingInv, [Next]_vars,
         pr' # pr, pr'.open, live = manifest
  PROVE  \E cs :
           /\ pr'.base = manifest /\ pr'.head = Patched(manifest, cs)
           /\ cs.cpu # Unchanged => CPUStep(manifest, usage, cs.cpu)
           /\ cs.replicas # Unchanged => ReplicaStep(manifest, usage, cs.replicas)
<1>1. Analyze
  BY DEF Next, vars, Merge, Sync, Demand, Edit, Autoscale, Close, NoPR
<1>2. PICK certainty \in Certainties, rising \in BOOLEAN,
           recs \in CPURecs(live, usage) :
        Propose(Plan(recs, ReplicaRecs(live, usage, rising), certainty))
  BY <1>1 DEF Analyze
<1>3. live \in Sizes /\ usage \in Nat
  BY DEF RightsizingInv, TypeOK, RightsizingAssumption
<1>. DEFINE cs == Plan(recs, ReplicaRecs(live, usage, rising), certainty)
<1>4. /\ cs.cpu # Unchanged => CPUStep(live, usage, cs.cpu)
      /\ cs.replicas # Unchanged => ReplicaStep(live, usage, cs.replicas)
  BY <1>3, PlanIsSteps
<1>5. Propose(cs)
  BY <1>2
<1>. HIDE DEF cs
<1>6. pr'.base = manifest /\ pr'.head = Patched(manifest, cs)
  BY <1>5 DEF Propose, Proposal
<1>. QED
  BY <1>4, <1>6

(* For a cluster in sync, no proposal brings the workload to where the same
   demand would throttle it, also when it cuts CPU and replicas together: for
   all requests, counts and demands, if the smallest request allowed is 2m.
   At 1m it does not hold: where steps of 50 percent are allowed, ten replicas of
   2m with a peak of 9m are cut to 1m. *)
THEOREM NoThrottlingIsCaused ==
  ASSUME MinCPU >= 2
  PROVE  Spec => CausesNoThrottling
<1>1. ASSUME RightsizingInv, [Next]_vars, pr' # pr, pr'.open, live = manifest,
             ~Throttled(live, usage)
      PROVE  ~Throttled(pr'.head, usage)
  <2>1. manifest \in Sizes /\ usage \in Nat
    BY <1>1, RightsizingAssumption
    DEF RightsizingInv, TypeOK, RightsizingAssumption
  <2>. QED
    BY <1>1, <2>1, RightsizingAssumption, ProposedByACycle, PatchedIsNotThrottled
<1>2. RightsizingInv /\ [Next]_vars =>
        [pr' # pr /\ pr'.open /\ live = manifest /\ ~Throttled(live, usage)
           => ~Throttled(pr'.head, usage)]_vars
  BY <1>1
<1>. QED
  BY <1>2, InvariantHolds, PTL DEF Spec, CausesNoThrottling

(* The policy's tolerance is a millionth of the request: below ten cores that is
   less than a hundredth of a millicore. *)
StepDownCappedBelowTenCores ==
  [][pr' # pr /\ pr'.open /\ live = manifest /\ manifest.cpu < 10000
       => 100 * (pr'.base.cpu - pr'.head.cpu) <= MaxStepDown * pr'.base.cpu]_vars

LEMMA ToleranceIsSmall ==
  ASSUME NEW f \in Nat, NEW t \in Nat, NEW m \in Nat, f < 10000,
         1000000 * (f - t) <= (10000 * m + 1) * f
  PROVE  100 * (f - t) <= m * f
<1>. DEFINE x == m * f
<1>1. x \in Nat /\ m * f = x
  BY Z3
<1>2. (10000 * m + 1) * f = 10000 * x + f
  BY Z3
<1>. HIDE DEF x
<1>. QED
  BY <1>1, <1>2

(* For a cluster in sync, no PR lowers a request under ten cores by more than the
   configured share, for all requests, demands and shares: neither rounding nor
   the tolerance lets more through. *)
THEOREM StepDownsAreCapped == Spec => StepDownCappedBelowTenCores
<1>1. ASSUME RightsizingInv, [Next]_vars, pr' # pr, pr'.open, live = manifest,
             manifest.cpu < 10000
      PROVE  100 * (pr'.base.cpu - pr'.head.cpu) <= MaxStepDown * pr'.base.cpu
  <2>1. manifest.cpu \in Nat /\ MaxStepDown \in Nat
    BY <1>1, RightsizingAssumption
    DEF RightsizingInv, TypeOK, Sizes, RightsizingAssumption
  <2>2. pr'.base = manifest
        /\ (\/ pr'.head.cpu = manifest.cpu
            \/ pr'.head.cpu \in Nat /\ WithinLimit(manifest.cpu, pr'.head.cpu))
    <3>1. PICK cs :
            /\ pr'.base = manifest /\ pr'.head = Patched(manifest, cs)
            /\ cs.cpu # Unchanged => CPUStep(manifest, usage, cs.cpu)
      BY <1>1, RightsizingAssumption, ProposedByACycle
    <3>2. pr'.head.cpu = manifest.cpu \/ (cs.cpu # Unchanged /\ pr'.head.cpu = cs.cpu)
      BY <3>1 DEF Patched
    <3>. QED
      BY <3>1, <3>2 DEF CPUStep
  <2>3. CASE pr'.head.cpu = manifest.cpu
    <3>1. MaxStepDown * manifest.cpu >= 0
      BY <2>1, Z3
    <3>. QED
      BY <2>1, <2>2, <2>3, <3>1
  <2>4. CASE pr'.head.cpu \in Nat /\ WithinLimit(manifest.cpu, pr'.head.cpu)
    BY <1>1, <2>1, <2>2, <2>4, ToleranceIsSmall DEF WithinLimit
  <2>. QED
    BY <2>2, <2>3, <2>4
<1>2. RightsizingInv /\ [Next]_vars =>
        [pr' # pr /\ pr'.open /\ live = manifest /\ manifest.cpu < 10000
           => 100 * (pr'.base.cpu - pr'.head.cpu) <= MaxStepDown * pr'.base.cpu]_vars
  BY <1>1
<1>. QED
  BY <1>2, InvariantHolds, PTL DEF Spec, StepDownCappedBelowTenCores
=============================================================================
