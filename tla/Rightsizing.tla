---------------------------- MODULE Rightsizing ----------------------------
(***************************************************************************)
(* The loop one workload goes through: the AI service looks at what the    *)
(* cluster runs and recommends, the policies approve or reject, the        *)
(* generator merges what was approved into one change set and patches the  *)
(* manifest, a human merges the PR and GitOps syncs the cluster.           *)
(*                                                                         *)
(* CPU is in millicores: the AI service rounds to three decimals and       *)
(* formatCPU to whole millicores, so nothing finer reaches a manifest.     *)
(* How Generator.tla gets a PR opened, and declines and cooldowns, are     *)
(* left out: a change set that differs becomes the open PR at once.        *)
(***************************************************************************)
EXTENDS Integers, FiniteSets

CONSTANTS
  Requests,       \* CPU requests a human gives the workload (0: none)
  Counts,         \* replica counts a human or an autoscaler sets
  Usages,         \* forecast peaks of the whole workload, in millicores
  Certainties,    \* forecast certainty and telemetry quality, weighted, percent
  MinReplicas,    \* policy.min_replicas
  MaxStepDown,    \* policy.max_step_down_percent
  MinCPU,         \* policy.min_cpu_request
  MinConfidence,  \* policy.min_confidence, percent
  MaxEvents       \* bound: changes of demand, by humans and by autoscalers

ASSUME RightsizingAssumption ==
  /\ Requests \subseteq Nat /\ Counts \subseteq Nat /\ Usages \subseteq Nat
  /\ Certainties \subseteq 0..70
  /\ MinReplicas \in Nat /\ MinCPU \in Nat
  /\ MaxStepDown \in 0..100 /\ MinConfidence \in 0..100
  /\ MaxEvents \in Nat

Sizes == [cpu : Nat, replicas : Nat]
Kinds == [prod : BOOLEAN, excluded : BOOLEAN, hpa : BOOLEAN, containers : {1, 2},
          memory : BOOLEAN]             \* whether it requests memory

Unchanged == -1                         \* a field a change set leaves alone
ChangeSets == [cpu : Nat \cup {Unchanged}, replicas : Nat \cup {Unchanged}]

NoPR == [open |-> FALSE]
Proposals == [open : {TRUE}, marker : ChangeSets, base : Sizes, head : Sizes]
Proposal(cs, from, to) == [open |-> TRUE, marker |-> cs, base |-> from, head |-> to]

VARIABLES
  kind,      \* what the workload is; never changes
  live,      \* what the Deployment in the cluster runs
  manifest,  \* what the base branch says
  usage,     \* the forecast peak of the whole workload
  pr,        \* the open PR of the workload
  events     \* changes of demand and edits so far

vars == <<kind, live, manifest, usage, pr, events>>

-----------------------------------------------------------------------------
(* The AI service.                                                         *)

(* What round() may make of num/den. Which way a half goes depends on the
   binary fraction the code computes. *)
Rounded(num, den) == {n \in num \div den .. (num \div den) + 1 :
                        2 * (num - n * den) \in (-den)..den}

Larger(a, b) == IF a >= b THEN a ELSE b

(* per_replica_view: at least one replica, so that usage can be divided. *)
Replicas(size) == Larger(size.replicas, 1)

(* The thresholds of utilization_node, with usage / replicas / request
   multiplied out. *)
Overprovisioned(size, u) == size.cpu > 0 /\ 2 * u < size.cpu * Replicas(size)

Throttled(size, u) == size.cpu > 0 /\ 100 * u >= 88 * size.cpu * Replicas(size)

LowLoadDividedTwice(size, u) ==
  size.cpu > 0 /\ 4 * u < size.cpu * Replicas(size) * Replicas(size)

LowLoad(size, u) == size.cpu > 0 /\ 4 * u < size.cpu * Replicas(size)

(* A recommendation: what it proposes, from what, and the safety factor of
   the rule it comes from, in percent. *)
Rec(size, c, r, factor) ==
  [from |-> [cpu |-> size.cpu, replicas |-> Replicas(size)],
   to |-> [cpu |-> c, replicas |-> r], factor |-> factor]

(* RIGHTSIZE_CPU_DOWN: 30 percent less, or the peak with 30 percent headroom
   if that is more, when it is worth 5 percent. *)
CPUDown(size, u) ==
  {IF 100 * c < 95 * size.cpu THEN {Rec(size, c, Replicas(size), 92)} ELSE {} :
     c \in {Larger(safe, capped) : safe \in Rounded(13 * u, 10 * Replicas(size)),
                                  capped \in Rounded(7 * size.cpu, 10)}}

(* SCALE_UP_CPU_SAFETY: the peak with 25 percent headroom, or 20 percent more
   if that is more. *)
CPUUp(size, u) ==
  {{Rec(size, Larger(peak, step), Replicas(size), 88)} :
     peak \in Rounded(5 * u, 4 * Replicas(size)),
     step \in Rounded(6 * size.cpu, 5)}

(* What reason_node may recommend for the CPU, by one of the two rules... *)
CPURecs(size, u) ==
  IF Overprovisioned(size, u) THEN CPUDown(size, u)
  ELSE IF Throttled(size, u) THEN CPUUp(size, u)
  ELSE {{}}

(* ... and for the replicas, RIGHTSIZE_REPLICAS: one fewer. *)
ReplicaRecs(size, u, rising) ==
  IF Replicas(size) > 2 /\ LowLoad(size, u) /\ ~rising
  THEN {Rec(size, size.cpu, Replicas(size) - 1, 85)} ELSE {}

(* confidence_node: the score, rounded to a hundredth, reaches the bound. *)
Confident(rec, certainty) ==
  10 * certainty + 3 * rec.factor + 5 >= 10 * MinConfidence

-----------------------------------------------------------------------------
(* The policies.                                                           *)

ReplicasBelowByTwo(rec, floor) ==
  rec.to.replicas + 1 < floor /\ rec.to.replicas < rec.from.replicas

(* replicasBelow: fewer than the floor, by removing some. *)
ReplicasBelow(rec, floor) ==
  rec.to.replicas < floor /\ rec.to.replicas < rec.from.replicas

StepTooLargeByPercent(rec) ==
  100 * (rec.from.cpu - rec.to.cpu) > (MaxStepDown + 1) * rec.from.cpu

(* The step-down limit, with its tolerance of 1e-6. *)
StepTooLarge(rec) ==
  1000000 * (rec.from.cpu - rec.to.cpu) > (10000 * MaxStepDown + 1) * rec.from.cpu

(* LocalValidator. *)
LocalApproves(rec) ==
  /\ ~kind.excluded
  /\ ~ReplicasBelow(rec, MinReplicas)
  /\ ~StepTooLarge(rec)

(* OPAPolicyValidator: confidence, and three replicas in production. *)
OPAApproves(rec, certainty) ==
  /\ Confident(rec, certainty)
  /\ ~(kind.prod /\ ReplicasBelow(rec, 3))

(* KyvernoPolicyValidator looks at the request proposed, changed or not. *)
KyvernoApproves(rec) == rec.to.cpu >= MinCPU

(* CompositeValidator: all of them. *)
Approved(rec, certainty) ==
  LocalApproves(rec) /\ OPAApproves(rec, certainty) /\ KyvernoApproves(rec)

-----------------------------------------------------------------------------
(* The generator.                                                          *)

(* diffStates: the fields the recommendation really changes. *)
Diff(rec) ==
  [cpu |-> IF rec.to.cpu = rec.from.cpu THEN Unchanged ELSE rec.to.cpu,
   replicas |-> IF rec.to.replicas = rec.from.replicas THEN Unchanged
                ELSE rec.to.replicas]

Empty == [cpu |-> Unchanged, replicas |-> Unchanged]

(* ChangeSet.merge: what the first sets stays. *)
MergeInto(first, other) ==
  [cpu |-> IF first.cpu = Unchanged THEN other.cpu ELSE first.cpu,
   replicas |-> IF first.replicas = Unchanged THEN other.replicas ELSE first.replicas]

(* plan: the approved recommendation for the CPU first, the one for the
   replicas after it. The first repeats the memory request, and diffStates
   takes no recommendation with a memory request of zero. *)
Plan(cpuRecs, replicaRecs, certainty) ==
  LET Change(recs) == IF \E rec \in recs : Approved(rec, certainty)
                      THEN Diff(CHOOSE rec \in recs : TRUE) ELSE Empty
  IN  MergeInto(IF kind.memory THEN Change(cpuRecs) ELSE Empty, Change(replicaRecs))

PatchedWithUnset(size, cs) ==
  [cpu |-> IF kind.containers = 1 THEN cs.cpu ELSE size.cpu,
   replicas |-> IF kind.hpa THEN size.replicas ELSE cs.replicas]

(* patchWorkload: a pod with several containers and the replicas of an
   autoscaled Deployment are left alone. *)
Patched(size, cs) ==
  [cpu |-> IF cs.cpu # Unchanged /\ kind.containers = 1 THEN cs.cpu ELSE size.cpu,
   replicas |-> IF cs.replicas # Unchanged /\ ~kind.hpa THEN cs.replicas
                ELSE size.replicas]

-----------------------------------------------------------------------------
Init ==
  /\ kind \in Kinds
  /\ manifest \in [cpu : Requests, replicas : Counts]
  /\ live = manifest
  /\ usage \in Usages
  /\ pr = NoPR
  /\ events = 0

ProposeUnchanged(cs) ==
  /\ cs # Empty
  /\ pr.open => pr.marker # cs
  /\ pr' = Proposal(cs, manifest, Patched(manifest, cs))

(* What a cycle makes of a change set: nothing when nothing is left of it, the
   open PR already proposes it or the manifest already holds it. *)
Propose(cs) ==
  /\ cs # Empty
  /\ pr.open => pr.marker # cs
  /\ Patched(manifest, cs) # manifest
  /\ pr' = Proposal(cs, manifest, Patched(manifest, cs))

(* A reconciliation cycle: recommend, validate, plan, propose. *)
Analyze ==
  /\ \E certainty \in Certainties, rising \in BOOLEAN, recs \in CPURecs(live, usage) :
       Propose(Plan(recs, ReplicaRecs(live, usage, rising), certainty))
  /\ UNCHANGED <<kind, live, manifest, usage, events>>

(* The environment: a human merges what still applies cleanly, field by
   field, or closes it; GitOps syncs the cluster. *)
Merge ==
  /\ pr.open
  /\ pr.head.cpu # pr.base.cpu => manifest.cpu = pr.base.cpu
  /\ pr.head.replicas # pr.base.replicas => manifest.replicas = pr.base.replicas
  /\ manifest' =
       [cpu |-> IF pr.head.cpu # pr.base.cpu THEN pr.head.cpu ELSE manifest.cpu,
        replicas |-> IF pr.head.replicas # pr.base.replicas THEN pr.head.replicas
                     ELSE manifest.replicas]
  /\ pr' = NoPR
  /\ UNCHANGED <<kind, live, usage, events>>

Sync ==
  /\ live' = [cpu |-> manifest.cpu,
              replicas |-> IF kind.hpa THEN live.replicas ELSE manifest.replicas]
  /\ UNCHANGED <<kind, manifest, usage, pr, events>>

Event == events < MaxEvents /\ events' = events + 1

Demand ==
  /\ Event
  /\ usage' \in Usages \ {usage}
  /\ UNCHANGED <<kind, live, manifest, pr>>

Edit ==
  /\ Event
  /\ manifest' \in [cpu : Requests, replicas : Counts] \ {manifest}
  /\ UNCHANGED <<kind, live, usage, pr>>

Autoscale ==
  /\ Event /\ kind.hpa
  /\ live' \in {[live EXCEPT !.replicas = n] : n \in Counts \ {live.replicas}}
  /\ UNCHANGED <<kind, manifest, usage, pr>>

Close ==
  /\ Event /\ pr.open
  /\ pr' = NoPR
  /\ UNCHANGED <<kind, live, manifest, usage>>

Next == Analyze \/ Merge \/ Sync \/ Demand \/ Edit \/ Autoscale \/ Close

Spec == Init /\ [][Next]_vars

(* Cycles go on, every proposal that still applies is merged, and GitOps
   syncs. *)
FairSpec == Spec /\ WF_vars(Analyze) /\ WF_vars(Merge) /\ WF_vars(Sync)

-----------------------------------------------------------------------------
TypeOK ==
  /\ kind \in Kinds
  /\ live \in Sizes /\ manifest \in Sizes
  /\ usage \in Usages
  /\ pr \in {NoPR} \cup Proposals
  /\ events \in 0..MaxEvents

Floor == IF kind.prod THEN Larger(MinReplicas, 3) ELSE MinReplicas

(* Merging a PR never takes replicas away below the floor, which is three in
   production whatever is configured, and never sets a CPU request below the
   smallest allowed: also for a PR made of several recommendations, each of
   which was approved on its own. *)
FloorsKept ==
  [][pr.open /\ ~pr'.open =>
       /\ manifest'.replicas < manifest.replicas =>
            manifest'.replicas >= Floor
       /\ manifest'.cpu # manifest.cpu => manifest'.cpu >= MinCPU]_vars

(* What a cycle proposes for a cluster in sync does not bring the workload to
   where the same demand would throttle it, although CPU and replicas may be
   cut together and usage is measured per workload, requests per replica. *)
CausesNoThrottling ==
  [][pr' # pr /\ pr'.open /\ live = manifest /\ ~Throttled(live, usage)
       => ~Throttled(pr'.head, usage)]_vars

(* No PR for a cluster in sync lowers the CPU request by more than the
   configured share. *)
StepDownCapped ==
  [][pr' # pr /\ pr'.open /\ live = manifest
       => 100 * (pr'.base.cpu - pr'.head.cpu) <= MaxStepDown * pr'.base.cpu]_vars

(* Once demand and humans leave the workload alone, merged proposals lead to a
   state in which the loop proposes nothing any more: it never swings between
   cutting and raising. *)
LoopSettles == <>[][~pr'.open]_pr
=============================================================================
