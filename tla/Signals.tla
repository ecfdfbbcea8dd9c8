------------------------------ MODULE Signals ------------------------------
(***************************************************************************)
(* What a verdict of Verifier.tla rests on: the signals Prometheus holds   *)
(* about a workload (internal/telemetry/health.go, client.go), the windows *)
(* they are measured over and the comparison with the baseline             *)
(* (internal/verify/verifier.go), for one merged change.                   *)
(*                                                                         *)
(* Time is in minutes, the shortest range of a query and the step of its   *)
(* subqueries.  scrapes is the history Prometheus has stored, a minute     *)
(* each; minute t is the one that ends at time t.                          *)
(***************************************************************************)
EXTENDS Integers, Sequences, FiniteSets, Functions

CONSTANTS
  Containers,       \* of the workload's pods
  Scrapes,          \* what may be stored about a minute
  NoData,           \* a series without a sample
  Window,           \* how long a change is watched after it rolled out
  RolloutTimeout,   \* how long after the merge the rollout may take
  RecheckInterval,  \* 0 disables re-checking
  RecheckFor,       \* how long after the rollout re-checking goes on
  MaxNewRestarts, MaxThrottleIncrease, MaxReplicaIncrease, MinAvailability,
  MaxClock          \* bound: the clock stops here

(* A quotient of two samples.  0/0 is NaN and n/0 is infinite, as in Prometheus. *)
Ratio == [num : Nat, den : Nat]

(***************************************************************************)
(* A minute: restarts, containers whose last termination was an OOM kill   *)
(* (both absent and zero read the same), throttled of all CFS periods, and *)
(* available of desired replicas.                                          *)
(***************************************************************************)
Scrape == [restarts : Nat, oom : SUBSET Containers,
           cpu : Ratio \union {NoData}, replicas : Ratio \union {NoData}]

ASSUME SignalsAssumption ==
  /\ IsFiniteSet(Containers)
  /\ Scrapes \subseteq Scrape
  /\ NoData \notin Ratio
  /\ Window \in Nat \ {0}
  /\ RolloutTimeout \in Nat /\ RecheckInterval \in Nat /\ RecheckFor \in Nat
  /\ MaxNewRestarts \in Nat
  /\ {MaxThrottleIncrease, MaxReplicaIncrease, MinAvailability} \subseteq Ratio
  /\ MaxClock \in Nat

VARIABLES
  clock,    \* wall clock; the change is merged at time Window
  scrapes,  \* what Prometheus has stored, by minute
  inPlace,  \* the Deployment runs the change and is rolled out
  row       \* the verification in the database

vars == <<clock, scrapes, inPlace, row>>

MergedAt == Window

-----------------------------------------------------------------------------
(* Ratios. *)

Number(n) == [num |-> n, den |-> 1]

Known(r) == r.den # 0

Plus(r, s) == [num |-> r.num * s.den + s.num * r.den, den |-> r.den * s.den]

(* The sum an average over time divides. *)
Total(ratios) == FoldFunction(Plus, Number(0), ratios)

(* r - s > m, and r < s. *)
Exceeds(r, s, m) ==
  (r.num * s.den - s.num * r.den) * m.den > m.num * r.den * s.den

Less(r, s) == r.num * s.den < s.num * r.den

-----------------------------------------------------------------------------
(* HealthSignals: five queries over a range that ends at the given time. *)

(* The minutes a range covers; promRange makes it one at least. *)
Minutes(start, end) == (IF end - start < 1 THEN end - 1 ELSE start) + 1 .. end

(* What is stored about them. *)
Samples(start, end) == [t \in Minutes(start, end) |-> scrapes[t]]

Sampled(data, series) == {t \in DOMAIN data : data[t][series] # NoData}

(* increase(throttled) / increase(periods), both summed over the range. *)
ThrottleRatio(data) ==
  LET cpu == Sampled(data, "cpu") IN
  IF cpu = {} THEN Number(0)
  ELSE [num |-> SumFunction([t \in cpu |-> data[t].cpu.num]),
        den |-> SumFunction([t \in cpu |-> data[t].cpu.den])]

(* avg_over_time of the minutes that have a value; one NaN is enough to make the
   average NaN. *)
Average(values) ==
  IF DOMAIN values = {} THEN Number(0)
  ELSE [Total(values) EXCEPT !.den = @ * Cardinality(DOMAIN values)]

Measure(data) ==
  LET scaled == Sampled(data, "replicas") IN
  [restarts |-> SumFunction([t \in DOMAIN data |-> data[t].restarts]),
   oomKills |-> Cardinality(UNION {data[t].oom : t \in DOMAIN data}),
   throttleRatio |-> ThrottleRatio(data),
   avgReplicas |-> Average([t \in scaled |-> Number(data[t].replicas.den)]),
   availability |-> Average([t \in scaled |-> data[t].replicas])]

NoSignals ==
  [restarts |-> 0, oomKills |-> 0, throttleRatio |-> Number(0),
   avgReplicas |-> Number(0), availability |-> Number(0)]

HealthSignals ==
  [restarts : Nat, oomKills : Nat, throttleRatio : Ratio, avgReplicas : Ratio,
   availability : Ratio]

-----------------------------------------------------------------------------
(* compare *)

(* Checked at any time. *)
HardFindings(baseline, observed) ==
  {f \in {"restarts", "oom"} :
     \/ f = "restarts" /\ observed.restarts > baseline.restarts + MaxNewRestarts
     \/ f = "oom" /\ observed.oomKills > baseline.oomKills}

(* Checked once the window has passed, and only where the values are known. *)
AveragedFindings(baseline, observed) ==
  {f \in {"throttle", "replicas", "availability"} :
     \/ /\ f = "throttle"
        /\ Known(observed.throttleRatio) /\ Known(baseline.throttleRatio)
        /\ Exceeds(observed.throttleRatio, baseline.throttleRatio, MaxThrottleIncrease)
     \/ /\ f = "replicas"
        /\ Known(observed.avgReplicas) /\ Known(baseline.avgReplicas)
        /\ Exceeds(observed.avgReplicas, baseline.avgReplicas, MaxReplicaIncrease)
     \/ /\ f = "availability"
        /\ Known(observed.availability)
        /\ Less(observed.availability, MinAvailability)}

(* Mutant: averages are judged from the first minute on. *)
FindingsAtOnce(baseline, observed, final) ==
  HardFindings(baseline, observed) \union AveragedFindings(baseline, observed)

Findings(baseline, observed, final) ==
  HardFindings(baseline, observed)
    \union (IF final THEN AveragedFindings(baseline, observed) ELSE {})

-----------------------------------------------------------------------------
Status == {"WaitingForRollout", "Verifying", "Verified", "Degraded", "NotDeployed"}

(* measuredAt is what recheckDue counts its interval from, as in Verifier.tla. *)
Verification ==
  [status : Status, deployedAt : Nat, measuredAt : Nat,
   baseline : HealthSignals, observed : HealthSignals]

Init ==
  /\ clock = MergedAt
  /\ scrapes \in [1..MergedAt -> Scrapes]
  /\ inPlace = FALSE
  /\ row = [status |-> "WaitingForRollout", deployedAt |-> 0, measuredAt |-> 0,
            baseline |-> NoSignals, observed |-> NoSignals]

(* A minute passes and is scraped. *)
Minute ==
  /\ clock < MaxClock
  /\ clock' = clock + 1
  /\ \E s \in Scrapes : scrapes' = Append(scrapes, s)
  /\ UNCHANGED <<inPlace, row>>

(* The change rolls out, or something else takes its place. *)
Deploy ==
  /\ inPlace' = ~inPlace
  /\ UNCHANGED <<clock, scrapes, row>>

(* JSON has no NaN and no infinity: encoding/json refuses to write them. *)
Encodable(signals) ==
  Known(signals.throttleRatio) /\ Known(signals.avgReplicas) /\ Known(signals.availability)

SaveVerification(rec) ==
  /\ Encodable(rec.baseline) /\ Encodable(rec.observed)
  /\ row' = rec
  /\ UNCHANGED <<clock, scrapes, inPlace>>

BaselineRange == Samples(MergedAt - Window, MergedAt)

AdvanceWaiting ==
  /\ row.status = "WaitingForRollout"
  /\ \/ /\ inPlace
        /\ SaveVerification(
             [row EXCEPT !.status = "Verifying", !.deployedAt = clock,
                         !.baseline = Measure(BaselineRange)])
     \/ /\ ~inPlace
        /\ clock - MergedAt > RolloutTimeout
        /\ SaveVerification([row EXCEPT !.status = "NotDeployed"])

(* Mutant: a status the rest of the code does not know. *)
JudgedRegressed(observed, final) ==
  LET findings == Findings(row.baseline, observed, final) IN
  [row EXCEPT !.observed = observed,
              !.measuredAt = clock,
              !.status = IF findings = {} THEN IF final THEN "Verified" ELSE @
                         ELSE IF @ = "Verified" THEN "Regressed" ELSE "Degraded"]

(* What a measurement makes of the row. *)
Judged(observed, final) ==
  LET findings == Findings(row.baseline, observed, final) IN
  [row EXCEPT !.observed = observed,
              !.measuredAt = clock,
              !.status = IF findings # {} THEN "Degraded"
                         ELSE IF final THEN "Verified" ELSE @]

(* The end of the window, and whether it has passed. *)
WindowEnd == row.deployedAt + Window

Final == clock >= WindowEnd

(* Mutant: always the last minutes, however late the agent looks. *)
ObservedRangeLatest == Samples(clock - Window, clock)

ObservedRange == Samples(row.deployedAt, IF Final THEN WindowEnd ELSE clock)

AdvanceVerifying ==
  /\ row.status = "Verifying"
  /\ SaveVerification(Judged(Measure(ObservedRange), Final))

RecheckDue ==
  /\ RecheckInterval > 0
  /\ clock - row.deployedAt <= RecheckFor
  /\ clock - row.measuredAt >= RecheckInterval
  /\ inPlace

(* Mutant: a re-check measures everything since the rollout. *)
RecheckRangeSinceRollout == Samples(row.deployedAt, clock)

(* The same length as the baseline, so that counts stay comparable. *)
RecheckRange == Samples(clock - Window, clock)

AdvanceVerified ==
  /\ row.status = "Verified"
  /\ RecheckDue
  /\ SaveVerification(Judged(Measure(RecheckRange), TRUE))

(* A cycle's step for this change.  One in which a call or the save fails
   leaves the row as it is. *)
Advance == AdvanceWaiting \/ AdvanceVerifying \/ AdvanceVerified

Next == Minute \/ Deploy \/ Advance

Spec == Init /\ [][Next]_vars

(* Cycles go on and succeed where they can, and time passes. *)
FairSpec == Spec /\ WF_vars(Advance) /\ WF_vars(Minute)

-----------------------------------------------------------------------------
(* Properties. *)

(* Signals stay numbers that add up and no row is half measured. *)
TypeOK ==
  /\ clock \in Nat
  /\ scrapes \in Seq(Scrapes)
  /\ Len(scrapes) = clock
  /\ inPlace \in BOOLEAN
  /\ row \in Verification

Before == 1..MergedAt
After == {t \in 1..clock : t >= row.deployedAt}

Gap(t) == scrapes[t].cpu = NoData \/ scrapes[t].replicas = NoData

Worse(s, b) ==
  \/ s.restarts > b.restarts
  \/ ~(s.oom \subseteq b.oom)
  \/ s.cpu # NoData /\ b.cpu # NoData /\ Less(b.cpu, s.cpu)
  \/ s.replicas # NoData /\ b.replicas # NoData /\ s.replicas.den > b.replicas.den
  \/ s.replicas # NoData /\ Less(s.replicas, MinAvailability)

(* A change is found degraded only if, since it was found rolled out, some
   minute was worse than some minute before the merge, or a minute was not
   scraped: a workload that goes on as before is never rolled back, however
   often and after however long it is measured (compare and the windows
   advance chooses). *)
OnlyWorseIsDegraded ==
  row.status = "Degraded" =>
    \/ \E t \in Before \union After : Gap(t)
    \/ \E t \in After, b \in Before : Worse(scrapes[t], scrapes[b])

(* The averaged signals are judged on a whole window that lies after the
   rollout, never on the beginning of one: such is the measurement behind every
   "Verified", and behind a "Degraded" that restarts and OOM kills alone do not
   explain. *)
AveragesTakeAWindow ==
  (\/ row.status = "Verified"
   \/ row.status = "Degraded" /\ HardFindings(row.baseline, row.observed) = {})
  => \E end \in row.deployedAt + Window .. clock :
    row.observed = Measure(Samples(end - Window, end))

(* Worse in one way and by more than the policy allows. *)
Harms == {"restarts", "oom", "throttle", "replicas", "availability"}

Beyond(s, b, signal) ==
  CASE signal = "restarts" -> s.restarts > b.restarts + MaxNewRestarts
    [] signal = "oom" -> s.oom # {} /\ b.oom = {}
    [] signal = "throttle" -> /\ s.cpu # NoData /\ b.cpu # NoData
                              /\ Exceeds(s.cpu, b.cpu, MaxThrottleIncrease)
    [] signal = "replicas" ->
         /\ s.replicas # NoData /\ b.replicas # NoData
         /\ s.replicas.den * MaxReplicaIncrease.den
              > b.replicas.den * MaxReplicaIncrease.den + MaxReplicaIncrease.num
    [] signal = "availability" ->
         s.replicas # NoData /\ Less(s.replicas, MinAvailability)

(* A change after whose rollout every minute of the window was worse, in one and
   the same way, than every minute of the baseline is not "Verified", whichever
   way it is and however late the agent gets round to looking. *)
WorseIsNotVerified ==
  row.status = "Verified" =>
    \A signal \in Harms :
      \E t \in Minutes(row.deployedAt, row.deployedAt + Window), b \in Before :
        ~Beyond(scrapes[t], scrapes[b], signal)

(* Once its window has passed, a change that was being verified is judged: what
   the code does with measurements that are not known should not matter. *)
JudgedInTheEnd ==
  (row.status = "Verifying" /\ WindowEnd <= MaxClock)
    ~> row.status \in {"Verified", "Degraded"}
=============================================================================
