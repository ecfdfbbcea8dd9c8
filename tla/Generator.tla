----------------------------- MODULE Generator -----------------------------
(***************************************************************************)
(* The GitOps generator (internal/gitops/generator.go): applyWorkload      *)
(* brings the one PR of a workload's branch in line with a change set.  It *)
(* looks the branch's PRs up, clones and patches the base branch, force-   *)
(* pushes and then creates the PR or rewrites its body.  Each of these is  *)
(* a call of its own, between which humans merge, close and commit; each   *)
(* may fail, or succeed and lose its answer to the deadline or a crash.    *)
(*                                                                         *)
(* Apply and OpenRollback run one operation at a time ("Calls must not     *)
(* overlap"), on a change set somebody else chose: any recommendation, or  *)
(* the previous values of a merged one.  Verifier.tla has OpenRollback as  *)
(* one atomic step; this module is what that step consists of.             *)
(***************************************************************************)
EXTENDS Pulls

CONSTANTS
  Unset,       \* the value of a manifest without the field
  Cooldown,    \* quiet period after a merged recommendation; 0 disables it
  Faults,      \* kinds of failure that may happen, see Fault
  MaxFaults,   \* bound: failures in a behaviour
  MaxTime      \* bound: the clock stops here

ASSUME GeneratorAssumption ==
  /\ Unset \in Values
  /\ Cooldown \in Nat /\ MaxFaults \in Nat /\ MaxTime \in Nat

VARIABLES
  clock,      \* wall clock
  pulls,      \* pull requests on GitHub
  manifest,   \* each workload's value on the base branch
  pc,         \* the next call of the operation, "idle" between operations
  plan,       \* what the operation proposes
  found,      \* the open PR the lookup saw, 0 if none
  seen,       \* the manifest's value in the clone
  outcome,    \* how the last operation ended
  answer,     \* the PR number it returned
  faults      \* failures so far

services == <<clock, pulls, manifest>>
operation == <<pc, plan, found, seen, outcome, answer>>
vars == <<services, operation, faults>>

ChangeSets == Values \ {Unset}

Plan == [target: Targets, value: Values, rollbackOf: 0..MaxPRs]

NoPlan == [target |-> CHOOSE t \in Targets : TRUE, value |-> Unset,
           rollbackOf |-> 0]

TypeOK ==
  /\ clock \in Nat
  /\ pulls \in [PRs -> PullRequest]
  /\ manifest \in [Targets -> Values]
  /\ pc \in {"idle", "lookup", "patch", "push", "publish"}
  /\ plan \in Plan
  /\ found \in 0..MaxPRs
  /\ seen \in Values
  /\ outcome \in {"none", "ok", "error"}
  /\ answer \in 0..MaxPRs
  /\ faults \in Nat

Init ==
  /\ clock = 1
  /\ pulls = NoPulls
  /\ manifest \in [Targets -> Values]
  /\ pc = "idle" /\ plan = NoPlan /\ found = 0 /\ seen = Unset
  /\ outcome = "none" /\ answer = 0
  /\ faults = 0

(***************************************************************************)
(* Failures, by kind: "early" (token, lookup, path check, clone, patch or  *)
(* a refused push), "publish" (the PR was neither created nor rewritten)   *)
(* and "answer" (the push or the publication took place, but the operation *)
(* ended without knowing).  A crash leaves the same state as a failure.    *)
(* "manifest" is a repository that offers nothing to patch for the         *)
(* workload: no folder, no YAML file, no field that applies.               *)
(***************************************************************************)
Fault(kind) ==
  /\ kind \in Faults
  /\ faults < MaxFaults
  /\ faults' = faults + 1

NoFault == UNCHANGED faults

Ended ==
  /\ pc' = "idle" /\ plan' = NoPlan /\ found' = 0 /\ seen' = Unset

Return(q) == Ended /\ outcome' = "ok" /\ answer' = q /\ NoFault

Error(kind) == Ended /\ outcome' = "error" /\ answer' = 0 /\ Fault(kind)

Continue(next) == pc' = next /\ UNCHANGED <<plan, outcome, answer>> /\ NoFault

-----------------------------------------------------------------------------
(* One operation. *)

Begin(p) ==
  /\ pc = "idle"
  /\ pc' = "lookup"
  /\ plan' = p
  /\ outcome' = "none" /\ answer' = 0
  /\ UNCHANGED <<services, found, seen, faults>>

(* Apply, for one workload of the cycle's approved recommendations. *)
Apply(t, v) == Begin([target |-> t, value |-> v, rollbackOf |-> 0])

(* OpenRollback, for a merged change with known previous values. *)
OpenRollback(p) ==
  /\ pulls[p].state = "merged" /\ ~IsRollback(pulls[p])
  /\ pulls[p].previousKnown
  /\ Begin([target |-> pulls[p].target, value |-> pulls[p].previous,
            rollbackOf |-> p])

ForRollback == plan.rollbackOf # 0

(* Mutant: looks at the recommendation branch whatever the plan. *)
OpenRecommendations == OpenOn(pulls, plan.target, FALSE)

OpenNow == OpenOn(pulls, plan.target, ForRollback)

(* Mutant: takes any closed PR for a no. *)
DeclinedOrMerged ==
  plan.value \in {pulls[p].marker : p \in
    {q \in BranchPRs(pulls, plan.target, ForRollback) : pulls[q].state # "open"}}

(* Mutant: a no given to a rollback's change set is forgotten. *)
DeclinedChangeOnly ==
  ~ForRollback /\ plan.value \in DeclinedOn(pulls, plan.target, FALSE)

(* A human closed this exact proposal without merging. *)
Declined == plan.value \in DeclinedOn(pulls, plan.target, ForRollback)

(* Mutant: looks for the last merge on the rollback branch. *)
CoolingAfterRollback ==
  ~ForRollback /\ MergedWithin(pulls, plan.target, TRUE, Cooldown, clock)

(* A rollback is never held back. *)
Cooling ==
  ~ForRollback /\ MergedWithin(pulls, plan.target, FALSE, Cooldown, clock)

(* Mutant: any open PR on the branch will do. *)
ProposedSomehow(q) == TRUE

Proposed(q) == pulls[q].marker = plan.value

Lookup ==
  /\ pc = "lookup"
  /\ \/ \E q \in OpenNow :
          \/ Proposed(q) /\ Return(q)
          \/ ~Proposed(q) /\ Continue("patch") /\ found' = q /\ UNCHANGED seen
     \/ /\ OpenNow = {}
        /\ \/ (Declined \/ Cooling) /\ Return(0)
           \/ ~Declined /\ ~Cooling
              /\ Continue("patch") /\ found' = 0 /\ UNCHANGED seen
  /\ UNCHANGED services

(* pathExists, clone and patchWorkload: nothing to do if the manifest holds
   the value already or has no place for it. *)
Patch ==
  /\ pc = "patch"
  /\ \/ /\ manifest[plan.target] = plan.value \/ "manifest" \in Faults
        /\ Return(0)
     \/ /\ manifest[plan.target] # plan.value
        /\ Continue("push") /\ seen' = manifest[plan.target]
        /\ UNCHANGED found
  /\ UNCHANGED services

(* The force-push moves the branch; an open PR shows what it holds now. *)
Pushed ==
  pulls' = [q \in PRs |->
    IF q \in OpenNow
    THEN [pulls[q] EXCEPT !.head = plan.value, !.base = seen]
    ELSE pulls[q]]

Push ==
  /\ pc = "push"
  /\ Pushed
  /\ \/ Continue("publish") /\ UNCHANGED <<found, seen>>
     \/ Error("answer")
  /\ UNCHANGED <<clock, manifest>>

(* Mutant: quotes a field that did not exist the way the table shows it. *)
BodyQuoted(pull) ==
  [pull EXCEPT !.marker = plan.value,
               !.previous = IF seen = Unset THEN "unset" ELSE seen,
               !.previousKnown = ~ForRollback,
               !.rollbackOf = plan.rollbackOf]

(* The previous values are left out when a field did not exist before, and a
   rollback's body never shows any. *)
Body(pull) ==
  [pull EXCEPT !.marker = plan.value, !.previous = seen,
               !.previousKnown = ~ForRollback /\ seen # Unset,
               !.rollbackOf = plan.rollbackOf]

CreatePR(q) ==
  /\ found = 0
  /\ IsNextNumber(pulls, q)
  /\ pulls' = [pulls EXCEPT ![q] = Body(
                [NeverOpened EXCEPT !.state = "open", !.target = plan.target,
                                    !.head = plan.value, !.base = seen])]

(* Mutant: keeps the previous values of the first proposal. *)
BodyOnce(pull) == [Body(pull) EXCEPT !.previous = pull.previous]

Rewritten(pull) == Body(pull)

(* Nothing checks that the PR is still open. *)
UpdatePR(q) ==
  /\ found = q
  /\ pulls' = [pulls EXCEPT ![q] = Rewritten(@)]

Publish ==
  /\ pc = "publish"
  /\ \E q \in PRs :
       /\ CreatePR(q) \/ UpdatePR(q)
       /\ Return(q) \/ Error("answer")
  /\ UNCHANGED <<clock, manifest>>

Fail ==
  /\ pc # "idle"
  /\ IF pc = "publish" THEN Error("publish") ELSE Error("early")
  /\ UNCHANGED services

-----------------------------------------------------------------------------
(* The humans and the clock. *)

Around == UNCHANGED <<operation, faults>>

Tick ==
  /\ clock < MaxTime
  /\ clock' = clock + 1
  /\ UNCHANGED <<pulls, manifest>> /\ Around

(* A PR merges cleanly only onto the value its branch was cut from. *)
Merge(q) ==
  /\ pulls[q].state = "open"
  /\ manifest[pulls[q].target] = pulls[q].base
  /\ pulls' = [pulls EXCEPT ![q].state = "merged", ![q].mergedAt = clock]
  /\ manifest' = [manifest EXCEPT ![pulls[q].target] = pulls[q].head]
  /\ UNCHANGED clock /\ Around

Decline(q) ==
  /\ pulls[q].state = "open"
  /\ pulls' = [pulls EXCEPT ![q].state = "declined"]
  /\ UNCHANGED <<clock, manifest>> /\ Around

(* A human commits to the base branch, or reverts a merge there. *)
Edit(t, v) ==
  /\ manifest[t] # v
  /\ manifest' = [manifest EXCEPT ![t] = v]
  /\ UNCHANGED <<clock, pulls>> /\ Around

Step == Lookup \/ Patch \/ Push \/ Publish

Next ==
  \/ \E t \in Targets, v \in ChangeSets : Apply(t, v)
  \/ \E p \in PRs : OpenRollback(p) \/ Merge(p) \/ Decline(p)
  \/ Step \/ Fail
  \/ Tick
  \/ \E t \in Targets, v \in Values : Edit(t, v)

Spec == Init /\ [][Next]_vars

(***************************************************************************)
(* The deadline and the timeouts of git and HTTP end every call.  A cycle  *)
(* asks for the same change as long as the recommendation stands, and the  *)
(* loop starts a cycle whenever the previous one is over; that the asking  *)
(* never stops is what ApprovedIsProposed is about.                        *)
(***************************************************************************)
FairSpec ==
  /\ Spec
  /\ WF_vars(Step) /\ WF_vars(Tick)
  /\ \A t \in Targets, v \in ChangeSets : SF_vars(Apply(t, v))

-----------------------------------------------------------------------------
(* Properties. *)

(* A branch has at most one open PR, although nothing but the lookup, three
   calls earlier, keeps the generator from opening a second one. *)
OneOpenPerBranch ==
  \A q, r \in PRs :
    /\ pulls[q].state = "open" /\ pulls[r].state = "open"
    /\ pulls[q].target = pulls[r].target
    /\ IsRollback(pulls[q]) = IsRollback(pulls[r])
    => q = r

(* What the lookup saw stays true until the operation acts on it: a PR that
   was open is still one of the branch's, and where none was open none is, and
   neither a no nor a merge has come in. *)
LookupStillHolds ==
  pc \in {"patch", "push", "publish"} =>
    IF found # 0
    THEN found \in BranchPRs(pulls, plan.target, ForRollback)
    ELSE OpenNow = {} /\ ~Declined /\ ~Cooling

(* The inductive invariant behind the safety properties. *)
GeneratorInv == TypeOK /\ OneOpenPerBranch /\ LookupStillHolds

Opened(p) == pulls[p].state = "none" /\ pulls'[p].state = "open"

(* No PR is opened with a change set a closed PR of its branch shows to have
   been declined, at the moment it is opened and not only at the lookup. *)
OpensNothingDeclined ==
  [][\A p, q \in PRs :
       /\ Opened(p)
       /\ pulls[q].state = "declined" /\ pulls[q].target = pulls'[p].target
       /\ IsRollback(pulls[q]) = IsRollback(pulls'[p])
       => pulls[q].marker # pulls'[p].marker]_vars

(* No recommendation is opened within the cooldown of a merged one, by the
   clock at the moment it is opened. *)
CooldownKept ==
  [][\A p, q \in PRs :
       /\ Opened(p) /\ ~IsRollback(pulls'[p])
       /\ pulls[q].state = "merged" /\ pulls[q].target = pulls'[p].target
       /\ ~IsRollback(pulls[q])
       => clock >= pulls[q].mergedAt + Cooldown]_vars

(* The body of an open PR tells what merging it does, whenever no operation
   is under way: the value it sets and the value it replaces. *)
BodiesTellTheBranch ==
  pc = "idle" => \A q \in PRs : pulls[q].state = "open" =>
    /\ pulls[q].marker = pulls[q].head
    /\ pulls[q].previousKnown => pulls[q].previous = pulls[q].base

(* When an operation returns an open PR, merging that PR makes the change the
   operation was asked for. *)
AnswerProposes ==
  [][\A q \in PRs :
       /\ pc # "idle" /\ outcome' = "ok" /\ answer' = q
       /\ pulls'[q].state = "open"
       => pulls'[q].head = plan.value]_vars

(* A merged recommendation's body tells what the merge did, so that a failed
   change can be rolled back exactly. *)
MergedTellsTheTruth ==
  pc = "idle" => \A q \in PRs :
    pulls[q].state = "merged" /\ ~IsRollback(pulls[q]) =>
      /\ pulls[q].marker = pulls[q].head
      /\ pulls[q].previousKnown => pulls[q].previous = pulls[q].base

-----------------------------------------------------------------------------
(* Liveness, under FairSpec. *)

(* A change that is asked for again and again is proposed, unless a human
   declined it, a merge's cooldown outlasts the clock or the manifest holds it;
   a merge that was reverted does not count as a no. *)
ApprovedIsProposed ==
  \A t \in Targets, v \in ChangeSets :
    []<>(\/ manifest[t] = v
         \/ \E q \in PRs :
              /\ pulls[q].target = t /\ ~IsRollback(pulls[q])
              /\ \/ pulls[q].state \in {"open", "declined"} /\ pulls[q].marker = v
                 \/ pulls[q].state = "merged" /\ pulls[q].mergedAt + Cooldown > MaxTime
         \/ pulls[MaxPRs].state # "none")
=============================================================================
