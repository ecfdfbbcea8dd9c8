------------------------------- MODULE Pulls -------------------------------
(***************************************************************************)
(* The pull requests of the GitOps repository as the agent sees them       *)
(* (internal/gitops/github.go and merged.go).  A workload ("target") has   *)
(* two branches of its own: <prefix>ns-name carries recommendations and    *)
(* <prefix>rollback-ns-name carries rollbacks.  A change set is one        *)
(* abstract value of the workload's manifest.                              *)
(*                                                                         *)
(* The module has no variables: pulls, the table of all pull requests, is  *)
(* a parameter of every operator.                                          *)
(***************************************************************************)
EXTENDS Integers

CONSTANTS MaxPRs,   \* bound: pull requests that can ever be opened
          Targets,  \* workloads, "namespace/name"
          Values    \* change sets: what a workload's manifest can hold

ASSUME PullsAssumption ==
  /\ MaxPRs \in Nat
  /\ Targets # {}
  /\ Values # {}

PRs == 1..MaxPRs
NoTime == 0      \* the zero time.Time

(***************************************************************************)
(* head is the value the PR's branch holds and base the value the branch   *)
(* was cut from; both stay what they were once the PR is closed.  The rest *)
(* is the PR's body: marker, the change set it proposes; previous, what it *)
(* replaces, unless a changed field did not exist before (previousKnown =  *)
(* FALSE); and rollbackOf, the PR whose previous value it restores.        *)
(***************************************************************************)
PullRequest ==
  [state: {"none", "open", "declined", "merged"}, target: Targets,
   head: Values, base: Values, marker: Values, previous: Values,
   previousKnown: BOOLEAN, rollbackOf: 0..MaxPRs, mergedAt: Nat]

NeverOpened ==
  [state |-> "none", target |-> CHOOSE t \in Targets : TRUE,
   head |-> CHOOSE v \in Values : TRUE, base |-> CHOOSE v \in Values : TRUE,
   marker |-> CHOOSE v \in Values : TRUE,
   previous |-> CHOOSE v \in Values : TRUE, previousKnown |-> FALSE,
   rollbackOf |-> 0, mergedAt |-> NoTime]

NoPulls == [p \in PRs |-> NeverOpened]

IsRollback(pull) == pull.rollbackOf # 0

(* GitHub numbers pull requests in the order they are opened. *)
IsNextNumber(pulls, p) ==
  /\ p \in PRs
  /\ pulls[p].state = "none"
  /\ \A q \in PRs : q < p => pulls[q].state # "none"

(* The PRs whose head is one of the workload's two branches. *)
BranchPRs(pulls, t, rollback) ==
  {p \in PRs : /\ pulls[p].state # "none"
               /\ pulls[p].target = t
               /\ IsRollback(pulls[p]) = rollback}

OpenOn(pulls, t, rollback) ==
  {p \in BranchPRs(pulls, t, rollback) : pulls[p].state = "open"}

(* Closed unmerged: a human said no to exactly these change sets. *)
DeclinedOn(pulls, t, rollback) ==
  {pulls[p].marker : p \in {q \in BranchPRs(pulls, t, rollback) :
                              pulls[q].state = "declined"}}

(* The branch's most recent merge is less than cooldown old. *)
MergedWithin(pulls, t, rollback, cooldown, now) ==
  \E p \in BranchPRs(pulls, t, rollback) :
    /\ pulls[p].state = "merged"
    /\ now < pulls[p].mergedAt + cooldown

(* The merged PRs on either kind of branch, none older than since. *)
MergedChanges(pulls, since) ==
  {p \in PRs : pulls[p].state = "merged" /\ pulls[p].mergedAt >= since}
=============================================================================
