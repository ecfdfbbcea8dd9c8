-------------------------- MODULE GeneratorProofs --------------------------
(***************************************************************************)
(* Proofs about Generator.tla, for every set of workloads and values, any  *)
(* cooldown and any number of PRs and failures.  GeneratorInv is inductive *)
(* and carries the three safety properties: what the lookup saw of a       *)
(* branch without an open PR cannot change behind the operation's back.    *)
(*                                                                         *)
(* A PR's branch and its body, which two calls write one after the other,  *)
(* agree between operations, and what an operation returns is what it was  *)
(* asked for, if neither of these two calls fails (BothWritten); whatever  *)
(* comes before them may.                                                  *)
(***************************************************************************)
EXTENDS Generator, TLAPS

-----------------------------------------------------------------------------
(* Type correctness. *)

LEMMA NeverOpenedType == NeverOpened \in PullRequest
  <1>1. 0 \in 0..MaxPRs
    BY PullsAssumption
  <1>2. /\ (CHOOSE t \in Targets : TRUE) \in Targets
        /\ (CHOOSE v \in Values : TRUE) \in Values
    BY PullsAssumption
  <1>. QED
    BY <1>1, <1>2 DEF NeverOpened, PullRequest, NoTime

LEMMA NoPlanType == NoPlan \in Plan /\ Unset \in Values /\ 0 \in 0..MaxPRs
  <1>1. 0 \in 0..MaxPRs /\ (CHOOSE t \in Targets : TRUE) \in Targets
    BY PullsAssumption
  <1>. QED
    BY <1>1, GeneratorAssumption DEF NoPlan, Plan

LEMMA BodyType ==
  ASSUME TypeOK, NEW pull \in PullRequest
  PROVE  /\ Body(pull) \in PullRequest
         /\ Body(pull).state = pull.state /\ Body(pull).target = pull.target
         /\ Body(pull).marker = plan.value
         /\ Body(pull).rollbackOf = plan.rollbackOf
         /\ Body(pull).mergedAt = pull.mergedAt
  <1>1. /\ plan.value \in Values /\ plan.rollbackOf \in 0..MaxPRs
        /\ seen \in Values
    BY DEF TypeOK, Plan
  <1>. QED
    BY <1>1 DEF Body, PullRequest

(* The PR an operation opens. *)
NewPR == Body([NeverOpened EXCEPT !.state = "open", !.target = plan.target,
                                  !.head = plan.value, !.base = seen])

LEMMA NewPRType ==
  ASSUME TypeOK
  PROVE  /\ NewPR \in PullRequest
         /\ NewPR.state = "open" /\ NewPR.target = plan.target
         /\ NewPR.marker = plan.value /\ NewPR.rollbackOf = plan.rollbackOf
  <1> DEFINE new == [NeverOpened EXCEPT !.state = "open",
                       !.target = plan.target, !.head = plan.value, !.base = seen]
  <1>1. plan.target \in Targets /\ plan.value \in Values /\ seen \in Values
    BY DEF TypeOK, Plan
  <1>2. new \in PullRequest /\ new.state = "open" /\ new.target = plan.target
    BY <1>1, NeverOpenedType DEF PullRequest
  <1>. QED
    BY <1>2, BodyType DEF NewPR

LEMMA InitType == Init => TypeOK
  <1>. SUFFICES ASSUME Init PROVE TypeOK
    OBVIOUS
  <1>1. pulls \in [PRs -> PullRequest]
    BY NeverOpenedType DEF Init, NoPulls
  <1>. QED
    BY <1>1, NoPlanType DEF Init, TypeOK

LEMMA EndedType ==
  ASSUME TypeOK, Ended
  PROVE  /\ pc' \in {"idle", "lookup", "patch", "push", "publish"}
         /\ plan' \in Plan /\ found' \in 0..MaxPRs /\ seen' \in Values
  BY NoPlanType DEF Ended

LEMMA ReturnType ==
  ASSUME TypeOK, NEW q \in 0..MaxPRs, Return(q)
  PROVE  /\ pc' \in {"idle", "lookup", "patch", "push", "publish"}
         /\ plan' \in Plan /\ found' \in 0..MaxPRs /\ seen' \in Values
         /\ outcome' \in {"none", "ok", "error"} /\ answer' \in 0..MaxPRs
         /\ faults' \in Nat
  BY EndedType DEF Return, NoFault, TypeOK

LEMMA ErrorType ==
  ASSUME TypeOK, NEW kind, Error(kind)
  PROVE  /\ pc' \in {"idle", "lookup", "patch", "push", "publish"}
         /\ plan' \in Plan /\ found' \in 0..MaxPRs /\ seen' \in Values
         /\ outcome' \in {"none", "ok", "error"} /\ answer' \in 0..MaxPRs
         /\ faults' \in Nat
  BY EndedType, NoPlanType DEF Error, Fault, TypeOK

LEMMA PushedType ==
  ASSUME TypeOK, Pushed
  PROVE  pulls' \in [PRs -> PullRequest]
  <1>1. plan.value \in Values /\ seen \in Values
    BY DEF TypeOK, Plan
  <1>2. ASSUME NEW q \in PRs
        PROVE  [pulls[q] EXCEPT !.head = plan.value, !.base = seen]
                 \in PullRequest
    <2>1. pulls[q] \in PullRequest
      BY DEF TypeOK
    <2>. QED
      BY <1>1, <2>1 DEF PullRequest
  <1>3. \A q \in PRs : pulls[q] \in PullRequest
    BY DEF TypeOK
  <1>. QED
    BY <1>2, <1>3 DEF Pushed

LEMMA StepType == TypeOK /\ Step => TypeOK'
  <1>. SUFFICES ASSUME TypeOK, Step PROVE TypeOK'
    OBVIOUS
  <1>0. \A q \in PRs : q \in 0..MaxPRs
    BY PullsAssumption DEF PRs
  <1>1. CASE Lookup
    <2>1. \A q \in OpenNow : q \in 0..MaxPRs
      BY <1>0 DEF OpenNow, OpenOn, BranchPRs
    <2>2. CASE \E q \in 0..MaxPRs : Return(q)
      BY <1>1, <2>2, ReturnType DEF Lookup, services, TypeOK
    <2>3. CASE Continue("patch") /\ found' \in 0..MaxPRs /\ UNCHANGED seen
      BY <1>1, <2>3 DEF Lookup, Continue, NoFault, services, TypeOK
    <2>4. found \in 0..MaxPRs /\ 0 \in 0..MaxPRs
      BY NoPlanType DEF TypeOK
    <2>. QED
      BY <1>1, <2>1, <2>2, <2>3, <2>4 DEF Lookup
  <1>2. CASE Patch
    <2>1. CASE Return(0)
      BY <1>2, <2>1, ReturnType, NoPlanType DEF Patch, services, TypeOK
    <2>2. CASE Continue("push") /\ seen' = manifest[plan.target]
               /\ UNCHANGED found
      <3>1. manifest[plan.target] \in Values
        BY DEF TypeOK, Plan
      <3>. QED
        BY <1>2, <2>2, <3>1 DEF Patch, Continue, NoFault, services, TypeOK
    <2>. QED
      BY <1>2, <2>1, <2>2 DEF Patch
  <1>3. CASE Push
    <2>1. pulls' \in [PRs -> PullRequest]
      BY <1>3, PushedType DEF Push
    <2>2. CASE Continue("publish") /\ UNCHANGED <<found, seen>>
      BY <1>3, <2>1, <2>2 DEF Push, Continue, NoFault, TypeOK
    <2>3. CASE Error("answer")
      BY <1>3, <2>1, <2>3, ErrorType DEF Push, TypeOK
    <2>. QED
      BY <1>3, <2>2, <2>3 DEF Push
  <1>4. CASE Publish
    <2>1. PICK q \in PRs : /\ CreatePR(q) \/ UpdatePR(q)
                           /\ Return(q) \/ Error("answer")
      BY <1>4 DEF Publish
    <2>2. pulls' \in [PRs -> PullRequest]
      <3>1. CASE CreatePR(q)
        BY <3>1, NewPRType DEF CreatePR, NewPR, TypeOK
      <3>2. CASE UpdatePR(q)
        <4>1. pulls[q] \in PullRequest
          BY DEF TypeOK
        <4>. QED
          BY <3>2, <4>1, BodyType DEF UpdatePR, Rewritten, TypeOK
      <3>. QED
        BY <2>1, <3>1, <3>2
    <2>3. CASE Return(q)
      BY <1>0, <1>4, <2>2, <2>3, ReturnType DEF Publish, TypeOK
    <2>4. CASE Error("answer")
      BY <1>4, <2>2, <2>4, ErrorType DEF Publish, TypeOK
    <2>. QED
      BY <2>1, <2>3, <2>4
  <1>. QED
    BY <1>1, <1>2, <1>3, <1>4 DEF Step

LEMMA NextType == TypeOK /\ [Next]_vars => TypeOK'
  <1>. SUFFICES ASSUME TypeOK, [Next]_vars PROVE TypeOK'
    OBVIOUS
  <1>1. ASSUME NEW p \in Plan, Begin(p) PROVE TypeOK'
    BY <1>1, NoPlanType DEF Begin, services, TypeOK
  <1>2. ASSUME NEW t \in Targets, NEW v \in ChangeSets, Apply(t, v)
        PROVE  TypeOK'
    <2>1. [target |-> t, value |-> v, rollbackOf |-> 0] \in Plan
      BY NoPlanType DEF Plan, ChangeSets
    <2>. QED
      BY <1>1, <1>2, <2>1 DEF Apply
  <1>3. ASSUME NEW p \in PRs, OpenRollback(p) PROVE TypeOK'
    <2>1. /\ pulls[p] \in PullRequest
          /\ p \in 0..MaxPRs
      BY PullsAssumption DEF TypeOK, PRs
    <2>2. [target |-> pulls[p].target, value |-> pulls[p].previous,
           rollbackOf |-> p] \in Plan
      BY <2>1 DEF Plan, PullRequest
    <2>. QED
      BY <1>1, <1>3, <2>2 DEF OpenRollback
  <1>4. CASE Step
    BY <1>4, StepType
  <1>5. CASE Fail
    <2>1. PICK kind \in {"publish", "early"} : Error(kind)
      BY <1>5 DEF Fail
    <2>. QED
      BY <1>5, <2>1, ErrorType DEF Fail, services, TypeOK
  <1>6. CASE Tick
    BY <1>6 DEF Tick, Around, operation, TypeOK
  <1>7. ASSUME NEW q \in PRs, Merge(q) PROVE TypeOK'
    <2>1. pulls[q] \in PullRequest /\ clock \in Nat
      BY DEF TypeOK
    <2>2. [pulls[q] EXCEPT !.state = "merged", !.mergedAt = clock]
            \in PullRequest /\ pulls[q].head \in Values
      BY <2>1 DEF PullRequest
    <2>. QED
      BY <1>7, <2>2 DEF Merge, Around, operation, TypeOK
  <1>8. ASSUME NEW q \in PRs, Decline(q) PROVE TypeOK'
    <2>1. pulls[q] \in PullRequest
      BY DEF TypeOK
    <2>2. [pulls[q] EXCEPT !.state = "declined"] \in PullRequest
      BY <2>1 DEF PullRequest
    <2>. QED
      BY <1>8, <2>2 DEF Decline, Around, operation, TypeOK
  <1>9. ASSUME NEW t \in Targets, NEW v \in Values, Edit(t, v) PROVE TypeOK'
    BY <1>9 DEF Edit, Around, operation, TypeOK
  <1>10. CASE UNCHANGED vars
    BY <1>10 DEF vars, services, operation, TypeOK
  <1>. QED
    BY <1>2, <1>3, <1>4, <1>5, <1>6, <1>7, <1>8, <1>9, <1>10 DEF Next

(* Type correctness: every variable keeps the shape the code gives it. *)
THEOREM GeneratorTypeCorrect == Spec => []TypeOK
  BY InitType, NextType, PTL DEF Spec

-----------------------------------------------------------------------------
(* The invariant. *)

LEMMA InitInv == Init => GeneratorInv
  <1>. SUFFICES ASSUME Init PROVE OneOpenPerBranch /\ LookupStillHolds
    BY InitType DEF GeneratorInv
  <1>1. \A q \in PRs : pulls[q].state = "none"
    BY DEF Init, NoPulls, NeverOpened
  <1>. QED
    BY <1>1 DEF Init, OneOpenPerBranch, LookupStillHolds

(* What the operations of the module read of a PR. *)
Untouched(q) ==
  /\ pulls'[q].state = pulls[q].state /\ pulls'[q].target = pulls[q].target
  /\ pulls'[q].rollbackOf = pulls[q].rollbackOf
  /\ pulls'[q].marker = pulls[q].marker
  /\ pulls'[q].mergedAt = pulls[q].mergedAt

Closes(q) ==
  /\ pulls[q].state = "open" /\ pulls'[q].state \in {"merged", "declined"}
  /\ pulls'[q].target = pulls[q].target
  /\ pulls'[q].rollbackOf = pulls[q].rollbackOf

LEMMA OpenKept ==
  ASSUME OneOpenPerBranch, \A q \in PRs : Untouched(q) \/ Closes(q)
  PROVE  OneOpenPerBranch'
  BY DEF OneOpenPerBranch, IsRollback, Untouched, Closes

(* Nobody but the generator opens PRs on the branch, so a PR that is closed
   meanwhile was open at the lookup: it can only be the one it found. *)
LEMMA LookupKept ==
  ASSUME TypeOK, TypeOK', LookupStillHolds,
         pc \in {"patch", "push", "publish"},
         plan' = plan, found' = found, clock' >= clock,
         \A q \in PRs : Untouched(q) \/ Closes(q)
  PROVE  LookupStillHolds'
  <1>1. ForRollback' = ForRollback
    BY DEF ForRollback
  <1>2. \A q \in PRs : /\ pulls'[q].target = pulls[q].target
                       /\ IsRollback(pulls'[q]) = IsRollback(pulls[q])
                       /\ pulls'[q].state = "none" <=> pulls[q].state = "none"
    BY DEF Untouched, Closes, IsRollback
  <1>3. BranchPRs(pulls', plan.target, ForRollback)
          = BranchPRs(pulls, plan.target, ForRollback)
    BY <1>2 DEF BranchPRs
  <1>4. CASE found # 0
    BY <1>1, <1>3, <1>4 DEF LookupStillHolds
  <1>5. CASE found = 0
    <2>1. OpenNow = {} /\ ~Declined /\ ~Cooling
      BY <1>5 DEF LookupStillHolds
    <2>2. \A q \in BranchPRs(pulls, plan.target, ForRollback) : Untouched(q)
      BY <2>1 DEF OpenNow, OpenOn, Closes, BranchPRs
    <2>3. OpenNow' = {}
      BY <1>1, <1>3, <2>1, <2>2 DEF OpenNow, OpenOn, Untouched
    <2>4. ~Declined'
      BY <1>1, <1>3, <2>1, <2>2 DEF Declined, DeclinedOn, Untouched
    <2>5. ~Cooling'
      <3>1. SUFFICES ASSUME ~ForRollback PROVE ~Cooling'
        BY <1>1 DEF Cooling
      <3>2. ForRollback = FALSE
        BY <3>1 DEF ForRollback
      <3>3. ~MergedWithin(pulls, plan.target, FALSE, Cooldown, clock)
        BY <2>1, <3>1 DEF Cooling
      <3>4. ASSUME NEW p \in BranchPRs(pulls', plan.target, FALSE),
                   pulls'[p].state = "merged"
            PROVE  ~(clock' < pulls'[p].mergedAt + Cooldown)
        <4>1. p \in BranchPRs(pulls, plan.target, FALSE)
          BY <1>3, <3>2
        <4>2. pulls[p].state = "merged" /\ pulls'[p].mergedAt = pulls[p].mergedAt
          BY <2>2, <3>2, <3>4, <4>1 DEF Untouched
        <4>3. ~(clock < pulls[p].mergedAt + Cooldown)
          BY <3>3, <4>1, <4>2 DEF MergedWithin
        <4>4. pulls[p].mergedAt \in Nat /\ clock \in Nat /\ clock' \in Nat
          BY <4>1 DEF BranchPRs, TypeOK, PullRequest
        <4>. QED
          BY <4>2, <4>3, <4>4, GeneratorAssumption
      <3>5. ~MergedWithin(pulls', plan.target, FALSE, Cooldown, clock')
        BY <3>4 DEF MergedWithin
      <3>. QED
        BY <3>5 DEF Cooling
    <2>. QED
      BY <1>5, <2>3, <2>4, <2>5 DEF LookupStillHolds
  <1>. QED
    BY <1>4, <1>5

LEMMA EndKeepsLookup ==
  ASSUME pc' \in {"idle", "lookup"}
  PROVE  LookupStillHolds'
  BY DEF LookupStillHolds

LEMMA SamePulls ==
  ASSUME pulls' = pulls
  PROVE  \A q \in PRs : Untouched(q)
  BY DEF Untouched

LEMMA PublishInv ==
  ASSUME GeneratorInv, Publish
  PROVE  OneOpenPerBranch'
  <1>1. pc = "publish"
    BY DEF Publish
  <1>2. PICK q \in PRs : CreatePR(q) \/ UpdatePR(q)
    BY DEF Publish
  <1>3. q # 0
    BY PullsAssumption DEF PRs
  <1>4. pulls \in [PRs -> PullRequest] /\ TypeOK
    BY DEF GeneratorInv, TypeOK
  <1>5. CASE CreatePR(q)
    <2>1. /\ OpenNow = {}
          /\ pulls'[q] = NewPR
          /\ \A r \in PRs : r # q => pulls'[r] = pulls[r]
      BY <1>1, <1>4, <1>5 DEF CreatePR, NewPR, GeneratorInv, LookupStillHolds
    <2>2. /\ pulls'[q].target = plan.target
          /\ IsRollback(pulls'[q]) = ForRollback
      BY <1>4, <2>1, NewPRType DEF IsRollback, ForRollback
    <2>3. \A r \in PRs : pulls[r].state = "open" =>
            ~(pulls[r].target = plan.target
              /\ IsRollback(pulls[r]) = ForRollback)
      BY <2>1 DEF OpenNow, OpenOn, BranchPRs
    <2>. QED
      BY <2>1, <2>2, <2>3 DEF OneOpenPerBranch, GeneratorInv
  <1>6. CASE UpdatePR(q)
    <2>1. q \in BranchPRs(pulls, plan.target, ForRollback)
      BY <1>1, <1>3, <1>6 DEF UpdatePR, GeneratorInv, LookupStillHolds
    <2>2. /\ pulls'[q] = Body(pulls[q])
          /\ \A r \in PRs : r # q => pulls'[r] = pulls[r]
      BY <1>4, <1>6 DEF UpdatePR, Rewritten
    <2>3. /\ pulls'[q].state = pulls[q].state
          /\ pulls'[q].target = pulls[q].target
          /\ IsRollback(pulls'[q]) = IsRollback(pulls[q])
      <3>1. pulls[q] \in PullRequest
        BY <1>4
      <3>2. IsRollback(pulls[q]) = ForRollback
        BY <2>1 DEF BranchPRs
      <3>. QED
        BY <1>4, <2>2, <3>1, <3>2, BodyType DEF IsRollback, ForRollback
    <2>. QED
      BY <2>2, <2>3 DEF OneOpenPerBranch, GeneratorInv
  <1>. QED
    BY <1>2, <1>5, <1>6

LEMMA NextInv == GeneratorInv /\ [Next]_vars => GeneratorInv'
  <1>. SUFFICES ASSUME GeneratorInv, [Next]_vars
                PROVE  OneOpenPerBranch' /\ LookupStillHolds'
    BY NextType DEF GeneratorInv
  <1>1. TypeOK /\ TypeOK' /\ OneOpenPerBranch /\ LookupStillHolds
    BY NextType DEF GeneratorInv
  <1>2. clock \in Nat /\ clock' \in Nat
    BY <1>1 DEF TypeOK
  <1>3. ASSUME NEW p, Begin(p) PROVE OneOpenPerBranch' /\ LookupStillHolds'
    BY <1>1, <1>3, SamePulls, OpenKept, EndKeepsLookup DEF Begin, services
  <1>4. CASE Lookup
    <2>1. OneOpenPerBranch'
      BY <1>1, <1>4, SamePulls, OpenKept DEF Lookup, services
    <2>2. CASE \E q \in OpenNow : Continue("patch") /\ found' = q
      <3>1. PICK q \in OpenNow : Continue("patch") /\ found' = q
        BY <2>2
      <3>2. q # 0 /\ q \in BranchPRs(pulls, plan.target, ForRollback)
        BY PullsAssumption DEF OpenNow, OpenOn, BranchPRs, PRs
      <3>. QED
        BY <1>4, <2>1, <3>1, <3>2
        DEF Lookup, Continue, services, ForRollback, LookupStillHolds
    <2>3. CASE /\ OpenNow = {} /\ ~Declined /\ ~Cooling
               /\ Continue("patch") /\ found' = 0
      <3>1. OpenNow' = OpenNow /\ Declined' = Declined /\ Cooling' = Cooling
        BY <1>4, <2>3 DEF Lookup, Continue, services, ForRollback, OpenNow,
                          Declined, Cooling
      <3>. QED
        BY <2>1, <2>3, <3>1 DEF LookupStillHolds
    <2>4. CASE pc' = "idle"
      BY <2>1, <2>4, EndKeepsLookup
    <2>. QED
      BY <1>4, <2>2, <2>3, <2>4 DEF Lookup, Return, Ended
  <1>5. CASE Patch
    <2>1. pulls' = pulls /\ clock' = clock /\ pc = "patch"
      BY <1>5 DEF Patch, services
    <2>2. \/ pc' = "idle"
          \/ plan' = plan /\ found' = found
      BY <1>5 DEF Patch, Return, Ended, Continue
    <2>. QED
      BY <1>1, <1>2, <2>1, <2>2, SamePulls, OpenKept, LookupKept, EndKeepsLookup
  <1>6. CASE Push
    <2>1. \A q \in PRs : Untouched(q)
      <3>1. \A q \in PRs : pulls[q] \in PullRequest
        BY <1>1 DEF TypeOK
      <3>. QED
        BY <1>6, <3>1 DEF Push, Pushed, Untouched, PullRequest
    <2>2. \/ pc' = "idle"
          \/ plan' = plan /\ found' = found
      BY <1>6 DEF Push, Error, Ended, Continue
    <2>3. clock' = clock /\ pc = "push"
      BY <1>6 DEF Push
    <2>. QED
      BY <1>1, <1>2, <2>1, <2>2, <2>3, OpenKept, LookupKept, EndKeepsLookup
  <1>7. CASE Publish
    <2>1. pc' = "idle"
      BY <1>7 DEF Publish, Return, Error, Ended
    <2>. QED
      BY <1>7, <2>1, PublishInv, EndKeepsLookup
  <1>8. CASE Fail
    <2>1. pc' = "idle" /\ pulls' = pulls
      BY <1>8 DEF Fail, Error, Ended, services
    <2>. QED
      BY <1>1, <2>1, SamePulls, OpenKept, EndKeepsLookup
  <1>9. ASSUME pc' = pc, plan' = plan, found' = found, clock' >= clock,
               \A q \in PRs : Untouched(q) \/ Closes(q)
        PROVE  OneOpenPerBranch' /\ LookupStillHolds'
    <2>1. CASE pc \in {"patch", "push", "publish"}
      BY <1>1, <1>9, <2>1, OpenKept, LookupKept
    <2>2. CASE pc \in {"idle", "lookup"}
      BY <1>1, <1>9, <2>2, OpenKept, EndKeepsLookup
    <2>. QED
      BY <1>1, <2>1, <2>2 DEF TypeOK
  <1>10. ASSUME NEW q \in PRs, Merge(q) \/ Decline(q)
         PROVE  OneOpenPerBranch' /\ LookupStillHolds'
    <2>1. \A r \in PRs : pulls[r] \in PullRequest
      BY <1>1 DEF TypeOK
    <2>2. Closes(q) /\ \A r \in PRs : r # q => Untouched(r)
      BY <1>1, <1>10, <2>1
      DEF Merge, Decline, Closes, Untouched, TypeOK, PullRequest
    <2>. QED
      BY <1>2, <1>9, <1>10, <2>2 DEF Merge, Decline, Around, operation
  <1>11. CASE \/ Tick \/ UNCHANGED vars
              \/ \E t \in Targets, v \in Values : Edit(t, v)
    <2>1. /\ pulls' = pulls /\ clock' >= clock
          /\ pc' = pc /\ plan' = plan /\ found' = found
      BY <1>2, <1>11 DEF Tick, Edit, Around, vars, services, operation
    <2>. QED
      BY <1>9, <2>1, SamePulls
  <1>. QED
    BY <1>3, <1>4, <1>5, <1>6, <1>7, <1>8, <1>10, <1>11
    DEF Next, Step, Apply, OpenRollback

LEMMA InvHolds == Spec => []GeneratorInv
  BY InitInv, NextInv, PTL DEF Spec

(* A branch never has two open PRs, although another call of the operation is
   what looked and only that call keeps a second one from being opened. *)
THEOREM AtMostOneOpenPerBranch == Spec => []OneOpenPerBranch
  <1>1. GeneratorInv => OneOpenPerBranch
    BY DEF GeneratorInv
  <1>. QED
    BY <1>1, InvHolds, PTL

-----------------------------------------------------------------------------
(* What a PR is like at the moment it is opened. *)

LEMMA OpenedByCreate ==
  ASSUME GeneratorInv, [Next]_vars, NEW p \in PRs, Opened(p)
  PROVE  /\ OpenNow = {} /\ ~Declined /\ ~Cooling
         /\ pulls'[p].target = plan.target /\ pulls'[p].marker = plan.value
         /\ IsRollback(pulls'[p]) = ForRollback
  <1>1. \A q \in PRs : pulls[q] \in PullRequest
    BY DEF GeneratorInv, TypeOK
  <1>2. pulls \in [PRs -> PullRequest]
    BY DEF GeneratorInv, TypeOK
  <1>3. pulls[p].state = "none" /\ pulls'[p].state = "open"
    BY DEF Opened
  <1>4. pulls' # pulls
    BY <1>3
  <1>5. ~Push
    BY <1>1, <1>3 DEF Push, Pushed, OpenNow, OpenOn
  <1>6. \A q \in PRs : ~Merge(q) /\ ~Decline(q)
    <2>. SUFFICES ASSUME NEW q \in PRs, Merge(q) \/ Decline(q) PROVE FALSE
      OBVIOUS
    <2>1. q # p
      BY <1>3 DEF Merge, Decline
    <2>2. pulls'[p] = pulls[p]
      BY <1>2, <2>1 DEF Merge, Decline
    <2>. QED
      BY <1>3, <2>2
  <1>7. Publish
    BY <1>4, <1>5, <1>6
    DEF Next, Step, Apply, OpenRollback, Begin, Lookup, Patch, Fail, Tick, Edit,
        vars, services
  <1>8. PICK q \in PRs : CreatePR(q) \/ UpdatePR(q)
    BY <1>7 DEF Publish
  <1>9. ~UpdatePR(q)
    <2>. SUFFICES ASSUME UpdatePR(q) PROVE FALSE
      OBVIOUS
    <2>1. pulls'[p].state = pulls[p].state
      BY <1>1, <1>2, BodyType DEF UpdatePR, Rewritten, GeneratorInv
    <2>. QED
      BY <1>3, <2>1
  <1>10. q = p /\ pulls'[p] = NewPR /\ found = 0
    BY <1>2, <1>3, <1>8, <1>9 DEF CreatePR, NewPR
  <1>11. OpenNow = {} /\ ~Declined /\ ~Cooling
    BY <1>7, <1>10 DEF Publish, GeneratorInv, LookupStillHolds
  <1>. QED
    BY <1>10, <1>11, NewPRType DEF GeneratorInv, IsRollback, ForRollback

(* A change set a human declined is not opened again, however late the no came
   in and whatever failed since the lookup. *)
THEOREM DeclinedIsNotReopened == Spec => OpensNothingDeclined
  <1>1. ASSUME GeneratorInv, [Next]_vars, NEW p \in PRs, NEW q \in PRs,
               Opened(p), pulls[q].state = "declined",
               pulls[q].target = pulls'[p].target,
               IsRollback(pulls[q]) = IsRollback(pulls'[p])
        PROVE  pulls[q].marker # pulls'[p].marker
    <2>1. q \in BranchPRs(pulls, plan.target, ForRollback)
      BY <1>1, OpenedByCreate DEF BranchPRs
    <2>. QED
      BY <1>1, <2>1, OpenedByCreate DEF Declined, DeclinedOn
  <1>2. GeneratorInv /\ [Next]_vars =>
          \A p, q \in PRs :
            /\ Opened(p)
            /\ pulls[q].state = "declined" /\ pulls[q].target = pulls'[p].target
            /\ IsRollback(pulls[q]) = IsRollback(pulls'[p])
            => pulls[q].marker # pulls'[p].marker
    BY <1>1
  <1>. QED
    BY <1>2, InvHolds, PTL DEF Spec, OpensNothingDeclined

(* No recommendation is opened before the cooldown of the workload's last
   merged recommendation is over, by the clock when it is opened. *)
THEOREM CooldownIsKept == Spec => CooldownKept
  <1>1. ASSUME GeneratorInv, [Next]_vars, NEW p \in PRs, NEW q \in PRs,
               Opened(p), ~IsRollback(pulls'[p]), pulls[q].state = "merged",
               pulls[q].target = pulls'[p].target, ~IsRollback(pulls[q])
        PROVE  clock >= pulls[q].mergedAt + Cooldown
    <2>1. ~ForRollback /\ ~Cooling /\ pulls[q].target = plan.target
      BY <1>1, OpenedByCreate
    <2>2. q \in BranchPRs(pulls, plan.target, FALSE)
      BY <1>1, <2>1 DEF BranchPRs
    <2>3. ~(clock < pulls[q].mergedAt + Cooldown)
      BY <1>1, <2>1, <2>2 DEF Cooling, MergedWithin
    <2>4. clock \in Nat /\ pulls[q].mergedAt \in Nat
      BY <1>1 DEF GeneratorInv, TypeOK, PullRequest
    <2>. QED
      BY <2>3, <2>4, GeneratorAssumption
  <1>2. GeneratorInv /\ [Next]_vars =>
          \A p, q \in PRs :
            /\ Opened(p) /\ ~IsRollback(pulls'[p])
            /\ pulls[q].state = "merged" /\ pulls[q].target = pulls'[p].target
            /\ ~IsRollback(pulls[q])
            => clock >= pulls[q].mergedAt + Cooldown
    BY <1>1
  <1>. QED
    BY <1>2, InvHolds, PTL DEF Spec, CooldownKept

-----------------------------------------------------------------------------
BothWritten == "publish" \notin Faults /\ "answer" \notin Faults

Tells(pull) ==
  /\ pull.marker = pull.head
  /\ pull.previousKnown => pull.previous = pull.base

(* Between the push and the publication the branch is ahead of the body. *)
Pending(q) == pc = "publish" /\ q \in OpenNow

BranchesInv ==
  \A q \in PRs : pulls[q].state = "open" =>
    IF Pending(q)
    THEN pulls[q].head = plan.value /\ pulls[q].base = seen
    ELSE Tells(pulls[q])

(* The one PR whose branch a push moves is the one whose body is rewritten. *)
FoundIsAll == pc \in {"patch", "push", "publish"} => OpenNow \subseteq {found}

NotYetOver == pc # "idle" => outcome = "none"

BodiesInv == GeneratorInv /\ BranchesInv /\ FoundIsAll /\ NotYetOver

LEMMA InitBodies == Init => BodiesInv
  <1>. SUFFICES ASSUME Init PROVE BranchesInv /\ FoundIsAll /\ NotYetOver
    BY InitInv DEF BodiesInv
  <1>1. \A q \in PRs : pulls[q].state = "none"
    BY DEF Init, NoPulls, NeverOpened
  <1>. QED
    BY <1>1 DEF Init, BranchesInv, FoundIsAll, NotYetOver

-----------------------------------------------------------------------------
(* Steps that leave every branch and every body alone. *)

(* A PR is as it was, or it was closed. *)
Kept(q) ==
  /\ pulls'[q].head = pulls[q].head /\ pulls'[q].base = pulls[q].base
  /\ pulls'[q].marker = pulls[q].marker
  /\ pulls'[q].previous = pulls[q].previous
  /\ pulls'[q].previousKnown = pulls[q].previousKnown
  /\ pulls'[q].target = pulls[q].target
  /\ pulls'[q].rollbackOf = pulls[q].rollbackOf
  /\ pulls'[q].state # pulls[q].state =>
       pulls[q].state = "open" /\ pulls'[q].state \in {"merged", "declined"}

LEMMA SameIsKept ==
  ASSUME pulls' = pulls
  PROVE  \A q \in PRs : Kept(q)
  BY DEF Kept

LEMMA KeptOpen ==
  ASSUME \A q \in PRs : Kept(q), plan' = plan
  PROVE  /\ OpenNow' \subseteq OpenNow
         /\ \A q \in OpenNow : pulls'[q].state = "open" => q \in OpenNow'
  <1>1. ForRollback' = ForRollback
    BY DEF ForRollback
  <1>2. \A q \in PRs : IsRollback(pulls'[q]) = IsRollback(pulls[q])
    BY DEF Kept, IsRollback
  <1>. QED
    BY <1>1, <1>2 DEF OpenNow, OpenOn, BranchPRs, Kept

LEMMA KeptFound ==
  ASSUME FoundIsAll, \A q \in PRs : Kept(q), plan' = plan, found' = found,
         pc \in {"patch", "push", "publish"}
  PROVE  FoundIsAll'
  BY KeptOpen DEF FoundIsAll

LEMMA KeptBranches ==
  ASSUME BranchesInv, \A q \in PRs : Kept(q),
         \/ pc # "publish" /\ pc' # "publish"
         \/ pc' = pc /\ plan' = plan /\ seen' = seen
  PROVE  BranchesInv'
  <1>. SUFFICES ASSUME NEW q \in PRs, pulls'[q].state = "open"
                PROVE  IF Pending(q)'
                       THEN pulls'[q].head = plan'.value /\ pulls'[q].base = seen'
                       ELSE Tells(pulls'[q])
    BY DEF BranchesInv
  <1>1. pulls[q].state = "open" /\ Kept(q)
    BY DEF Kept
  <1>2. CASE pc # "publish" /\ pc' # "publish"
    BY <1>1, <1>2 DEF BranchesInv, Pending, Tells, Kept
  <1>3. CASE pc' = pc /\ plan' = plan /\ seen' = seen
    <2>1. Pending(q)' <=> Pending(q)
      BY <1>3, KeptOpen DEF Pending
    <2>. QED
      BY <1>1, <1>3, <2>1 DEF BranchesInv, Tells, Kept
  <1>. QED
    BY <1>2, <1>3

-----------------------------------------------------------------------------
(* The calls of an operation. *)

LEMMA LookupBodies ==
  ASSUME BodiesInv, Lookup
  PROVE  BranchesInv' /\ FoundIsAll' /\ NotYetOver'
  <1>1. pulls' = pulls /\ pc = "lookup" /\ pc' \in {"idle", "patch"}
    BY DEF Lookup, services, Return, Ended, Continue
  <1>2. BranchesInv'
    BY <1>1, SameIsKept, KeptBranches DEF BodiesInv
  <1>3. NotYetOver'
    BY <1>1 DEF Lookup, Return, Ended, Continue, BodiesInv, NotYetOver
  <1>4. CASE pc' = "idle"
    BY <1>2, <1>3, <1>4 DEF FoundIsAll
  <1>5. CASE pc' = "patch"
    <2>1. plan' = plan /\ \/ OpenNow = {}
                          \/ found' \in OpenNow
      BY <1>5 DEF Lookup, Return, Ended, Continue
    <2>2. OpenNow' = OpenNow
      BY <1>1, <2>1 DEF OpenNow, ForRollback
    <2>3. \A q, r \in OpenNow : q = r
      BY DEF OpenNow, OpenOn, BranchPRs, BodiesInv, GeneratorInv, OneOpenPerBranch
    <2>. QED
      BY <1>2, <1>3, <2>1, <2>2, <2>3 DEF FoundIsAll
  <1>. QED
    BY <1>1, <1>4, <1>5

LEMMA PushBodies ==
  ASSUME BodiesInv, Push, BothWritten
  PROVE  BranchesInv' /\ FoundIsAll' /\ NotYetOver'
  <1>1. /\ pc = "push" /\ pc' = "publish" /\ Pushed /\ plan' = plan
        /\ found' = found /\ seen' = seen /\ outcome' = outcome
    BY DEF Push, Continue, Error, Fault, BothWritten
  <1>2. \A q \in PRs : pulls[q] \in PullRequest
    BY DEF BodiesInv, GeneratorInv, TypeOK
  <1>3. \A q \in PRs : q \in OpenNow =>
          /\ pulls'[q].head = plan.value /\ pulls'[q].base = seen
          /\ pulls'[q].state = pulls[q].state
          /\ pulls'[q].target = pulls[q].target
          /\ pulls'[q].rollbackOf = pulls[q].rollbackOf
    BY <1>1, <1>2 DEF Pushed, PullRequest
  <1>4. \A q \in PRs : q \notin OpenNow => pulls'[q] = pulls[q]
    BY <1>1 DEF Pushed
  <1>5. OpenNow' = OpenNow
    <2>1. \A q \in PRs : /\ pulls'[q].state = pulls[q].state
                         /\ pulls'[q].target = pulls[q].target
                         /\ IsRollback(pulls'[q]) = IsRollback(pulls[q])
      BY <1>3, <1>4 DEF IsRollback
    <2>2. ForRollback' = ForRollback
      BY <1>1 DEF ForRollback
    <2>. QED
      BY <1>1, <2>1, <2>2 DEF OpenNow, OpenOn, BranchPRs
  <1>6. BranchesInv'
    <2>. SUFFICES ASSUME NEW q \in PRs, pulls'[q].state = "open"
                  PROVE  IF Pending(q)'
                         THEN /\ pulls'[q].head = plan'.value
                              /\ pulls'[q].base = seen'
                         ELSE Tells(pulls'[q])
      BY DEF BranchesInv
    <2>1. Pending(q)' <=> q \in OpenNow
      BY <1>1, <1>5 DEF Pending
    <2>2. CASE q \in OpenNow
      BY <1>1, <1>3, <2>1, <2>2
    <2>3. CASE q \notin OpenNow
      <3>1. pulls'[q] = pulls[q] /\ ~Pending(q)
        BY <1>4, <2>3 DEF Pending
      <3>. QED
        BY <2>1, <2>3, <3>1 DEF BodiesInv, BranchesInv
    <2>. QED
      BY <2>2, <2>3
  <1>7. FoundIsAll' /\ NotYetOver'
    BY <1>1, <1>5 DEF BodiesInv, FoundIsAll, NotYetOver
  <1>. QED
    BY <1>6, <1>7

(* What a PR is like once its body is written. *)
LEMMA BodyTells ==
  ASSUME TypeOK, NEW pull \in PullRequest,
         pull.head = plan.value, pull.base = seen
  PROVE  Tells(Body(pull)) /\ Body(pull).head = plan.value
  <1>1. plan.value \in Values /\ plan.rollbackOf \in 0..MaxPRs /\ seen \in Values
    BY DEF TypeOK, Plan
  <1>. QED
    BY <1>1 DEF Body, PullRequest, Tells

LEMMA NewPRTells ==
  ASSUME TypeOK
  PROVE  Tells(NewPR) /\ NewPR.head = plan.value
  <1> DEFINE new == [NeverOpened EXCEPT !.state = "open",
                       !.target = plan.target, !.head = plan.value, !.base = seen]
  <1>1. plan.target \in Targets /\ plan.value \in Values /\ seen \in Values
    BY DEF TypeOK, Plan
  <1>2. new \in PullRequest /\ new.head = plan.value /\ new.base = seen
    BY <1>1, NeverOpenedType DEF PullRequest
  <1>3. NewPR = Body(new)
    BY DEF NewPR
  <1> HIDE DEF new
  <1>. QED
    BY <1>2, <1>3, BodyTells

(* The PR a publication leaves open holds and tells the plan; no other PR of
   the branch is open. *)
LEMMA Published ==
  ASSUME BodiesInv, pc = "publish", NEW q \in PRs, CreatePR(q) \/ UpdatePR(q),
         pulls'[q].state = "open"
  PROVE  Tells(pulls'[q]) /\ pulls'[q].head = plan.value
  <1>1. TypeOK /\ pulls \in [PRs -> PullRequest]
    BY DEF BodiesInv, GeneratorInv, TypeOK
  <1>2. CASE CreatePR(q)
    BY <1>1, <1>2, NewPRTells DEF CreatePR, NewPR
  <1>3. CASE UpdatePR(q)
    <2>1. pulls'[q] = Body(pulls[q]) /\ pulls[q] \in PullRequest
      BY <1>1, <1>3 DEF UpdatePR, Rewritten
    <2>2. pulls[q].state = "open"
      BY <1>1, <2>1, BodyType
    <2>3. q # 0 /\ found = q
      BY <1>3, PullsAssumption DEF UpdatePR, PRs
    <2>4. q \in BranchPRs(pulls, plan.target, ForRollback)
      BY <2>3 DEF BodiesInv, GeneratorInv, LookupStillHolds
    <2>5. Pending(q)
      BY <2>2, <2>4 DEF Pending, OpenNow, OpenOn
    <2>6. pulls[q].head = plan.value /\ pulls[q].base = seen
      BY <2>2, <2>5 DEF BodiesInv, BranchesInv
    <2>. QED
      BY <1>1, <2>1, <2>6, BodyTells
  <1>. QED
    BY <1>2, <1>3

LEMMA PublishBodies ==
  ASSUME BodiesInv, Publish
  PROVE  BranchesInv' /\ FoundIsAll' /\ NotYetOver'
  <1>1. pc = "publish" /\ pc' = "idle"
    BY DEF Publish, Return, Error, Ended
  <1>2. PICK q \in PRs : CreatePR(q) \/ UpdatePR(q)
    BY DEF Publish
  <1>3. pulls \in [PRs -> PullRequest]
    BY DEF BodiesInv, GeneratorInv, TypeOK
  <1>4. /\ OpenNow \subseteq {q}
        /\ \A r \in PRs : r # q => pulls'[r] = pulls[r]
    <2>1. found = 0 => OpenNow = {}
      BY <1>1 DEF BodiesInv, GeneratorInv, LookupStillHolds
    <2>2. OpenNow \subseteq {found}
      BY <1>1 DEF BodiesInv, FoundIsAll
    <2>. QED
      BY <1>2, <1>3, <2>1, <2>2 DEF CreatePR, UpdatePR
  <1>5. BranchesInv'
    <2>. SUFFICES ASSUME NEW r \in PRs, pulls'[r].state = "open"
                  PROVE  Tells(pulls'[r])
      BY <1>1 DEF BranchesInv, Pending
    <2>1. CASE r = q
      BY <1>1, <1>2, <2>1, Published
    <2>2. CASE r # q
      <3>1. pulls'[r] = pulls[r] /\ ~Pending(r)
        BY <1>4, <2>2 DEF Pending
      <3>. QED
        BY <3>1 DEF BodiesInv, BranchesInv
    <2>. QED
      BY <2>1, <2>2
  <1>. QED
    BY <1>1, <1>5 DEF FoundIsAll, NotYetOver

LEMMA NextBodies ==
  ASSUME BodiesInv, [Next]_vars, BothWritten
  PROVE  BodiesInv'
  <1>. SUFFICES BranchesInv' /\ FoundIsAll' /\ NotYetOver'
    BY NextInv DEF BodiesInv
  <1>1. /\ BranchesInv /\ FoundIsAll /\ NotYetOver
        /\ pc \in {"idle", "lookup", "patch", "push", "publish"}
    BY DEF BodiesInv, GeneratorInv, TypeOK
  <1>2. ASSUME NEW p, Begin(p)
        PROVE  BranchesInv' /\ FoundIsAll' /\ NotYetOver'
    <2>1. /\ pulls' = pulls /\ pc = "idle" /\ pc' = "lookup"
          /\ outcome' = "none"
      BY <1>2 DEF Begin, services
    <2>. QED
      BY <1>1, <2>1, SameIsKept, KeptBranches DEF FoundIsAll, NotYetOver
  <1>3. CASE Lookup
    BY <1>3, LookupBodies
  <1>4. CASE Patch
    <2>1. /\ pulls' = pulls /\ pc = "patch"
          /\ \/ pc' = "idle"
             \/ /\ pc' = "push" /\ plan' = plan /\ found' = found
                /\ outcome' = outcome
      BY <1>4 DEF Patch, services, Return, Ended, Continue
    <2>2. BranchesInv'
      BY <1>1, <2>1, SameIsKept, KeptBranches
    <2>3. FoundIsAll'
      BY <1>1, <2>1, SameIsKept, KeptFound DEF FoundIsAll
    <2>. QED
      BY <1>1, <2>1, <2>2, <2>3 DEF NotYetOver
  <1>5. CASE Push
    BY <1>5, PushBodies
  <1>6. CASE Publish
    BY <1>6, PublishBodies
  <1>7. CASE Fail
    <2>1. pc # "publish" /\ pc' = "idle" /\ pulls' = pulls
      BY <1>7 DEF Fail, Error, Ended, Fault, services, BothWritten
    <2>. QED
      BY <1>1, <2>1, SameIsKept, KeptBranches DEF FoundIsAll, NotYetOver
  <1>8. ASSUME \A q \in PRs : Kept(q), UNCHANGED operation
        PROVE  BranchesInv' /\ FoundIsAll' /\ NotYetOver'
    <2>1. /\ pc' = pc /\ plan' = plan /\ found' = found /\ seen' = seen
          /\ outcome' = outcome
      BY <1>8 DEF operation
    <2>2. BranchesInv' /\ NotYetOver'
      BY <1>1, <1>8, <2>1, KeptBranches DEF NotYetOver
    <2>3. FoundIsAll'
      BY <1>1, <1>8, <2>1, KeptFound DEF FoundIsAll
    <2>. QED
      BY <2>2, <2>3
  <1>9. ASSUME NEW q \in PRs, Merge(q) \/ Decline(q)
        PROVE  BranchesInv' /\ FoundIsAll' /\ NotYetOver'
    <2>1. \A r \in PRs : pulls[r] \in PullRequest
      BY DEF BodiesInv, GeneratorInv, TypeOK
    <2>2. pulls \in [PRs -> PullRequest]
      BY DEF BodiesInv, GeneratorInv, TypeOK
    <2>3. \A r \in PRs : Kept(r)
      BY <1>9, <2>1, <2>2 DEF Merge, Decline, Kept, PullRequest
    <2>. QED
      BY <1>8, <1>9, <2>3 DEF Merge, Decline, Around
  <1>10. CASE \/ Tick \/ UNCHANGED vars
              \/ \E t \in Targets, v \in Values : Edit(t, v)
    <2>1. pulls' = pulls /\ UNCHANGED operation
      BY <1>10 DEF Tick, Edit, Around, vars, services
    <2>. QED
      BY <1>8, <2>1, SameIsKept
  <1>. QED
    BY <1>2, <1>3, <1>4, <1>5, <1>6, <1>7, <1>9, <1>10
    DEF Next, Step, Apply, OpenRollback

LEMMA BodiesHold ==
  ASSUME BothWritten
  PROVE  Spec => []BodiesInv
  <1>1. BodiesInv /\ [Next]_vars => BodiesInv'
    BY NextBodies
  <1>. QED
    BY <1>1, InitBodies, PTL DEF Spec

(* Between operations every open PR tells what merging it does: the value its
   branch holds and the value the branch was cut from. *)
THEOREM BodiesAgree ==
  ASSUME BothWritten
  PROVE  Spec => []BodiesTellTheBranch
  <1>1. BodiesInv => BodiesTellTheBranch
    BY DEF BodiesInv, BranchesInv, Pending, Tells, BodiesTellTheBranch
  <1>. QED
    BY <1>1, BodiesHold, PTL

(* An open PR that applyWorkload returns holds the change set it was asked
   for, whether the operation wrote it or took it for up to date. *)
THEOREM AnswersAreProposals ==
  ASSUME BothWritten
  PROVE  Spec => AnswerProposes
  <1>1. ASSUME BodiesInv, [Next]_vars, NEW q \in PRs,
               pc # "idle", outcome' = "ok", answer' = q,
               pulls'[q].state = "open"
        PROVE  pulls'[q].head = plan.value
    <2>1. outcome # "ok"
      BY <1>1 DEF BodiesInv, NotYetOver
    <2>2. q # 0
      BY PullsAssumption DEF PRs
    <2>3. Lookup \/ Publish
      BY <1>1, <2>1, <2>2
      DEF Next, Step, Apply, OpenRollback, Begin, Patch, Push, Return, Continue,
          Error, Fail, Tick, Merge, Decline, Edit, Around, operation, vars
    <2>4. CASE Lookup
      <3>1. Proposed(q) /\ q \in OpenNow /\ pulls' = pulls /\ pc = "lookup"
        BY <1>1, <2>1, <2>2, <2>4 DEF Lookup, Return, Continue, services
      <3>2. pulls[q].state = "open" /\ ~Pending(q)
        BY <3>1 DEF OpenNow, OpenOn, Pending
      <3>3. Tells(pulls[q])
        BY <1>1, <3>2 DEF BodiesInv, BranchesInv
      <3>. QED
        BY <3>1, <3>3 DEF Tells, Proposed
    <2>5. CASE Publish
      <3>1. (CreatePR(q) \/ UpdatePR(q)) /\ pc = "publish"
        BY <1>1, <2>5 DEF Publish, Return, Error
      <3>. QED
        BY <1>1, <3>1, Published
    <2>. QED
      BY <2>3, <2>4, <2>5
  <1>2. BodiesInv /\ [Next]_vars =>
          \A q \in PRs :
            /\ pc # "idle" /\ outcome' = "ok" /\ answer' = q
            /\ pulls'[q].state = "open"
            => pulls'[q].head = plan.value
    BY <1>1
  <1>. QED
    BY <1>2, BodiesHold, PTL DEF Spec, AnswerProposes
=============================================================================
