----------------------------- MODULE Lifecycle -----------------------------
(***************************************************************************)
(* What verification promises about merged changes, whatever fails and     *)
(* however often the agent is restarted: the statuses of                   *)
(* internal/model/verification.go and the order in which they may follow   *)
(* one another, tied to the rollback PRs humans see.                       *)
(*   - a rollback is proposed only for a change found degraded,            *)
(*   - a change counts as rolled back only after a rollback of it merged,  *)
(*   - every verdict but "Verified" is final up to the rollback's outcome. *)
(***************************************************************************)
CONSTANT Changes

VARIABLES status,    \* status of each change, "None" until it is tracked
          proposed,  \* changes that some rollback PR restores
          undone     \* changes whose rollback PR was merged

vars == <<status, proposed, undone>>

Init ==
  /\ status = [c \in Changes |-> "None"]
  /\ proposed = {}
  /\ undone = {}

Move(c, from, to) ==
  /\ status[c] \in from
  /\ \E s \in to : status' = [status EXCEPT ![c] = s]
  /\ UNCHANGED <<proposed, undone>>

Track(c) == Move(c, {"None"}, {"WaitingForRollout", "Skipped"})

RollOut(c) == Move(c, {"WaitingForRollout"}, {"Verifying", "NotDeployed"})

Judge(c) == Move(c, {"Verifying"}, {"Verified", "Degraded"})

Regress(c) == Move(c, {"Verified"}, {"Degraded"})

(* The rollback is answered without a new PR. *)
Answer(c) == Move(c, {"Degraded"}, {"RollbackProposed", "RollbackDeclined"})

(* A PR is opened for c, or one for another change rewritten to restore c;
   the agent may fail to write down that it did. *)
Propose(c) ==
  /\ status[c] = "Degraded"
  /\ \E other \in SUBSET (proposed \ undone) :
       proposed' = (proposed \ other) \union {c}
  /\ status' \in {status, [status EXCEPT ![c] = "RollbackProposed"]}
  /\ UNCHANGED undone

(* A human merges the rollback. *)
Undo(c) ==
  /\ c \in proposed
  /\ undone' = undone \union {c}
  /\ UNCHANGED <<status, proposed>>

Settle(c) ==
  /\ c \in undone
  /\ Move(c, {"Degraded", "RollbackProposed", "RollbackDeclined"}, {"RolledBack"})

Next ==
  \E c \in Changes :
    \/ Track(c) \/ RollOut(c) \/ Judge(c) \/ Regress(c)
    \/ Answer(c) \/ Propose(c) \/ Undo(c) \/ Settle(c)

Spec == Init /\ [][Next]_vars
=============================================================================
