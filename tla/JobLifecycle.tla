--------------------------- MODULE JobLifecycle ----------------------------
(***************************************************************************)
(* What a job promises to whoever looks it up (the API, the dashboard):    *)
(* the life of its stored status, with nothing said of stages, retries,    *)
(* memory or message order.  JobOrchestrator is shown to implement it.     *)
(*                                                                         *)
(* The statuses are those of JobStatus in src/models/job.model.ts, and     *)
(* "none" for a job the store has never seen.                              *)
(***************************************************************************)
EXTENDS Naturals

CONSTANTS
  Jobs,      \* job ids
  HasGate    \* the workflow contains the approval_notify stage

VARIABLES
  status,    \* status[j]: the status anyone reading the store sees
  passed     \* passed[j]: the gate let the job through

lifecycleVars == <<status, passed>>

Terminal == {"completed", "failed", "rejected"}

Init ==
  /\ status = [j \in Jobs |-> "none"]
  /\ passed = [j \in Jobs |-> FALSE]

Move(j, from, to) ==
  /\ status[j] \in from
  /\ status' = [status EXCEPT ![j] = to]

Submit(j) == Move(j, {"none"}, "queued") /\ UNCHANGED passed

Start(j) == Move(j, {"queued"}, "running") /\ UNCHANGED passed

AskApproval(j) ==
  /\ HasGate
  /\ ~passed[j]
  /\ Move(j, {"running"}, "awaiting_approval")
  /\ UNCHANGED passed

Approve(j) ==
  /\ Move(j, {"awaiting_approval"}, "running")
  /\ passed' = [passed EXCEPT ![j] = TRUE]

Reject(j) == Move(j, {"awaiting_approval"}, "rejected") /\ UNCHANGED passed

Fail(j) == Move(j, {"running", "awaiting_approval"}, "failed") /\ UNCHANGED passed

(* Only a job that went through the gate, when there is one, completes.    *)
Complete(j) ==
  /\ HasGate => passed[j]
  /\ Move(j, {"running"}, "completed")
  /\ UNCHANGED passed

Next ==
  \E j \in Jobs :
    \/ Submit(j)
    \/ Start(j)
    \/ AskApproval(j)
    \/ Approve(j)
    \/ Reject(j)
    \/ Fail(j)
    \/ Complete(j)

Spec == Init /\ [][Next]_lifecycleVars

=============================================================================
