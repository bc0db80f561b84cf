--------------------------- MODULE JobProperties ---------------------------
(***************************************************************************)
(* What should be true of JobOrchestrator.                                 *)
(***************************************************************************)
EXTENDS JobOrchestrator

(***************************************************************************)
(* Safety                                                                  *)
(***************************************************************************)

(* The approval gate (orchestrator.ts, "check the decision"): whatever     *)
(* the clicks, calls, timeouts, retries, throwing saves and crashes, no    *)
(* stage after the gate is started, and no stored row shows one that was,  *)
(* unless a person approved the job and that approval settled the promise  *)
(* the gate awaited last.                                                  *)
NothingRunsUnapproved ==
  \A j \in Jobs :
    Gate > 0 /\ (cur[j] > Gate \/ \E k \in Stage : k > Gate /\ View(j).recs[k] # "pending")
      => Verdict(j) = "approved" /\ "approved" \in human[j]

(* A row is the picture of one moment of a run when its status fits its    *)
(* stage records (job.model.ts).                                           *)
Coherent(row) ==
  LET Upto(k) == \A l \in 1..(k - 1) : row.recs[l] = "completed"
      From(k) == \A l \in k..NumStages : row.recs[l] = "pending"
  IN CASE row.status \in {"none", "queued"}  -> From(1)
       [] row.status = "awaiting_approval"   -> Gate > 0 /\ Upto(Gate) /\ From(Gate + 1)
       [] row.status = "rejected"            -> Gate > 0 /\ Upto(Gate + 1) /\ From(Gate + 1)
       [] row.status = "completed"           -> Upto(NumStages + 1)
       [] row.error = "stage"                -> \E k \in Stage : /\ row.recs[k] = "failed"
                                                                 /\ Upto(k) /\ From(k + 1)
       [] OTHER                              -> TRUE

(* Every stored row is the picture of one moment of the run, although      *)
(* three kinds of writer save whole rows they read or built at different   *)
(* times.                                                                  *)
RowIsCoherent == \A j \in Jobs : Coherent(View(j))

(* approval-store.ts: see AckedDecisionWins of module ApprovalStore.       *)
AckedDecisionWins == Gates!AckedDecisionWins

(* approval-store.ts: see EntryIsOpen of module ApprovalStore.             *)
EntryIsOpen == Gates!EntryIsOpen

(* While a job waits at an open gate somebody can still answer it: the Map *)
(* holds the resolve function of the very promise the stage awaits and the *)
(* timer of that promise is armed (waitForApproval).  This needs a store   *)
(* that does not throw.                                                    *)
GateHasResolver ==
  \A j \in Jobs : pc[j] = "wait" /\ Verdict(j) = "pending" =>
    callbacks[j] = waits[j] /\ waits[j] \in timers[j]

(* A rejection that was acknowledged as resolved stops the workflow: no    *)
(* other approver, click, timer or retry gets the job past the gate.       *)
(* Cancelling a job that waits at the gate counts as one.                  *)
RejectionIsFinal ==
  \A j \in Jobs, w \in 1..MaxAttempts :
    Gate > 0 /\ "rejected" \in acked[j][w] => cur[j] <= Gate

(***************************************************************************)
(* Action properties                                                       *)
(***************************************************************************)

(* Who may change the row of a job that has ended (completeJob, failJob    *)
(* and rejectJob are meant to be last): only the runner of a job somebody  *)
(* cancelled while it worked, which knows nothing of that, and a handler   *)
(* that checked the row before it ended and now writes its copy.  Retries, *)
(* throwing saves, timers, clicks and a restart never do.                  *)
EndedJobsStay ==
  [][\A j \in Jobs :
       View(j).status \in Terminal /\ View(j)'.status # View(j).status =>
         \/ View(j).error = "cancelled"
         \/ \E r \in Requests : req[r].job = j /\ req[r].pc = "save"]_vars

StageStarts(j) == pc[j] \in {"check", "openGate"} /\ pc'[j] = "attempt"

(* Once a cancellation was answered with success, no further stage of the  *)
(* job is started ("The current stage may still complete but no further    *)
(* stages will run", docs/prd-dashboard-phase3.md).                        *)
CancelStopsFurtherStages ==
  [][\A r \in Requests : req[r].answer = "cancelled" => ~StageStarts(req[r].job)]_vars

(***************************************************************************)
(* What a message, a note or a status tells its reader                     *)
(***************************************************************************)

(* handleSlackInteraction replaces the message "to confirm the decision":  *)
(* a job whose message shows Approved is not rejected, unless somebody     *)
(* else rejected or cancelled it.                                          *)
ConfirmedClickIsFollowed ==
  \A j \in Jobs : slackMsg[j] = "approved" /\ View(j).status = "rejected" =>
    human[j] \cap {"rejected", "cancelled"} # {}

(* Jobs that were approved through the API: the publish stage sees the     *)
(* flag the handler set, if the store shares its objects with the runner.  *)
PublishSeesApiApproval ==
  \A r \in Requests :
    /\ req[r].kind = "approve"
    /\ req[r].answer = "resolved"
    => View(req[r].job).note # "blocked"

(***************************************************************************)
(* Liveness                                                                *)
(***************************************************************************)

(* Every job that was submitted comes to the end of runJob, whoever clicks *)
(* or calls what: the gate is no exception because its timer settles it.   *)
RunnersReturn == \A j \in Jobs : pc[j] = "enqueue" ~> pc[j] = "done"

(* ... and when no HTTP handler interferes, the store shows how it ended,  *)
(* for good.                                                               *)
Handled(j) == \E r \in Requests : req[r].job = j /\ req[r].pc # "idle"

JobsSettle ==
  \A j \in Jobs : pc[j] = "enqueue" ~> ([](View(j).status \in Terminal) \/ Handled(j))

(* waitForApproval: the timeout is there "so the workflow doesn't hang     *)
(* forever".                                                               *)
GateNeverHangs == \A j \in Jobs : pc[j] = "wait" ~> pc[j] # "wait"

(***************************************************************************)
(* Refinement.  A job passed the gate when its row shows the gate stage    *)
(* completed and a status it can only have afterwards.                     *)
(***************************************************************************)

Lifecycle ==
  INSTANCE JobLifecycle WITH
    HasGate <- Gate > 0,
    status  <- [j \in Jobs |-> View(j).status],
    passed  <- [j \in Jobs |-> /\ Gate > 0
                               /\ View(j).recs[Gate] = "completed"
                               /\ View(j).status \in {"running", "completed", "failed"}]

(* The stored status of every job moves as JobLifecycle allows.            *)
ImplementsLifecycle == Lifecycle!Spec

=============================================================================
