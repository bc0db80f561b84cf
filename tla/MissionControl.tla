--------------------------- MODULE MissionControl ---------------------------
(***************************************************************************)
(* MCWorker and MCClient (src/core/mc-worker.ts, src/core/mc-client.ts):   *)
(* the worker polls Mission Control's queue, runs the workflow of a task   *)
(* it is given, waits at the approval gate for a webhook and closes the    *)
(* task. The daemon no longer starts it; the ClickUp tools still file      *)
(* tasks through the client, and the approval store inherited its gate.    *)
(* Every request of the client may fail, which it logs and hides.          *)
(***************************************************************************)
EXTENDS Naturals, Sequences, FiniteSets

CONSTANTS
    McTasks,        \* tasks filed for an agent with a registered workflow
    McStages,       \* the stages of that workflow, a sequence
    McMaxAttempts   \* maxStageRetries + 1

ASSUME McAssumption == McStages \in Seq(STRING) /\ McMaxAttempts \in Nat \ {0}

VARIABLES
    task,        \* Mission Control's tasks: [status, resolved]
    polled,      \* answers of the queue on their way: [task, resolved, during],
                 \* during (a history): given while this process ran the task
    runningTaskIds,
    exec,        \* what executeTask does with each task
    approvalCallbacks,
    posting,     \* tasks whose final update is on its way (it is not awaited)
    webhooks,    \* webhook calls on their way: [task, approved]
    approvedBy,  \* history: tasks a human has approved
    ungated,     \* history: tasks a stage behind the gate ran for unapproved
    completed,   \* history: tasks whose stages all ran
    reran,       \* history: tasks a stage ran for after that
    unclosed,    \* history: completed tasks that were not closed, as the update
                 \* was lost or the process died
    unresolved,  \* history: completed tasks whose resolution was lost, or still
                 \* on its way when the queue was asked
    crossed      \* history: tasks run for an answer that was given while they ran

mcLapses == <<unclosed, unresolved, crossed>>
mcVars == <<task, polled, runningTaskIds, exec, approvalCallbacks, posting, webhooks,
            approvedBy, ungated, completed, reran, mcLapses>>

McRest == [pc |-> "rest", at |-> 1, attempt |-> 1, knew |-> FALSE]

McTypeOK ==
    /\ \A t \in McTasks :
         /\ task[t].status \in {"unfiled", "in_progress", "review", "failed", "done"}
         /\ exec[t].pc \in {"rest", "begin", "run", "gate", "asked", "wait", "refused", "finish", "review", "close"}
         /\ exec[t].at \in 1 .. Len(McStages) + 1 /\ exec[t].attempt \in 1 .. McMaxAttempts
    /\ approvalCallbacks \subseteq runningTaskIds
    /\ \A t \in runningTaskIds : exec[t].pc # "rest"

McInit ==
    /\ task = [t \in McTasks |-> [status |-> "unfiled", resolved |-> FALSE]]
    /\ polled = {} /\ webhooks = {} /\ posting = {}
    /\ runningTaskIds = {} /\ approvalCallbacks = {}
    /\ exec = [t \in McTasks |-> McRest]
    /\ approvedBy = {} /\ ungated = {} /\ completed = {} /\ reran = {}
    /\ unclosed = {} /\ unresolved = {} /\ crossed = {}

\* createTask files the task as in_progress, which the queue hands out first.
CreateTask(t) ==
    /\ task[t].status = "unfiled"
    /\ task' = [task EXCEPT ![t].status = "in_progress"]
    /\ UNCHANGED <<polled, runningTaskIds, exec, approvalCallbacks, posting, webhooks, approvedBy, ungated, completed, reran, mcLapses>>

\* PUT /api/tasks/:id, which may get lost.
UpdateTask(t, status) == task' = task \/ task' = [task EXCEPT ![t].status = status]

-----------------------------------------------------------------------------
\* pollQueue: Mission Control answers; the worker reads the answer later.
McAnswersPoll(t) ==
    /\ task[t].status = "in_progress"
    /\ polled = {}
    /\ polled' = {[task |-> t, resolved |-> task[t].resolved, during |-> t \in runningTaskIds]}
    /\ unresolved' = IF t \in posting /\ ~task[t].resolved THEN unresolved \cup {t} ELSE unresolved
    /\ UNCHANGED <<task, runningTaskIds, exec, approvalCallbacks, posting, webhooks>>
    /\ UNCHANGED <<approvedBy, ungated, completed, reran, unclosed, crossed>>

\* checkAllQueues: the answer arrives, after any wait, and the task is run
\* unless this process runs it already.
CheckQueue(a) ==
    /\ polled' = polled \ {a}
    /\ IF a.task \in runningTaskIds
       THEN UNCHANGED <<runningTaskIds, exec, crossed>>
       ELSE /\ crossed' = IF a.during /\ ~a.resolved THEN crossed \cup {a.task} ELSE crossed
            /\ runningTaskIds' = runningTaskIds \cup {a.task}
            /\ exec' = [exec EXCEPT ![a.task] = [McRest EXCEPT !.pc = "begin", !.knew = a.resolved]]
    /\ UNCHANGED <<task, approvalCallbacks, posting, webhooks>>
    /\ UNCHANGED <<approvedBy, ungated, completed, reran, unclosed, unresolved>>

\* Seeded fault: the guard against running a finished task again is missing.
NeverClosed(e) == FALSE

AlreadyCompleted(e) == e.knew

Step(t, pc) == exec' = [exec EXCEPT ![t].pc = pc]
Return(t) ==
    /\ exec' = [exec EXCEPT ![t] = McRest]
    /\ runningTaskIds' = runningTaskIds \ {t}

\* The head of _executeTaskInner.
BeginTask(t) ==
    /\ exec[t].pc = "begin"
    /\ IF AlreadyCompleted(exec[t])
       THEN UpdateTask(t, "done") /\ Return(t)
       ELSE /\ UpdateTask(t, "in_progress")
            /\ Step(t, "run") /\ UNCHANGED runningTaskIds
    /\ UNCHANGED <<polled, approvalCallbacks, posting, webhooks, approvedBy, ungated, completed, reran, mcLapses>>

GateBefore(n) == \E k \in 1 .. (n - 1) : McStages[k] = "approval_notify"

\* One attempt of runStageWithRetry, and what the loop does with it. The
\* notification stage leads to the gate whether it succeeded or not.
RunStage(t, ok) ==
    LET n == exec[t].at  stage == McStages[n] IN
    /\ exec[t].pc = "run" /\ n <= Len(McStages)
    /\ reran' = IF t \in completed THEN reran \cup {t} ELSE reran
    /\ ungated' = IF GateBefore(n) /\ t \notin approvedBy THEN ungated \cup {t} ELSE ungated
    /\ IF ~ok /\ exec[t].attempt < McMaxAttempts
       THEN exec' = [exec EXCEPT ![t].attempt = @ + 1] /\ UNCHANGED <<task, runningTaskIds>>
       ELSE IF stage = "approval_notify"
       THEN exec' = [exec EXCEPT ![t].pc = "gate", ![t].attempt = 1] /\ UNCHANGED <<task, runningTaskIds>>
       ELSE IF ok
       THEN /\ exec' = [exec EXCEPT ![t].at = n + 1, ![t].attempt = 1]
            /\ UNCHANGED <<task, runningTaskIds>>
       ELSE UpdateTask(t, "failed") /\ Return(t)
    /\ UNCHANGED <<polled, approvalCallbacks, posting, webhooks, approvedBy, completed, mcLapses>>

-----------------------------------------------------------------------------
(* The gate.                                                               *)

\* The task goes to review; a decision may come back before the update's
\* own reply does.
ReachGate(t) ==
    /\ exec[t].pc = "gate"
    /\ UpdateTask(t, "review")
    /\ Step(t, "asked")
    /\ UNCHANGED <<polled, runningTaskIds, approvalCallbacks, posting, webhooks, approvedBy, ungated, completed, reran, mcLapses>>

\* waitForApproval registers the callback and starts its timer.
WaitForApproval(t) ==
    /\ exec[t].pc = "asked"
    /\ Step(t, "wait")
    /\ approvalCallbacks' = approvalCallbacks \cup {t}
    /\ UNCHANGED <<task, polled, runningTaskIds, posting, webhooks, approvedBy, ungated, completed, reran, mcLapses>>

\* Somebody decides on the task board; Mission Control calls the webhook.
HumanDecides(t, approved) ==
    /\ task[t].status = "review"
    /\ task' = [task EXCEPT ![t].status = IF approved THEN "done" ELSE "failed"]
    /\ webhooks' = webhooks \cup {[task |-> t, approved |-> approved]}
    /\ approvedBy' = IF approved THEN approvedBy \cup {t} ELSE approvedBy
    /\ UNCHANGED <<polled, runningTaskIds, exec, approvalCallbacks, posting, ungated, completed, reran, mcLapses>>

\* What the wait is resolved with decides how the task goes on.
Resolve(t, approved) ==
    /\ approvalCallbacks' = approvalCallbacks \ {t}
    /\ exec' = IF approved THEN [exec EXCEPT ![t].pc = "run", ![t].at = @ + 1]
               ELSE [exec EXCEPT ![t].pc = "refused"]

\* notifyApproval; a call nobody waits for is dropped. An approval moves the
\* task back to in_progress before the next stage.
NotifyApproval(w) ==
    /\ webhooks' = webhooks \ {w}
    /\ IF w.task \in approvalCallbacks
       THEN /\ Resolve(w.task, w.approved)
            /\ IF w.approved THEN UpdateTask(w.task, "in_progress") ELSE UNCHANGED task
       ELSE UNCHANGED <<task, exec, approvalCallbacks>>
    /\ UNCHANGED <<polled, runningTaskIds, posting, approvedBy, ungated, completed, reran, mcLapses>>

\* Seeded fault: silence counts as consent.
SilenceApproves(t) == TRUE

\* What the timer and stop() resolve the wait with.
SilenceMeans(t) == FALSE

ApprovalTimesOut(t) ==
    /\ t \in approvalCallbacks
    /\ Resolve(t, SilenceMeans(t))
    /\ UNCHANGED <<task, polled, runningTaskIds, posting, webhooks, approvedBy, ungated, completed, reran, mcLapses>>

NotApproved(t) ==
    /\ exec[t].pc = "refused"
    /\ UpdateTask(t, "failed")
    /\ Return(t)
    /\ UNCHANGED <<polled, approvalCallbacks, posting, webhooks, approvedBy, ungated, completed, reran, mcLapses>>

-----------------------------------------------------------------------------
(* The end: the resolution is posted without waiting for it, the review is *)
(* submitted, and when that fails the status is set directly.              *)

AllStagesDone(t) ==
    /\ exec[t].pc = "run" /\ exec[t].at > Len(McStages)
    /\ Step(t, "review")
    /\ posting' = posting \cup {t}
    /\ completed' = completed \cup {t}
    /\ UNCHANGED <<task, polled, runningTaskIds, approvalCallbacks, webhooks, approvedBy, ungated, reran, mcLapses>>

ResolutionArrives(t) ==
    /\ t \in posting
    /\ posting' = posting \ {t}
    /\ \/ task' = [task EXCEPT ![t].resolved = TRUE] /\ UNCHANGED unresolved
       \/ unresolved' = unresolved \cup {t} /\ UNCHANGED task
    /\ UNCHANGED <<polled, runningTaskIds, exec, approvalCallbacks, webhooks>>
    /\ UNCHANGED <<approvedBy, ungated, completed, reran, unclosed, crossed>>

\* The answer to the review may be lost though it was taken.
SubmitAegisApproval(t) ==
    /\ exec[t].pc = "review"
    /\ \/ task' = [task EXCEPT ![t].status = "done"] /\ Return(t)
       \/ UpdateTask(t, "done") /\ Step(t, "close") /\ UNCHANGED runningTaskIds
    /\ UNCHANGED <<polled, approvalCallbacks, posting, webhooks, approvedBy, ungated, completed, reran, mcLapses>>

SetDone(t) ==
    /\ exec[t].pc = "close"
    /\ UpdateTask(t, "done")
    /\ unclosed' = IF task'[t].status = "done" THEN unclosed ELSE unclosed \cup {t}
    /\ Return(t)
    /\ UNCHANGED <<polled, approvalCallbacks, posting, webhooks>>
    /\ UNCHANGED <<approvedBy, ungated, completed, reran, unresolved, crossed>>

\* The process dies; requests it has sent may still arrive.
McWorkerDies ==
    /\ runningTaskIds # {}
    /\ runningTaskIds' = {} /\ approvalCallbacks' = {}
    /\ exec' = [t \in McTasks |-> McRest]
    /\ polled' = {}
    /\ unclosed' = unclosed \cup {t \in McTasks : exec[t].pc \in {"review", "close"} /\ task[t].status # "done"}
    /\ UNCHANGED <<task, posting, webhooks, approvedBy, ungated, completed, reran, unresolved, crossed>>

McNext ==
    \/ \E t \in McTasks :
         \/ CreateTask(t) \/ McAnswersPoll(t) \/ BeginTask(t)
         \/ \E ok \in BOOLEAN : RunStage(t, ok)
         \/ ReachGate(t) \/ WaitForApproval(t) \/ ApprovalTimesOut(t) \/ NotApproved(t)
         \/ \E approved \in BOOLEAN : HumanDecides(t, approved)
         \/ AllStagesDone(t) \/ ResolutionArrives(t) \/ SubmitAegisApproval(t) \/ SetDone(t)
    \/ \E a \in polled : CheckQueue(a)
    \/ \E w \in webhooks : NotifyApproval(w)
    \/ McWorkerDies

McSpec == McInit /\ [][McNext]_mcVars

(* No stage behind approval_notify runs for a task no human approved: not  *)
(* after a timeout, a stop, a restart or a lost update. A task that is run *)
(* a second time may pass on the first run's webhook, so the approval need *)
(* not be of this wait.                                                    *)
McNothingUngated == ungated = {}

(* The guard against duplicate Slack posts: no stage runs again for a task *)
(* that completed because the worker died, a request got lost or an answer *)
(* came late. It takes two of these: the task was not closed, and the      *)
(* queue did not know its resolution. Or the answer that brought it back   *)
(* was given while the process still ran it, and read after.               *)
McRerunsAreOwed == reran \subseteq crossed \cup (unclosed \cap unresolved)
=============================================================================
