--------------------------- MODULE Assistant_proofs ---------------------------
(***************************************************************************)
(* Proofs of the safety properties of Assistant's three parts, for every   *)
(* workflow, every set of tool callers and every set of Slack messages.    *)
(* The parts share nothing, so each has an inductive invariant of its own: *)
(* McInv for Mission Control's worker, ToolInv for the tools of the bot,   *)
(* SlackInv for its conversations; a step of another part leaves it alone. *)
(***************************************************************************)
EXTENDS Assistant, FiniteSetTheorems, TLAPS

\* Of the three parts, a step of the daemon moves at most one.
LEMMA StepsApart ==
    [AssistantNext]_assistantVars =>
        [McNext]_mcVars /\ [ToolsNext]_toolVars /\ [SlackNext]_slackVars
BY DEF AssistantNext, assistantVars

-----------------------------------------------------------------------------
(* Mission Control. Whoever is behind the gate has been approved, an       *)
(* approval on its way is one somebody gave, and only a task at its wait   *)
(* has a callback; a task known to be resolved is not past its beginning.  *)

McStatuses == {"unfiled", "in_progress", "review", "failed", "done"}
McStates == {"rest", "begin", "run", "gate", "asked", "wait", "refused", "finish", "review", "close"}
McWork == [pc : McStates, at : Nat, attempt : Nat, knew : BOOLEAN]

McShape ==
    /\ task \in [McTasks -> [status : McStatuses, resolved : BOOLEAN]]
    /\ exec \in [McTasks -> McWork]
    /\ polled \subseteq [task : McTasks, resolved : BOOLEAN, during : BOOLEAN]
    /\ webhooks \subseteq [task : McTasks, approved : BOOLEAN]
    /\ approvalCallbacks \subseteq McTasks

ApprovalsAreGiven == \A w \in webhooks : w.approved = TRUE => w.task \in approvedBy
BehindIsApproved == \A t \in McTasks : GateBefore(exec[t].at) => t \in approvedBy
KnownIsNotBegun == \A t \in McTasks : exec[t].knew = TRUE => exec[t].pc = "begin"
WaitsAreRun ==
    /\ \A t \in approvalCallbacks : exec[t].pc = "wait"
    /\ \A t \in McTasks : exec[t].pc # "rest" => t \in runningTaskIds

McInv ==
    /\ McShape /\ ApprovalsAreGiven /\ BehindIsApproved /\ KnownIsNotBegun /\ WaitsAreRun
    /\ McNothingUngated

\* The stages behind the first are behind the gate when they already were or
\* the stage passed is the gate.
LEMMA GateBeforeNext ==
    ASSUME NEW n \in Nat
    PROVE  /\ GateBefore(n + 1) => GateBefore(n) \/ McStages[n] = "approval_notify"
           /\ ~GateBefore(1)
BY DEF GateBefore

LEMMA McStarts == McInit => McInv
<1>1. McRest \in McWork /\ McRest.pc = "rest" /\ McRest.at = 1 /\ McRest.knew = FALSE
  BY DEF McRest, McWork, McStates
<1>2. ASSUME McInit PROVE McInv
  <2>1. McShape
    BY <1>1, <1>2 DEF McInit, McShape, McStatuses
  <2>2. \A t \in McTasks : exec[t] = McRest
    BY <1>2 DEF McInit
  <2> QED
    BY <1>1, <1>2, <2>1, <2>2, GateBeforeNext
       DEF McInit, McInv, ApprovalsAreGiven, BehindIsApproved, KnownIsNotBegun, WaitsAreRun,
           McNothingUngated
<1> QED BY <1>2

\* Work that goes on keeps its type.
LEMMA McWorkGoesOn ==
    ASSUME NEW e \in McWork, NEW n \in Nat, NEW pc \in McStates
    PROVE  LET next == [[e EXCEPT !.at = n] EXCEPT !.attempt = 1]
               goOn == [[e EXCEPT !.pc = pc] EXCEPT !.at = n]
           IN  /\ next \in McWork /\ next.at = n /\ next.knew = e.knew /\ next.pc = e.pc
               /\ goOn \in McWork /\ goOn.at = n /\ goOn.knew = e.knew /\ goOn.pc = pc
BY DEF McWork

\* A step that gives one task the work e keeps the claims about tasks at
\* work, when e keeps them.
LEMMA McWorkMoves ==
    ASSUME McInv, NEW t \in McTasks, NEW e \in McWork,
           exec' = [exec EXCEPT ![t] = e],
           approvedBy \subseteq approvedBy',
           GateBefore(e.at) => t \in approvedBy',
           e.knew = TRUE => e.pc = "begin",
           t \notin approvalCallbacks',
           approvalCallbacks' \subseteq approvalCallbacks,
           e.pc # "rest" => t \in runningTaskIds',
           runningTaskIds \ {t} \subseteq runningTaskIds'
    PROVE  exec' \in [McTasks -> McWork] /\ BehindIsApproved' /\ KnownIsNotBegun' /\ WaitsAreRun'
<1>1. exec' \in [McTasks -> McWork] /\ exec'[t] = e /\ \A s \in McTasks \ {t} : exec'[s] = exec[s]
  BY DEF McInv, McShape
<1>2. BehindIsApproved'
  <2> SUFFICES ASSUME NEW s \in McTasks, GateBefore(exec'[s].at) PROVE s \in approvedBy'
    BY DEF BehindIsApproved, GateBefore
  <2> QED BY <1>1 DEF McInv, BehindIsApproved, GateBefore
<1>3. KnownIsNotBegun'
  BY <1>1 DEF McInv, KnownIsNotBegun
<1>4. WaitsAreRun'
  BY <1>1 DEF McInv, McShape, WaitsAreRun
<1> QED BY <1>1, <1>2, <1>3, <1>4

LEMMA McSteps == McInv /\ [McNext]_mcVars => McInv'
<1> SUFFICES ASSUME McInv, [McNext]_mcVars PROVE McInv'
  OBVIOUS
<1> USE DEF McInv, McNothingUngated
<1>0. CASE UNCHANGED mcVars
  BY <1>0 DEF mcVars, McShape, ApprovalsAreGiven, BehindIsApproved, KnownIsNotBegun, WaitsAreRun, GateBefore
<1>1. ASSUME NEW t \in McTasks, CreateTask(t) PROVE McInv'
  <2>1. McShape'
    BY <1>1 DEF CreateTask, McShape, McStatuses
  <2> QED
    BY <1>1, <2>1 DEF CreateTask, ApprovalsAreGiven, BehindIsApproved, KnownIsNotBegun, WaitsAreRun, GateBefore
<1>2. ASSUME NEW t \in McTasks, McAnswersPoll(t) PROVE McInv'
  <2>1. McShape'
    BY <1>2 DEF McAnswersPoll, McShape
  <2> QED
    BY <1>2, <2>1 DEF McAnswersPoll, ApprovalsAreGiven, BehindIsApproved, KnownIsNotBegun, WaitsAreRun, GateBefore
<1>3. ASSUME NEW t \in McTasks, HumanDecides(t, TRUE) \/ HumanDecides(t, FALSE) PROVE McInv'
  <2>1. McShape'
    <3>1. PICK approved \in BOOLEAN : HumanDecides(t, approved)
      BY <1>3
    <3>2. PICK s \in McStatuses : task' = [task EXCEPT ![t].status = s]
      BY <3>1 DEF HumanDecides, McStatuses
    <3>3. task' \in [McTasks -> [status : McStatuses, resolved : BOOLEAN]]
      BY <3>2 DEF McShape
    <3> QED BY <3>1, <3>3 DEF HumanDecides, McShape
  <2> QED
    BY <1>3, <2>1 DEF HumanDecides, ApprovalsAreGiven, BehindIsApproved, KnownIsNotBegun, WaitsAreRun, GateBefore
<1>4. ASSUME NEW t \in McTasks, ResolutionArrives(t) PROVE McInv'
  <2>1. McShape'
    BY <1>4 DEF ResolutionArrives, McShape
  <2> QED
    BY <1>4, <2>1 DEF ResolutionArrives, ApprovalsAreGiven, BehindIsApproved, KnownIsNotBegun, WaitsAreRun, GateBefore
<1>5. ASSUME McWorkerDies PROVE McInv'
  <2>1. McRest \in McWork /\ McRest.pc = "rest" /\ McRest.at = 1 /\ McRest.knew = FALSE
    BY DEF McRest, McWork, McStates
  <2>2. McShape' /\ \A t \in McTasks : exec'[t] = McRest
    BY <1>5, <2>1 DEF McWorkerDies, McShape
  <2>3. BehindIsApproved'
    <3> SUFFICES ASSUME NEW s \in McTasks PROVE ~GateBefore(exec'[s].at)
      BY DEF BehindIsApproved, GateBefore
    <3> QED BY <2>1, <2>2, GateBeforeNext
  <2> QED
    BY <1>5, <2>1, <2>2, <2>3 DEF McWorkerDies, ApprovalsAreGiven, KnownIsNotBegun, WaitsAreRun
\* The steps that give one task new work e: the rest of the state keeps its
\* shape, so what is left to say is e.
<1> DEFINE Moves(t, e) ==
      /\ e \in McWork /\ exec' = [exec EXCEPT ![t] = e]
      /\ GateBefore(e.at) => t \in approvedBy
      /\ e.knew = TRUE => e.pc = "begin"
      /\ t \notin approvalCallbacks' /\ approvalCallbacks' \subseteq approvalCallbacks
      /\ runningTaskIds \ {t} \subseteq runningTaskIds' /\ (e.pc # "rest" => t \in runningTaskIds')
      /\ task' \in [McTasks -> [status : McStatuses, resolved : BOOLEAN]]
      /\ polled' \subseteq polled /\ webhooks' \subseteq webhooks
      /\ approvedBy' = approvedBy /\ ungated' = {}
<1>6. ASSUME NEW t \in McTasks, NEW e, Moves(t, e) PROVE McInv'
  <2>1. exec' \in [McTasks -> McWork] /\ BehindIsApproved' /\ KnownIsNotBegun' /\ WaitsAreRun'
    BY <1>6, McWorkMoves
  <2> QED
    BY <1>6, <2>1 DEF McShape, ApprovalsAreGiven
<1> HIDE DEF Moves
<1>7. \A t \in McTasks : exec[t] \in McWork /\ task[t] \in [status : McStatuses, resolved : BOOLEAN]
  BY DEF McShape
<1>8. ASSUME NEW t \in McTasks, NEW s \in McStatuses, UpdateTask(t, s)
      PROVE  task' \in [McTasks -> [status : McStatuses, resolved : BOOLEAN]]
  BY <1>8 DEF UpdateTask, McShape
<1>9. McRest \in McWork /\ McRest.pc = "rest" /\ McRest.at = 1 /\ McRest.knew = FALSE /\ ~GateBefore(McRest.at)
  BY GateBeforeNext DEF McRest, McWork, McStates
<1>10. ASSUME NEW t \in McTasks, BeginTask(t) PROVE McInv'
  <2>0. exec[t].pc = "begin" /\ t \notin approvalCallbacks /\ t \in runningTaskIds
    BY <1>10 DEF BeginTask, WaitsAreRun
  <2>1. CASE AlreadyCompleted(exec[t])
    <3>1. task' \in [McTasks -> [status : McStatuses, resolved : BOOLEAN]]
      BY <1>10, <2>1, <1>8 DEF BeginTask, UpdateTask, McStatuses
    <3>2. Moves(t, McRest)
      BY <1>10, <2>0, <2>1, <3>1, <1>9 DEF BeginTask, Return, Moves
    <3> QED BY <3>2, <1>6
  <2>2. CASE ~AlreadyCompleted(exec[t])
    <3> DEFINE e == [exec[t] EXCEPT !.pc = "run"]
    <3>1. task' \in [McTasks -> [status : McStatuses, resolved : BOOLEAN]]
      BY <1>10, <2>2, <1>8 DEF BeginTask, McStatuses
    <3>2. exec' = [exec EXCEPT ![t] = e]
      BY <1>10, <2>2 DEF BeginTask, Step
    <3>3. e \in McWork /\ e.at = exec[t].at /\ e.knew = FALSE
      BY <1>7, <2>2 DEF McWork, McStates, AlreadyCompleted
    <3>4. Moves(t, e)
      BY <1>10, <2>0, <2>2, <3>1, <3>2, <3>3 DEF BeginTask, Moves, BehindIsApproved
    <3> QED BY <3>4, <1>6
  <2> QED BY <2>1, <2>2
<1>12. ASSUME NEW t \in McTasks, NEW ok \in BOOLEAN, RunStage(t, ok) PROVE McInv'
  <2> DEFINE n == exec[t].at  again == [exec[t] EXCEPT !.attempt = @ + 1]
             gate == [[exec[t] EXCEPT !.pc = "gate"] EXCEPT !.attempt = 1]
             next == [[exec[t] EXCEPT !.at = n + 1] EXCEPT !.attempt = 1]
  <2>1. /\ exec[t].pc = "run" /\ exec[t].knew = FALSE /\ t \notin approvalCallbacks
        /\ n \in Nat /\ exec[t].attempt \in Nat
    BY <1>12, <1>7 DEF RunStage, KnownIsNotBegun, WaitsAreRun, McWork
  <2>2. ungated' = {}
    BY <1>12, <2>1 DEF RunStage, BehindIsApproved
  <2>3. /\ again \in McWork /\ again.at = n /\ again.knew = FALSE
        /\ gate \in McWork /\ gate.at = n /\ gate.knew = FALSE
        /\ next \in McWork /\ next.at = n + 1 /\ next.knew = FALSE
        /\ t \in runningTaskIds
    <3>1. exec[t] \in [pc : McStates, at : Nat, attempt : Nat, knew : BOOLEAN] /\ "gate" \in McStates
      BY <1>7 DEF McWork, McStates
    <3>2. again \in McWork /\ again.at = n /\ again.knew = FALSE
      BY <2>1, <3>1 DEF McWork
    <3>3. gate \in McWork /\ gate.at = n /\ gate.knew = FALSE
      BY <2>1, <3>1 DEF McWork
    <3>4. next \in McWork /\ next.at = n + 1 /\ next.knew = FALSE
      <4>1. n + 1 \in Nat
        BY <2>1
      <4> QED BY <1>7, <2>1, <3>1, <4>1, McWorkGoesOn
    <3>5. t \in runningTaskIds
      BY <2>1 DEF WaitsAreRun
    <3> QED BY <3>2, <3>3, <3>4, <3>5
  <2>4. GateBefore(n) => t \in approvedBy
    BY DEF BehindIsApproved
  <2>5. CASE exec' = [exec EXCEPT ![t] = again] /\ UNCHANGED <<task, runningTaskIds>>
    <3>1. Moves(t, again)
      BY <1>12, <2>1, <2>2, <2>3, <2>4, <2>5 DEF RunStage, Moves, McShape
    <3> QED BY <3>1, <1>6
  <2>6. CASE exec' = [exec EXCEPT ![t] = gate] /\ UNCHANGED <<task, runningTaskIds>>
    <3>1. Moves(t, gate)
      BY <1>12, <2>1, <2>2, <2>3, <2>4, <2>6 DEF RunStage, Moves, McShape
    <3> QED BY <3>1, <1>6
  <2>7. CASE /\ exec' = [exec EXCEPT ![t] = next] /\ UNCHANGED <<task, runningTaskIds>>
             /\ McStages[n] # "approval_notify"
    <3>1. GateBefore(n + 1) => t \in approvedBy
      BY <2>1, <2>4, <2>7, GateBeforeNext
    <3>2. Moves(t, next)
      BY <1>12, <2>1, <2>2, <2>3, <3>1, <2>7 DEF RunStage, Moves, McShape
    <3> QED BY <3>2, <1>6
  <2>8. CASE UpdateTask(t, "failed") /\ Return(t)
    <3>1. task' \in [McTasks -> [status : McStatuses, resolved : BOOLEAN]]
      BY <2>8, <1>8 DEF McStatuses
    <3>2. Moves(t, McRest)
      BY <1>12, <2>1, <2>2, <2>8, <3>1, <1>9 DEF RunStage, Return, Moves
    <3> QED BY <3>2, <1>6
  <2> QED
    BY <1>12, <2>1, <2>5, <2>6, <2>7, <2>8 DEF RunStage
<1>13. ASSUME NEW t \in McTasks, NEW s \in McStates, t \notin approvalCallbacks, exec[t].knew = FALSE, t \in runningTaskIds,
              Step(t, s), approvalCallbacks' = approvalCallbacks, runningTaskIds' = runningTaskIds,
              task' \in [McTasks -> [status : McStatuses, resolved : BOOLEAN]],
              UNCHANGED <<polled, webhooks, approvedBy, ungated>>
       PROVE  McInv'
  <2> DEFINE e == [exec[t] EXCEPT !.pc = s]
  <2>1. e \in McWork /\ e.at = exec[t].at /\ e.knew = FALSE
    BY <1>7, <1>13 DEF McWork
  <2>2. exec' = [exec EXCEPT ![t] = e]
    BY <1>13 DEF Step
  <2>3. Moves(t, e)
    BY <1>13, <2>1, <2>2 DEF Moves, BehindIsApproved
  <2> QED BY <2>3, <1>6
<1>14. ASSUME NEW t \in McTasks, t \notin approvalCallbacks, Return(t),
              approvalCallbacks' = approvalCallbacks,
              task' \in [McTasks -> [status : McStatuses, resolved : BOOLEAN]],
              UNCHANGED <<polled, webhooks, approvedBy, ungated>>
       PROVE  McInv'
  <2>1. Moves(t, McRest)
    BY <1>14, <1>9 DEF Return, Moves
  <2> QED BY <2>1, <1>6
<1>15. ASSUME NEW t \in McTasks, ReachGate(t) PROVE McInv'
  <2>1. task' \in [McTasks -> [status : McStatuses, resolved : BOOLEAN]]
    BY <1>15, <1>8 DEF ReachGate, McStatuses
  <2>2. t \notin approvalCallbacks /\ exec[t].knew = FALSE /\ t \in runningTaskIds
    BY <1>15, <1>7 DEF ReachGate, KnownIsNotBegun, WaitsAreRun, McWork
  <2>3. "asked" \in McStates
    BY DEF McStates
  <2> QED BY <1>15, <2>1, <2>2, <2>3, <1>13 DEF ReachGate
<1>16. ASSUME NEW t \in McTasks, AllStagesDone(t) PROVE McInv'
  <2>1. t \notin approvalCallbacks /\ exec[t].knew = FALSE /\ t \in runningTaskIds
    BY <1>16, <1>7 DEF AllStagesDone, KnownIsNotBegun, WaitsAreRun, McWork
  <2>2. "review" \in McStates
    BY DEF McStates
  <2> QED BY <1>16, <2>1, <2>2, <1>13 DEF AllStagesDone, McShape
<1>17. ASSUME NEW t \in McTasks, SubmitAegisApproval(t) PROVE McInv'
  <2>1. t \notin approvalCallbacks /\ exec[t].knew = FALSE /\ t \in runningTaskIds
    BY <1>17, <1>7 DEF SubmitAegisApproval, KnownIsNotBegun, WaitsAreRun, McWork
  <2>2. "close" \in McStates
    BY DEF McStates
  <2>3. task' \in [McTasks -> [status : McStatuses, resolved : BOOLEAN]]
    BY <1>17, <1>8 DEF SubmitAegisApproval, UpdateTask, McStatuses
  <2> QED BY <1>17, <2>1, <2>2, <2>3, <1>13, <1>14 DEF SubmitAegisApproval
<1>18. ASSUME NEW t \in McTasks, SetDone(t) \/ NotApproved(t) PROVE McInv'
  <2>1. t \notin approvalCallbacks
    BY <1>18 DEF SetDone, NotApproved, WaitsAreRun
  <2>2. task' \in [McTasks -> [status : McStatuses, resolved : BOOLEAN]]
    BY <1>18, <1>8 DEF SetDone, NotApproved, McStatuses
  <2> QED BY <1>18, <2>1, <2>2, <1>14 DEF SetDone, NotApproved
<1>19. ASSUME NEW t \in approvalCallbacks, NEW approved \in BOOLEAN, Resolve(t, approved),
              approved = TRUE => t \in approvedBy, runningTaskIds' = runningTaskIds,
              task' \in [McTasks -> [status : McStatuses, resolved : BOOLEAN]],
              polled' \subseteq polled, webhooks' \subseteq webhooks,
              UNCHANGED <<approvedBy, ungated>>
       PROVE  McInv'
  <2> DEFINE goOn == [[exec[t] EXCEPT !.pc = "run"] EXCEPT !.at = @ + 1]
             refuse == [exec[t] EXCEPT !.pc = "refused"]
             e == IF approved THEN goOn ELSE refuse
  <2>1. t \in McTasks /\ exec[t].pc = "wait" /\ exec[t].knew = FALSE /\ t \in runningTaskIds
    BY <1>7 DEF McShape, WaitsAreRun, KnownIsNotBegun, McWork
  <2>2. e \in McWork /\ e.knew = FALSE /\ (approved = FALSE => e.at = exec[t].at)
    <3>1. exec[t] \in [pc : McStates, at : Nat, attempt : Nat, knew : BOOLEAN]
          /\ "run" \in McStates /\ "refused" \in McStates
      BY <1>7, <2>1 DEF McWork, McStates
    <3>2. goOn \in McWork /\ goOn.knew = FALSE
      <4>1. exec[t].at + 1 \in Nat
        BY <3>1
      <4> QED BY <1>7, <2>1, <3>1, <4>1, McWorkGoesOn
    <3>3. refuse \in McWork /\ refuse.knew = FALSE /\ refuse.at = exec[t].at
      BY <2>1, <3>1 DEF McWork
    <3> QED BY <3>2, <3>3
  <2>3. exec' = [exec EXCEPT ![t] = e]
    BY <1>19, <2>1 DEF Resolve
  <2>4. GateBefore(e.at) => t \in approvedBy
    BY <1>19, <2>1, <2>2 DEF BehindIsApproved
  <2>5. approvalCallbacks' = approvalCallbacks \ {t}
    BY <1>19 DEF Resolve
  <2>6. Moves(t, e)
    <3> HIDE DEF e
    <3> QED BY <1>19, <2>1, <2>2, <2>3, <2>4, <2>5 DEF Moves
  <2> QED BY <2>1, <2>6, <1>6
<1>20. ASSUME NEW w \in webhooks, NotifyApproval(w) PROVE McInv'
  <2>1. w.task \in McTasks /\ w.approved \in BOOLEAN
    BY DEF McShape
  <2>2. CASE w.task \in approvalCallbacks
    <3>1. task' \in [McTasks -> [status : McStatuses, resolved : BOOLEAN]]
      BY <1>20, <2>1, <2>2, <1>8 DEF NotifyApproval, McStatuses, McShape
    <3>2. w.approved = TRUE => w.task \in approvedBy
      BY DEF ApprovalsAreGiven
    <3> QED BY <1>20, <2>1, <2>2, <3>1, <3>2, <1>19 DEF NotifyApproval
  <2>3. CASE w.task \notin approvalCallbacks
    <3>1. UNCHANGED <<task, exec, approvalCallbacks, polled, runningTaskIds, approvedBy, ungated>>
          /\ webhooks' \subseteq webhooks
      BY <1>20, <2>3 DEF NotifyApproval
    <3> QED
      BY <3>1 DEF McShape, ApprovalsAreGiven, BehindIsApproved, KnownIsNotBegun, WaitsAreRun, GateBefore
  <2> QED BY <2>2, <2>3
<1>21. ASSUME NEW t \in McTasks, ApprovalTimesOut(t) PROVE McInv'
  BY <1>21, <1>19 DEF ApprovalTimesOut, SilenceMeans, McShape
<1>22. ASSUME NEW t \in McTasks, WaitForApproval(t) PROVE McInv'
  <2> DEFINE e == [exec[t] EXCEPT !.pc = "wait"]
  <2>1. e \in McWork /\ e.at = exec[t].at /\ e.knew = FALSE /\ e.pc = "wait"
    BY <1>22, <1>7 DEF WaitForApproval, KnownIsNotBegun, McWork, McStates
  <2>2. exec' \in [McTasks -> McWork] /\ exec'[t] = e /\ \A s \in McTasks \ {t} : exec'[s] = exec[s]
    BY <1>22, <2>1 DEF WaitForApproval, Step, McShape
  <2>3. /\ UNCHANGED <<task, polled, runningTaskIds, webhooks, approvedBy, ungated>>
        /\ approvalCallbacks' = approvalCallbacks \cup {t} /\ exec[t].pc = "asked"
    BY <1>22 DEF WaitForApproval
  <2>4. BehindIsApproved'
    <3> SUFFICES ASSUME NEW s \in McTasks, GateBefore(exec'[s].at) PROVE s \in approvedBy
      BY <2>3 DEF BehindIsApproved, GateBefore
    <3> QED BY <2>1, <2>2 DEF BehindIsApproved
  <2>5. McShape' /\ ApprovalsAreGiven'
    BY <2>2, <2>3 DEF McShape, ApprovalsAreGiven
  <2>6. KnownIsNotBegun'
    BY <2>1, <2>2 DEF KnownIsNotBegun
  <2>7. WaitsAreRun'
    BY <2>1, <2>2, <2>3 DEF WaitsAreRun, McShape
  <2> QED BY <2>3, <2>4, <2>5, <2>6, <2>7
<1>23. ASSUME NEW a \in polled, CheckQueue(a) PROVE McInv'
  <2> DEFINE e == [[McRest EXCEPT !.pc = "begin"] EXCEPT !.knew = a.resolved]
  <2>1. a.task \in McTasks /\ a.resolved \in BOOLEAN
    BY DEF McShape
  <2>2. e \in McWork /\ e.at = McRest.at /\ e.pc = "begin"
    BY <2>1, <1>9 DEF McWork, McStates, McRest
  <2>3. CASE a.task \in runningTaskIds
    <3>1. UNCHANGED <<task, exec, approvalCallbacks, webhooks, runningTaskIds, approvedBy, ungated>>
          /\ polled' \subseteq polled
      BY <1>23, <2>3 DEF CheckQueue
    <3> QED
      BY <3>1 DEF McShape, ApprovalsAreGiven, BehindIsApproved, KnownIsNotBegun, WaitsAreRun, GateBefore
  <2>4. CASE a.task \notin runningTaskIds
    <3>1. exec' = [exec EXCEPT ![a.task] = e]
      BY <1>23, <2>4 DEF CheckQueue
    <3>2. Moves(a.task, e)
      BY <1>23, <2>1, <2>2, <2>4, <3>1, <1>9 DEF CheckQueue, Moves, WaitsAreRun, McShape
    <3> QED BY <2>1, <3>2, <1>6
  <2> QED BY <2>3, <2>4
<1> QED
  BY <1>0, <1>1, <1>2, <1>3, <1>4, <1>5, <1>10, <1>12, <1>15, <1>16, <1>17, <1>18, <1>20, <1>21, <1>22, <1>23
     DEF McNext

(* No stage behind approval_notify runs for a task no human approved,      *)
(* whatever the workflow, the timeouts, the restarts and the lost updates: *)
(* a callback is only ever resolved well by a call somebody's decision     *)
(* sent (src/core/mc-worker.ts, waitForApproval and notifyApproval).       *)
THEOREM McGateHolds == AssistantSpec => []McNothingUngated
<1>1. AssistantInit => McInv
  BY McStarts DEF AssistantInit
<1>2. McInv /\ [AssistantNext]_assistantVars => McInv'
  BY McSteps, StepsApart
<1>3. McInv => McNothingUngated
  BY DEF McInv
<1> QED BY <1>1, <1>2, <1>3, PTL DEF AssistantSpec

(* Why a workflow that completed is not run again. While its run is not    *)
(* owed, a completed task is at rest, at its closing, or begun with an     *)
(* answer that says it is resolved; an answer on its way says so too or    *)
(* was given while the task ran; its resolution is there, on its way or on *)
(* record as lost; and a run that ended has closed the task, or it is on   *)
(* record as not closed.                                                   *)
Owed(t) == t \in crossed \/ (t \in unclosed /\ t \in unresolved)

Settled(t) ==
    t \in completed /\ ~Owed(t) =>
        /\ exec[t].pc \in {"rest", "begin", "review", "close"}
        /\ exec[t].pc = "begin" => exec[t].knew = TRUE
        /\ \A a \in polled : a.task = t => a.resolved = TRUE \/ a.during = TRUE
        /\ t \in posting \/ task[t].resolved = TRUE \/ t \in unresolved
        /\ exec[t].pc \in {"review", "close"} \/ task[t].status # "in_progress" \/ t \in unclosed

\* Only a task that was filed is polled, run and completed.
Filed(t) ==
    (t \in completed \/ exec[t].pc # "rest" \/ \E a \in polled : a.task = t) =>
        task[t].status # "unfiled"

RerunInv ==
    /\ McRerunsAreOwed
    /\ \A a, b \in polled : a = b
    /\ \A a \in polled : a.task \in runningTaskIds => a.during = TRUE
    /\ \A t \in McTasks : Settled(t) /\ Filed(t)

\* What a step never takes back.
LapsesGrow ==
    unclosed \subseteq unclosed' /\ unresolved \subseteq unresolved' /\ crossed \subseteq crossed'

LEMMA McLapsesGrow == [McNext]_mcVars => LapsesGrow
BY DEF LapsesGrow, mcLapses, mcVars, McNext, CreateTask, McAnswersPoll, CheckQueue, BeginTask, RunStage,
       ReachGate, WaitForApproval, HumanDecides, NotifyApproval, ApprovalTimesOut, NotApproved,
       AllStagesDone, ResolutionArrives, SubmitAegisApproval, SetDone, McWorkerDies

\* What a request and a step of one task leave of every task.
LEMMA TaskKept ==
    ASSUME McShape, NEW s \in McTasks, NEW status \in McStatuses, NEW t \in McTasks
    PROVE  UpdateTask(s, status) =>
             /\ task'[t].resolved = task[t].resolved
             /\ task'[t].status = task[t].status \/ (t = s /\ task'[t].status = status)
<1>1. task \in [McTasks -> [status : McStatuses, resolved : BOOLEAN]]
  BY DEF McShape
<1> QED BY <1>1 DEF UpdateTask

LEMMA WorkKept ==
    ASSUME McShape, NEW s \in McTasks, NEW t \in McTasks
    PROVE  /\ \A pc \in McStates : Step(s, pc) =>
                exec'[t].knew = exec[t].knew /\ exec'[t].pc = IF t = s THEN pc ELSE exec[t].pc
           /\ Return(s) => exec'[t] = IF t = s THEN McRest ELSE exec[t]
<1>1. exec \in [McTasks -> McWork]
  BY DEF McShape
<1> QED BY <1>1 DEF Step, Return, McWork

\* A step that leaves a task's work and status, and no new answer about it.
LEMMA SettledKept ==
    ASSUME RerunInv, LapsesGrow, NEW t \in McTasks,
           exec'[t] = exec[t], task'[t] = task[t], polled' \subseteq polled,
           completed' = completed, t \in posting => t \in posting'
    PROVE  Settled(t)' /\ Filed(t)'
BY DEF RerunInv, LapsesGrow, Settled, Filed, Owed

\* A step of one task that is not completed before or after it, or is owed.
LEMMA SettledFree ==
    ASSUME RerunInv, LapsesGrow, NEW t \in McTasks, t \in completed' => Owed(t),
           exec[t].pc # "rest", task'[t].status # "unfiled"
    PROVE  Settled(t)' /\ Filed(t)'
BY DEF LapsesGrow, Settled, Filed, Owed

LEMMA RerunStarts == McInit => RerunInv
BY DEF McInit, RerunInv, McRerunsAreOwed, Settled, Filed, McRest

LEMMA RerunSteps == ASSUME McInv, RerunInv, [McNext]_mcVars PROVE RerunInv'
<1>0. McShape /\ WaitsAreRun /\ LapsesGrow /\ KnownIsNotBegun
  BY McLapsesGrow DEF McInv
<1>1. \A t \in McTasks : /\ exec[t] \in McWork /\ task[t] \in [status : McStatuses, resolved : BOOLEAN]
                         /\ Settled(t) /\ Filed(t)
                         /\ t \notin runningTaskIds => exec[t].pc = "rest"
  BY <1>0 DEF McShape, RerunInv, WaitsAreRun
\* What is left when a step adds no answer and starts no run.
<1>2. ASSUME polled' \subseteq polled, runningTaskIds' \subseteq runningTaskIds, UNCHANGED reran,
             \A t \in McTasks : Settled(t)' /\ Filed(t)'
      PROVE  RerunInv'
  BY <1>0, <1>2 DEF RerunInv, McRerunsAreOwed, LapsesGrow
<1>3. CASE UNCHANGED mcVars
  BY <1>3, <1>2, <1>0, SettledKept DEF mcVars
<1>4. ASSUME NEW s \in McTasks, CreateTask(s) PROVE RerunInv'
  <2>1. ASSUME NEW t \in McTasks PROVE Settled(t)' /\ Filed(t)'
    <3>1. CASE t = s
      BY <1>0, <1>1, <1>4, <3>1 DEF CreateTask, Settled, Filed, Owed, mcLapses, McShape
    <3>2. CASE t # s
      BY <1>0, <1>1, <1>4, <3>2, SettledKept DEF CreateTask, McShape
    <3> QED BY <3>1, <3>2
  <2> QED BY <1>2, <1>4, <2>1 DEF CreateTask
<1>5. ASSUME NEW s \in McTasks, McAnswersPoll(s) PROVE RerunInv'
  <2> DEFINE a == [task |-> s, resolved |-> task[s].resolved, during |-> s \in runningTaskIds]
  <2>1. /\ polled' = {a} /\ a.task = s /\ a.resolved = task[s].resolved
        /\ a.during = (s \in runningTaskIds) /\ task[s].status = "in_progress"
        /\ s \in posting /\ ~task[s].resolved => s \in unresolved'
        /\ UNCHANGED <<task, runningTaskIds, exec, posting, completed, reran, unclosed, crossed>>
    BY <1>5 DEF McAnswersPoll
  <2>2. s \in runningTaskIds => a.during = TRUE
    BY <2>1
  <2> HIDE DEF a
  <2>3. ASSUME NEW t \in McTasks PROVE Settled(t)' /\ Filed(t)'
    <3>1. CASE t # s
      BY <1>0, <1>1, <2>1, <3>1 DEF Settled, Filed, Owed, LapsesGrow
    <3>2. CASE t = s
      <4>1. s \in completed /\ ~Owed(s)' => a.resolved = TRUE \/ a.during = TRUE
        BY <1>0, <1>1, <2>1, <2>2, <3>2 DEF Settled, Owed, LapsesGrow
      <4> QED BY <1>0, <1>1, <2>1, <3>2, <4>1 DEF Settled, Filed, Owed, LapsesGrow
    <3> QED BY <3>1, <3>2
  <2> QED BY <1>0, <2>1, <2>2, <2>3 DEF RerunInv, McRerunsAreOwed, LapsesGrow
<1>6. ASSUME NEW a \in polled, CheckQueue(a) PROVE RerunInv'
  <2>1. /\ a.task \in McTasks /\ a.resolved \in BOOLEAN /\ a.during \in BOOLEAN
        /\ polled' = {} /\ UNCHANGED <<task, posting, completed, reran>>
    BY <1>0, <1>6 DEF CheckQueue, McShape, RerunInv
  <2>2. CASE a.task \in runningTaskIds
    BY <1>0, <1>2, <1>6, <2>1, <2>2, SettledKept DEF CheckQueue
  <2>3. CASE a.task \notin runningTaskIds
    <3>1. ASSUME NEW t \in McTasks PROVE Settled(t)' /\ Filed(t)'
      <4>1. CASE t # a.task
        <5>1. exec'[t] = exec[t]
          BY <1>0, <1>6, <2>3, <4>1 DEF CheckQueue, McShape
        <5> QED BY <1>0, <2>1, <5>1, SettledKept
      <4>2. CASE t = a.task
        <5>1. /\ exec[t].pc = "rest" /\ exec'[t] = [McRest EXCEPT !.pc = "begin", !.knew = a.resolved]
              /\ a.during = TRUE /\ a.resolved = FALSE => t \in crossed'
          BY <1>0, <1>1, <1>6, <2>3, <4>2 DEF CheckQueue, McShape
        <5>2. exec'[t].pc = "begin" /\ exec'[t].knew = a.resolved
          BY <5>1 DEF McRest
        <5>3. Filed(t)'
          BY <1>1, <2>1, <4>2 DEF Filed
        <5> QED BY <1>0, <1>1, <2>1, <4>2, <5>1, <5>2, <5>3 DEF Settled, Owed, LapsesGrow
      <4> QED BY <4>1, <4>2
    <3> QED BY <1>0, <2>1, <3>1 DEF RerunInv, McRerunsAreOwed, LapsesGrow
  <2> QED BY <2>2, <2>3
<1>7. ASSUME NEW s \in McTasks, BeginTask(s) PROVE RerunInv'
  <2>0. /\ exec[s].pc = "begin" /\ polled' = polled /\ runningTaskIds' \subseteq runningTaskIds
        /\ UNCHANGED <<posting, completed, reran, unclosed, unresolved, crossed>>
        /\ exec[s].knew = TRUE => Return(s) /\ UpdateTask(s, "done")
        /\ exec[s].knew = FALSE => Step(s, "run") /\ UpdateTask(s, "in_progress")
        /\ exec[s].knew \in BOOLEAN
    BY <1>1, <1>7 DEF BeginTask, AlreadyCompleted, Return, mcLapses, McWork
  <2>1. ASSUME NEW t \in McTasks PROVE Settled(t)' /\ Filed(t)'
    <3>1. /\ task'[t].resolved = task[t].resolved
          /\ t # s => task'[t].status = task[t].status
          /\ exec[s].knew = TRUE => task'[t].status \in {task[t].status, "done"}
          /\ exec[s].knew = FALSE => task'[t].status \in {task[t].status, "in_progress"}
      BY <1>0, <2>0, TaskKept DEF McStatuses
    <3>2. /\ t # s => exec'[t] = exec[t]
          /\ t = s /\ exec[s].knew = TRUE => exec'[t].pc = "rest"
          /\ t = s /\ exec[s].knew = FALSE => exec'[t].pc = "run"
      BY <1>0, <2>0 DEF Return, Step, McRest, McShape, McWork
    <3> QED BY <1>1, <2>0, <3>1, <3>2 DEF Settled, Filed, Owed
  <2> QED BY <1>2, <2>0, <2>1
<1>8. ASSUME NEW s \in McTasks, NEW ok \in BOOLEAN, RunStage(s, ok) PROVE RerunInv'
  <2>1. /\ exec[s].pc = "run" /\ polled' = polled /\ runningTaskIds' \subseteq runningTaskIds
        /\ UNCHANGED <<posting, completed, unclosed, unresolved, crossed>>
        /\ task' = task \/ UpdateTask(s, "failed")
        /\ \A t \in McTasks \ {s} : exec'[t] = exec[t]
        /\ reran' = IF s \in completed THEN reran \cup {s} ELSE reran
    BY <1>0, <1>8 DEF RunStage, Return, mcLapses, McShape
  <2>2. s \in completed => Owed(s)
    BY <1>1, <2>1 DEF Settled
  <2>3. ASSUME NEW t \in McTasks PROVE Settled(t)' /\ Filed(t)'
    <3>0. task[s].status # "unfiled"
      BY <1>1, <2>1 DEF Filed
    <3>1. /\ task'[t].resolved = task[t].resolved /\ (t # s => task'[t].status = task[t].status)
          /\ task'[s].status # "unfiled"
      BY <1>0, <2>1, <3>0, TaskKept DEF McStatuses
    <3>2. CASE t # s
      BY <1>1, <2>1, <3>1, <3>2 DEF Settled, Filed, Owed
    <3>3. CASE t = s
      BY <1>0, <2>1, <2>2, <3>1, <3>3, SettledFree
    <3> QED BY <3>2, <3>3
  <2>4. McRerunsAreOwed'
    BY <2>1, <2>2 DEF RerunInv, McRerunsAreOwed, Owed
  <2> QED BY <2>1, <2>3, <2>4 DEF RerunInv
\* A step of the gate: its task is past its beginning and not at its closing.
<1>9. ASSUME NEW s \in McTasks, exec[s].pc \in {"gate", "asked", "wait", "refused"},
             polled' = polled, runningTaskIds' \subseteq runningTaskIds,
             UNCHANGED <<posting, completed, reran, unclosed, unresolved, crossed>>,
             \A t \in McTasks \ {s} : exec'[t] = exec[t],
             \/ task' = task
             \/ UpdateTask(s, "review") \/ UpdateTask(s, "in_progress") \/ UpdateTask(s, "failed")
      PROVE  RerunInv'
  <2>1. s \in completed => Owed(s)
    BY <1>1, <1>9 DEF Settled
  <2>2. ASSUME NEW t \in McTasks PROVE Settled(t)' /\ Filed(t)'
    <3>0. task[s].status # "unfiled"
      BY <1>1, <1>9 DEF Filed
    <3>1. /\ task'[t].resolved = task[t].resolved /\ (t # s => task'[t].status = task[t].status)
          /\ task'[s].status # "unfiled"
      BY <1>0, <1>9, <3>0, TaskKept DEF McStatuses
    <3>2. CASE t # s
      BY <1>1, <1>9, <3>1, <3>2 DEF Settled, Filed, Owed
    <3>3. CASE t = s
      BY <1>0, <1>9, <2>1, <3>1, <3>3, SettledFree
    <3> QED BY <3>2, <3>3
  <2> QED BY <1>2, <1>9, <2>2
<1>10. ASSUME NEW s \in McTasks, ReachGate(s) PROVE RerunInv'
  <2>1. \A t \in McTasks \ {s} : exec'[t] = exec[t]
    BY <1>0, <1>10 DEF ReachGate, Step, McShape
  <2> QED BY <1>9, <1>10, <2>1 DEF ReachGate, mcLapses
<1>11. ASSUME NEW s \in McTasks, WaitForApproval(s) PROVE RerunInv'
  <2>1. \A t \in McTasks \ {s} : exec'[t] = exec[t]
    BY <1>0, <1>11 DEF WaitForApproval, Step, McShape
  <2> QED BY <1>9, <1>11, <2>1 DEF WaitForApproval, mcLapses
<1>12. ASSUME NEW s \in McTasks, ApprovalTimesOut(s) PROVE RerunInv'
  <2>1. exec[s].pc = "wait" /\ \A t \in McTasks \ {s} : exec'[t] = exec[t]
    BY <1>0, <1>12 DEF ApprovalTimesOut, Resolve, McShape, WaitsAreRun
  <2> QED BY <1>9, <1>12, <2>1 DEF ApprovalTimesOut, mcLapses
<1>13. ASSUME NEW s \in McTasks, NotApproved(s) PROVE RerunInv'
  <2>1. \A t \in McTasks \ {s} : exec'[t] = exec[t]
    BY <1>0, <1>13 DEF NotApproved, Return, McShape
  <2> QED BY <1>9, <1>13, <2>1 DEF NotApproved, Return, mcLapses
<1>14. ASSUME NEW w \in webhooks, NotifyApproval(w) PROVE RerunInv'
  <2>1. CASE w.task \in approvalCallbacks
    <3>1. /\ w.task \in McTasks /\ exec[w.task].pc = "wait"
          /\ \A t \in McTasks \ {w.task} : exec'[t] = exec[t]
      BY <1>0, <1>14, <2>1 DEF NotifyApproval, Resolve, McShape, WaitsAreRun
    <3> QED BY <1>9, <1>14, <2>1, <3>1 DEF NotifyApproval, mcLapses
  <2>2. CASE w.task \notin approvalCallbacks
    BY <1>0, <1>2, <1>14, <2>2, SettledKept DEF NotifyApproval
  <2> QED BY <2>1, <2>2
<1>15. ASSUME NEW s \in McTasks, NEW approved \in BOOLEAN, HumanDecides(s, approved) PROVE RerunInv'
  <2>1. PICK status \in {"done", "failed"} : task' = [task EXCEPT ![s].status = status]
    BY <1>15 DEF HumanDecides
  <2>2. UNCHANGED <<polled, runningTaskIds, exec, posting, completed, reran, unclosed, unresolved, crossed>>
    BY <1>15 DEF HumanDecides, mcLapses
  <2>3. ASSUME NEW t \in McTasks PROVE Settled(t)' /\ Filed(t)'
    <3>1. /\ task'[t].resolved = task[t].resolved
          /\ t # s => task'[t].status = task[t].status
          /\ t = s => task'[t].status = status
      BY <1>0, <2>1 DEF McShape
    <3> QED BY <1>1, <2>2, <3>1 DEF Settled, Filed, Owed
  <2> QED BY <1>2, <2>2, <2>3
<1>16. ASSUME NEW s \in McTasks, AllStagesDone(s) PROVE RerunInv'
  <2>1. /\ exec[s].pc = "run" /\ Step(s, "review") /\ posting' = posting \cup {s}
        /\ completed' = completed \cup {s}
        /\ UNCHANGED <<task, polled, runningTaskIds, reran, unclosed, unresolved, crossed>>
    BY <1>16 DEF AllStagesDone, mcLapses
  <2>2. \A a \in polled : a.task = s => a.during = TRUE
    BY <1>1, <2>1 DEF RerunInv
  <2>3. ASSUME NEW t \in McTasks PROVE Settled(t)' /\ Filed(t)'
    <3>1. exec'[t].knew = exec[t].knew /\ exec'[t].pc = IF t = s THEN "review" ELSE exec[t].pc
      BY <1>0, <2>1, WorkKept DEF McStates
    <3> QED BY <1>1, <2>1, <2>2, <3>1 DEF Settled, Filed, Owed
  <2> QED BY <1>2, <2>1, <2>3
<1>17. ASSUME NEW s \in McTasks, ResolutionArrives(s) PROVE RerunInv'
  <2>1. /\ posting' = posting \ {s}
        /\ \/ task' = [task EXCEPT ![s].resolved = TRUE]
           \/ task' = task /\ s \in unresolved'
        /\ UNCHANGED <<polled, runningTaskIds, exec, completed, reran, unclosed, crossed>>
    BY <1>17 DEF ResolutionArrives
  <2>2. ASSUME NEW t \in McTasks PROVE Settled(t)' /\ Filed(t)'
    <3>1. /\ task'[t].status = task[t].status
          /\ t # s => task'[t].resolved = task[t].resolved
          /\ task'[s].resolved = TRUE \/ s \in unresolved'
      BY <1>0, <2>1 DEF McShape
    <3> QED BY <1>0, <1>1, <2>1, <3>1 DEF Settled, Filed, Owed, LapsesGrow
  <2> QED BY <1>2, <2>1, <2>2
<1>18. ASSUME NEW s \in McTasks, SubmitAegisApproval(s) PROVE RerunInv'
  <2>1. /\ exec[s].pc = "review" /\ runningTaskIds' \subseteq runningTaskIds
        /\ UpdateTask(s, "done")
        /\ \/ Return(s) /\ task' = [task EXCEPT ![s].status = "done"]
           \/ Step(s, "close")
        /\ UNCHANGED <<polled, posting, completed, reran, unclosed, unresolved, crossed>>
    BY <1>18 DEF SubmitAegisApproval, UpdateTask, Return, mcLapses
  <2>2. ASSUME NEW t \in McTasks PROVE Settled(t)' /\ Filed(t)'
    <3>1. /\ task'[t].resolved = task[t].resolved
          /\ t # s => task'[t].status = task[t].status
          /\ task'[s].status \in {task[s].status, "done"}
          /\ Step(s, "close") \/ task'[s].status = "done"
      BY <1>0, <2>1 DEF UpdateTask, McShape
    <3>2. /\ t # s => exec'[t] = exec[t]
          /\ exec'[s].pc = "rest" \/ (Step(s, "close") /\ exec'[s].pc = "close")
          /\ Step(s, "close") => exec'[s].pc = "close"
      BY <1>0, <2>1 DEF Return, Step, McRest, McShape, McWork
    <3> QED BY <1>1, <2>1, <3>1, <3>2 DEF Settled, Filed, Owed
  <2> QED BY <1>2, <2>1, <2>2
<1>19. ASSUME NEW s \in McTasks, SetDone(s) PROVE RerunInv'
  <2>1. /\ exec[s].pc = "close" /\ runningTaskIds' \subseteq runningTaskIds
        /\ UpdateTask(s, "done") /\ Return(s)
        /\ task'[s].status = "done" \/ s \in unclosed'
        /\ UNCHANGED <<polled, posting, completed, reran, unresolved, crossed>>
    BY <1>19 DEF SetDone, Return
  <2>2. ASSUME NEW t \in McTasks PROVE Settled(t)' /\ Filed(t)'
    <3>1. /\ task'[t].resolved = task[t].resolved
          /\ t # s => task'[t].status = task[t].status
          /\ task'[s].status \in {task[s].status, "done"}
      BY <1>0, <2>1, TaskKept DEF McStatuses
    <3>2. exec'[t] = IF t = s THEN McRest ELSE exec[t]
      BY <1>0, <2>1, WorkKept
    <3>3. t # s => exec'[t] = exec[t]
      BY <3>2
    <3>4. exec'[s].pc = "rest"
      BY <1>0, <2>1, WorkKept DEF McRest
    <3> QED BY <1>0, <1>1, <2>1, <3>1, <3>3, <3>4 DEF Settled, Filed, Owed, LapsesGrow
  <2> QED BY <1>2, <2>1, <2>2
<1>20. ASSUME McWorkerDies PROVE RerunInv'
  <2>1. /\ polled' = {} /\ runningTaskIds' = {} /\ UNCHANGED <<task, posting, completed, reran>>
        /\ \A t \in McTasks : /\ exec'[t].pc = "rest"
                              /\ exec[t].pc \in {"review", "close"} /\ task[t].status # "done" => t \in unclosed'
    BY <1>20 DEF McWorkerDies, McRest
  <2>2. ASSUME NEW t \in McTasks PROVE Settled(t)' /\ Filed(t)'
    BY <1>0, <1>1, <2>1 DEF Settled, Filed, Owed, LapsesGrow
  <2> QED BY <1>2, <2>1, <2>2
<1> QED
  BY <1>3, <1>4, <1>5, <1>6, <1>7, <1>8, <1>10, <1>11, <1>12, <1>13, <1>14, <1>15, <1>16, <1>17, <1>18,
     <1>19, <1>20
     DEF McNext

(* The guard against duplicate Slack posts does what its comment says (the *)
(* head of _executeTaskInner in src/core/mc-worker.ts): for any workflow   *)
(* and any number of tasks, a stage of a workflow that completed runs      *)
(* again only if the task was not closed and the queue did not know its    *)
(* resolution, or an answer given while it ran was read after.             *)
THEOREM McRerunsAreFew == AssistantSpec => []McRerunsAreOwed
<1>1. AssistantInit => McInv /\ RerunInv
  BY McStarts, RerunStarts DEF AssistantInit
<1>2. McInv /\ RerunInv /\ [AssistantNext]_assistantVars => McInv' /\ RerunInv'
  BY McSteps, RerunSteps, StepsApart
<1>3. RerunInv => McRerunsAreOwed
  BY DEF RerunInv
<1> QED BY <1>1, <1>2, <1>3, PTL DEF AssistantSpec

-----------------------------------------------------------------------------
(* The tools. What a call holds is told by where it is: a live call has    *)
(* written what it lost replies of, has left no audit row and, while it    *)
(* reads, holds no more than the source; an ended call has one more write  *)
(* than lost replies if it worked, and everything asked for unless it says *)
(* otherwise.                                                              *)

ToolPlan == [kind : {"read", "local", "write", "hand over"}, pages : Nat,
             flag : {"never", "counted", "longer", "full"}, failed : {"error", "named", "end"},
             cached : BOOLEAN, counts : BOOLEAN, audited : BOOLEAN]

\* What holds of every plan: only reads are cached, a read that reports its
\* failures makes one request, and only such a read counts first.
SoundPlan(p) ==
    /\ p \in ToolPlan
    /\ p.kind # "read" => p.cached = FALSE
    /\ p.kind = "read" /\ p.failed = "error" => p.pages = 1
    /\ p.flag = "counted" => p.failed = "error" /\ p.counts = TRUE
    /\ p.counts = TRUE => p.flag = "counted"

LivePcs == {"check", "fetch", "count", "page", "write"}
ToolCall == [pc : LivePcs \union {"none", "audit", "done"}, plan : ToolPlan, rows : Nat, pages : Nat,
             counted : Nat, tries : Nat, asked : Nat, ok : BOOLEAN, partial : BOOLEAN, lost : Nat,
             short : BOOLEAN, audits : Nat, unknown : BOOLEAN]
CallShape(r) == r \in ToolCall /\ SoundPlan(r.plan)

Writes(p) == p.kind \in {"write", "hand over"}

\* src rows match now, and w effects of the call's write are in the service.
LiveOK(r, src, w) ==
    r.pc \in LivePcs =>
      /\ r.ok = FALSE /\ r.partial = FALSE /\ r.short = FALSE /\ r.audits = 0 /\ r.unknown = FALSE
      /\ r.pc \in {"count", "page"} => r.plan.kind = "read"
      /\ r.pc = "fetch" => r.plan.kind = "hand over"
      /\ r.pc = "write" => Writes(r.plan) /\ w = r.lost
      /\ r.pc # "write" => w = 0 /\ r.lost = 0
      /\ r.pc \in {"check", "count", "page"} =>
           /\ r.asked <= src /\ r.rows <= src
           /\ r.plan.pages = 1 => r.rows = 0 /\ r.pages = 0
      /\ r.pc = "page" /\ r.plan.flag = "counted" => r.asked <= r.counted

EndOK(r, w) ==
    r.pc \in {"audit", "done"} =>
      /\ r.pc = "audit" => r.audits = 0 /\ r.unknown = FALSE /\ r.plan.audited = TRUE
      /\ r.pc = "done" => r.audits = IF r.plan.audited /\ ~r.unknown THEN 1 ELSE 0
      /\ Writes(r.plan) => w = IF r.ok THEN r.lost + 1 ELSE r.lost
      /\ r.ok /\ r.plan.kind = "read" /\ ~r.partial /\ r.lost = 0 /\ ~r.short => r.rows >= r.asked

CallOK(r, src, w) == CallShape(r) /\ LiveOK(r, src, w) /\ EndOK(r, w)

ToolInv ==
    /\ source \in Nat /\ (helperCache = NoRows \/ helperCache \in Nat)
    /\ call \in [ToolCallers -> ToolCall] /\ written \in [ToolCallers -> Nat]
    /\ \A c \in ToolCallers : CallOK(call[c], source, written[c])

LEMMA ReadIsSound ==
    ASSUME NEW pages \in {0, 1, 2}, NEW flag \in {"never", "longer", "full"}, NEW failed \in {"error", "named", "end"},
           failed = "error" => pages = 1
    PROVE  /\ SoundPlan(Read(pages, flag, failed))
           /\ Read(pages, flag, failed).kind = "read"
BY DEF SoundPlan, ToolPlan, Read

LEMMA PlansAreSound == \A p \in Plans : SoundPlan(p)
<1>1. SoundPlan(ListInstances) /\ SoundPlan(DescribeSchema)
  BY DEF ListInstances, DescribeSchema, Local, Read, SoundPlan, ToolPlan
<1>2. SoundPlan(Write) /\ SoundPlan(ClickUpTriggerAgent)
  BY DEF ClickUpTriggerAgent, Write, Read, SoundPlan, ToolPlan
<1>3. SoundPlan(Local(TRUE)) /\ SoundPlan(Local(FALSE))
  BY DEF Local, Read, SoundPlan, ToolPlan
<1>4. SoundPlan(QueryJobs) /\ SoundPlan(GetRingbaRevenue) /\ SoundPlan(GetMetaSpend)
  BY DEF QueryJobs, GetRingbaRevenue, GetMetaSpend, MetaInsights, Read, SoundPlan, ToolPlan
<1>5. SoundPlan(SupabaseQuery) /\ SoundPlan(ListPublishers) /\ SoundPlan(ListRingbaTags)
  BY DEF SupabaseQuery, ListPublishers, ListRingbaTags, Read, SoundPlan, ToolPlan
<1>6. SoundPlan(Read(1, "never", "error")) /\ SoundPlan(Read(0, "longer", "end"))
      /\ SoundPlan(Read(0, "never", "named")) /\ SoundPlan(Read(0, "never", "end"))
      /\ SoundPlan(Read(0, "full", "end")) /\ SoundPlan(Read(1, "never", "end"))
      /\ SoundPlan(Read(1, "longer", "end")) /\ SoundPlan(Read(2, "longer", "end"))
  BY ReadIsSound
<1> HIDE DEF SoundPlan
<1> QED
  BY <1>1, <1>2, <1>3, <1>4, <1>5, <1>6
     DEF Plans, InstanceDetail, ListWorkflows, ListIntegrationsTool, GetJobOutput, BroadcastReply,
         GroupedQuery, ListRingbaCampaigns, ListLpCampaigns, RingbaLiveQuery, RingbaTagRollup,
         RingbaTagTimeseries, GoogleAdsListAccounts, GoogleAdsTodaySpend, MetaListAdAccounts, MetaQuery,
         MetaAccounts, MetaRows, EverflowReport, EverflowListOffers, EverflowOfferPayouts, ClickUpListLists,
         ClickUpListMembers, ClickUpListTasks, ClickUpFindTasks, ClickUpGetTask, ClickUpGetTaskComments,
         ClickUpUpdateTask, ClickUpAddComment, ClickUpCreateTask

\* A call that the service's growth leaves where it was is as it should be.
LEMMA SourceMayGrow ==
    ASSUME NEW r, NEW src \in Nat, NEW more \in Nat, src <= more, NEW w \in Nat, CallOK(r, src, w)
    PROVE  CallOK(r, more, w)
<1>1. r \in ToolCall
  BY DEF CallOK, CallShape
<1>2. r.asked \in Nat /\ r.rows \in Nat
  BY <1>1 DEF ToolCall
<1>3. (r.asked <= src => r.asked <= more) /\ (r.rows <= src => r.rows <= more)
  BY <1>2
<1>4. LiveOK(r, more, w)
  BY <1>3, Zenon DEF CallOK, LiveOK
<1> QED BY <1>4 DEF CallOK

\* Where a call that ended goes: Answer and Refuse end it so.
Ended(r, ok) == [[r EXCEPT !.ok = ok] EXCEPT !.pc = AuditOrAnswer(r)]

LEMMA EndsWell ==
    ASSUME NEW r, CallShape(r), NEW src \in Nat, NEW w \in Nat, NEW ok \in BOOLEAN,
           r.audits = 0, r.unknown = FALSE,
           Writes(r.plan) => w = IF ok THEN r.lost + 1 ELSE r.lost,
           ok /\ r.plan.kind = "read" /\ ~r.partial /\ r.lost = 0 /\ ~r.short => r.rows >= r.asked
    PROVE  CallOK(Ended(r, ok), src, w)
<1> DEFINE e == Ended(r, ok)
<1>1. r \in ToolCall /\ SoundPlan(r.plan) /\ r.plan.audited \in BOOLEAN
  BY DEF CallShape, SoundPlan, ToolPlan
<1>2. AuditOrAnswer(r) \in {"audit", "done"} /\ (AuditOrAnswer(r) = "audit" <=> r.plan.audited = TRUE)
  BY <1>1 DEF AuditOrAnswer
<1>3. /\ e \in ToolCall /\ e.pc = AuditOrAnswer(r) /\ e.ok = ok /\ e.plan = r.plan /\ e.audits = 0
      /\ e.unknown = FALSE /\ e.lost = r.lost /\ e.partial = r.partial /\ e.short = r.short
      /\ e.rows = r.rows /\ e.asked = r.asked
  BY <1>1, <1>2 DEF Ended, ToolCall, LivePcs
<1> HIDE DEF e
<1>4. CallShape(e)
  BY <1>1, <1>3 DEF CallShape
<1>5. LiveOK(e, src, w)
  BY <1>2, <1>3 DEF LiveOK, LivePcs
<1>6. EndOK(e, w)
  BY <1>1, <1>2, <1>3 DEF EndOK
<1> QED BY <1>4, <1>5, <1>6 DEF CallOK, e

LEMMA NewCallIsOK ==
    ASSUME NEW p, SoundPlan(p), source \in Nat
    PROVE  CallOK(NewCall(p), source, 0)
<1> DEFINE e == NewCall(p)
<1>1. p \in ToolPlan
  BY DEF SoundPlan
<1>2. /\ e \in ToolCall /\ e.pc = "check" /\ e.plan = p /\ e.asked = source /\ e.rows = 0 /\ e.pages = 0
      /\ e.ok = FALSE /\ e.partial = FALSE /\ e.short = FALSE /\ e.audits = 0 /\ e.unknown = FALSE /\ e.lost = 0
  BY <1>1 DEF NewCall, ToolCall, LivePcs
<1> HIDE DEF e
<1> QED BY <1>2 DEF CallOK, CallShape, LiveOK, EndOK, e

LEMMA ToolsStart == ToolsInit => ToolInv
<1> SUFFICES ASSUME ToolsInit PROVE ToolInv
  OBVIOUS
<1>1. source \in Nat /\ source = 0
  BY DEF ToolsInit
<1>2. SoundPlan(ListInstances)
  BY PlansAreSound DEF Plans
<1>3. NewCall(ListInstances) \in ToolCall /\ NewCall(ListInstances).plan = ListInstances
  BY <1>1, <1>2, NewCallIsOK DEF CallOK, CallShape, NewCall
<1>4. NoCall \in ToolCall /\ NoCall.pc = "none" /\ NoCall.plan = ListInstances
  BY <1>3 DEF NoCall, ToolCall
<1>5. CallOK(NoCall, 0, 0)
  BY <1>2, <1>4 DEF CallOK, CallShape, LiveOK, EndOK, LivePcs
<1>6. /\ call \in [ToolCallers -> ToolCall] /\ written \in [ToolCallers -> Nat]
      /\ \A c \in ToolCallers : call[c] = NoCall /\ written[c] = 0
  BY <1>4 DEF ToolsInit
<1> QED BY <1>1, <1>5, <1>6 DEF ToolInv, ToolsInit

\* A step that brings one call to e keeps the invariant when e is as it should be.
LEMMA CallMoves ==
    ASSUME ToolInv, NEW c \in ToolCallers, NEW e, NEW w \in Nat,
           call' = [call EXCEPT ![c] = e], written' = [written EXCEPT ![c] = w],
           CallOK(e, source, w), source' = source,
           helperCache' = NoRows \/ helperCache' \in Nat
    PROVE  ToolInv'
<1>1. e \in ToolCall
  BY DEF CallOK, CallShape
<1>2. /\ call' \in [ToolCallers -> ToolCall] /\ call'[c] = e /\ \A d \in ToolCallers \ {c} : call'[d] = call[d]
      /\ written' \in [ToolCallers -> Nat] /\ written'[c] = w
      /\ \A d \in ToolCallers \ {c} : written'[d] = written[d]
  BY <1>1 DEF ToolInv
<1>3. ASSUME NEW d \in ToolCallers PROVE CallOK(call'[d], source', written'[d])
  <2>1. CASE d = c
    BY <1>2, <2>1
  <2>2. CASE d # c
    BY <1>2, <2>2 DEF ToolInv
  <2> QED BY <2>1, <2>2
<1>4. \A d \in ToolCallers : CallOK(call'[d], source', written'[d])
  BY <1>3
<1>5. (\A d \in ToolCallers : CallOK(call[d], source, written[d]))'
  BY <1>4 DEF CallOK, CallShape, LiveOK, EndOK, Writes, SoundPlan
<1> QED BY <1>2, <1>5 DEF ToolInv, NoRows

\* The steps leave the rest of a call alone.
LEMMA OneCallMoves ==
    ASSUME ToolInv, NEW c \in ToolCallers, NEW e,
           call' = [call EXCEPT ![c] = e], UNCHANGED <<source, written>>,
           CallOK(e, source, written[c]),
           helperCache' = NoRows \/ helperCache' \in Nat
    PROVE  ToolInv'
<1>1. written[c] \in Nat /\ written' = [written EXCEPT ![c] = written[c]]
  BY DEF ToolInv
<1> QED BY <1>1, CallMoves

LEMMA CheckInputKeeps ==
    ASSUME ToolInv, NEW c \in ToolCallers, NEW valid \in BOOLEAN, CheckInput(c, valid)
    PROVE  ToolInv'
<1> DEFINE r == call[c]
<1>1. /\ r.pc = "check" /\ UNCHANGED <<source, helperCache, written>>
      /\ CallShape(r) /\ LiveOK(r, source, written[c]) /\ CallOK(r, source, written[c])
      /\ source \in Nat /\ written[c] \in Nat /\ (helperCache = NoRows \/ helperCache \in Nat)
  BY DEF CheckInput, ToolInv, CallOK
<1>2. /\ r.ok = FALSE /\ r.partial = FALSE /\ r.short = FALSE /\ r.audits = 0 /\ r.unknown = FALSE
      /\ written[c] = 0 /\ r.lost = 0 /\ r.asked <= source /\ r.rows <= source
      /\ r.plan.pages = 1 => r.rows = 0 /\ r.pages = 0
  BY <1>1 DEF LiveOK, LivePcs
<1>3. r \in ToolCall /\ SoundPlan(r.plan)
  BY <1>1 DEF CallShape
<1>4. CASE Refuse(c)
  <2>1. call' = [call EXCEPT ![c] = Ended(r, FALSE)]
    BY <1>4 DEF Refuse, Ended
  <2>2. CallOK(Ended(r, FALSE), source, written[c])
    BY <1>1, <1>2, EndsWell
  <2> QED BY <1>1, <2>1, <2>2, OneCallMoves
<1>5. CASE r.plan.kind = "local" /\ Answer(c, r)
  <2>1. call' = [call EXCEPT ![c] = Ended(r, TRUE)]
    BY <1>5 DEF Answer, Ended
  <2>2. CallOK(Ended(r, TRUE), source, written[c])
    BY <1>1, <1>2, <1>5, EndsWell DEF Writes
  <2> QED BY <1>1, <2>1, <2>2, OneCallMoves
<1>6. CASE /\ r.plan.cached /\ helperCache # NoRows
           /\ Answer(c, [r EXCEPT !.rows = helperCache, !.asked = helperCache])
  <2> DEFINE s == [r EXCEPT !.rows = helperCache, !.asked = helperCache]
  <2>0. helperCache \in Nat
    BY <1>1, <1>6
  <2>1. /\ s \in ToolCall /\ s.plan = r.plan /\ s.rows = helperCache /\ s.asked = helperCache
        /\ s.audits = 0 /\ s.unknown = FALSE
    BY <1>2, <1>3, <2>0 DEF ToolCall
  <2>2. call' = [call EXCEPT ![c] = Ended(s, TRUE)]
    BY <1>6 DEF Answer, Ended
  <2>3. CallShape(s) /\ ~Writes(s.plan)
    BY <1>3, <1>6, <2>1 DEF CallShape, SoundPlan, Writes
  <2>4. s.rows >= s.asked
    BY <2>0, <2>1
  <2> HIDE DEF s
  <2>5. CallOK(Ended(s, TRUE), source, written[c])
    BY <1>1, <2>1, <2>3, <2>4, EndsWell
  <2> QED BY <1>1, <2>2, <2>5, OneCallMoves
<1>7. ASSUME NEW pc \in {"fetch", "write", "count", "page"}, call' = [call EXCEPT ![c].pc = pc],
             pc = "fetch" => r.plan.kind = "hand over", pc = "write" => r.plan.kind = "write",
             pc \in {"count", "page"} => r.plan.kind = "read",
             pc = "page" => r.plan.counts = FALSE
      PROVE  ToolInv'
  <2> DEFINE e == [r EXCEPT !.pc = pc]
  <2>1. call' = [call EXCEPT ![c] = e]
    BY <1>7
  <2>2. /\ e \in ToolCall /\ e.pc = pc /\ e.plan = r.plan /\ e.asked = r.asked /\ e.rows = r.rows
        /\ e.ok = FALSE /\ e.partial = FALSE /\ e.short = FALSE /\ e.audits = 0 /\ e.unknown = FALSE
        /\ e.lost = 0 /\ e.pages = r.pages
    BY <1>2, <1>3, <1>7 DEF ToolCall, LivePcs
  <2> HIDE DEF e, r
  <2>3. CallShape(e)
    BY <1>3, <2>2 DEF CallShape
  <2>4. LiveOK(e, source, written[c])
    BY <1>2, <1>3, <1>7, <2>2 DEF LiveOK, Writes, SoundPlan
  <2>5. EndOK(e, written[c])
    BY <1>7, <2>2 DEF EndOK
  <2> QED BY <1>1, <2>1, <2>3, <2>4, <2>5, OneCallMoves DEF CallOK
<1>8. CASE /\ r.plan.kind # "local" /\ ~(r.plan.cached /\ helperCache # NoRows)
           /\ call' = [call EXCEPT ![c].pc = CASE r.plan.kind = "hand over" -> "fetch"
                                              [] r.plan.kind = "write" -> "write"
                                              [] r.plan.kind = "read" -> IF r.plan.counts THEN "count" ELSE "page"]
  <2>1. r.plan.kind \in {"read", "write", "hand over"} /\ r.plan.counts \in BOOLEAN
    BY <1>3, <1>8 DEF SoundPlan, ToolPlan
  <2>2. CASE r.plan.kind = "hand over"
    BY <1>7, <1>8, <2>2
  <2>3. CASE r.plan.kind = "write"
    BY <1>7, <1>8, <2>3
  <2>4. CASE r.plan.kind = "read" /\ r.plan.counts
    BY <1>7, <1>8, <2>4
  <2>5. CASE r.plan.kind = "read" /\ ~r.plan.counts
    BY <1>7, <1>8, <2>1, <2>5
  <2> QED BY <2>1, <2>2, <2>3, <2>4, <2>5
<1> QED
  BY <1>4, <1>5, <1>6, <1>8 DEF CheckInput

LEMMA CountRowsKeeps ==
    ASSUME ToolInv, NEW c \in ToolCallers, NEW works \in BOOLEAN, CountRows(c, works) \/ FetchTask(c, works)
    PROVE  ToolInv'
<1> DEFINE r == call[c]
<1>1. /\ r.pc \in {"count", "fetch"} /\ UNCHANGED <<source, helperCache, written>>
      /\ CallShape(r) /\ LiveOK(r, source, written[c]) /\ CallOK(r, source, written[c])
      /\ source \in Nat /\ written[c] \in Nat /\ (helperCache = NoRows \/ helperCache \in Nat)
  BY DEF CountRows, FetchTask, ToolInv, CallOK
<1>2. /\ r.ok = FALSE /\ r.partial = FALSE /\ r.short = FALSE /\ r.audits = 0 /\ r.unknown = FALSE
      /\ written[c] = 0 /\ r.lost = 0
      /\ r.pc = "count" => /\ r.asked <= source /\ r.rows <= source /\ r.plan.kind = "read"
                           /\ r.plan.pages = 1 => r.rows = 0 /\ r.pages = 0
      /\ r.pc = "fetch" => r.plan.kind = "hand over"
  BY <1>1 DEF LiveOK, LivePcs
<1>3. r \in ToolCall /\ SoundPlan(r.plan)
  BY <1>1 DEF CallShape
<1>4. CASE Refuse(c)
  <2>1. call' = [call EXCEPT ![c] = Ended(r, FALSE)]
    BY <1>4 DEF Refuse, Ended
  <2>2. CallOK(Ended(r, FALSE), source, written[c])
    BY <1>1, <1>2, EndsWell
  <2> QED BY <1>1, <2>1, <2>2, OneCallMoves
<1>5. CASE r.pc = "count" /\ call' = [call EXCEPT ![c].counted = source, ![c].pc = "page"]
  <2> DEFINE e == [[r EXCEPT !.counted = source] EXCEPT !.pc = "page"]
  <2>1. call' = [call EXCEPT ![c] = e]
    BY <1>5
  <2>2. /\ e \in ToolCall /\ e.pc = "page" /\ e.plan = r.plan /\ e.asked = r.asked /\ e.rows = r.rows
        /\ e.ok = FALSE /\ e.partial = FALSE /\ e.short = FALSE /\ e.audits = 0 /\ e.unknown = FALSE
        /\ e.lost = 0 /\ e.pages = r.pages /\ e.counted = source
    BY <1>1, <1>2, <1>3 DEF ToolCall, LivePcs
  <2> HIDE DEF e, r
  <2>3. CallShape(e) /\ EndOK(e, written[c])
    BY <1>3, <2>2 DEF CallShape, EndOK
  <2>4. LiveOK(e, source, written[c])
    BY <1>2, <1>5, <2>2 DEF LiveOK
  <2> QED BY <1>1, <2>1, <2>3, <2>4, OneCallMoves DEF CallOK
<1>6. CASE r.pc = "fetch" /\ call' = [call EXCEPT ![c].pc = "write"]
  <2> DEFINE e == [r EXCEPT !.pc = "write"]
  <2>1. call' = [call EXCEPT ![c] = e]
    BY <1>6
  <2>2. /\ e \in ToolCall /\ e.pc = "write" /\ e.plan = r.plan
        /\ e.ok = FALSE /\ e.partial = FALSE /\ e.short = FALSE /\ e.audits = 0 /\ e.unknown = FALSE /\ e.lost = 0
    BY <1>2, <1>3 DEF ToolCall, LivePcs
  <2> HIDE DEF e, r
  <2>3. CallShape(e) /\ EndOK(e, written[c])
    BY <1>3, <2>2 DEF CallShape, EndOK
  <2>4. LiveOK(e, source, written[c])
    BY <1>2, <1>6, <2>2 DEF LiveOK, Writes
  <2> QED BY <1>1, <2>1, <2>3, <2>4, OneCallMoves DEF CallOK
<1> QED
  BY <1>4, <1>5, <1>6 DEF CountRows, FetchTask

LEMMA OneMore == \A n \in Nat : n + 1 \in Nat
OBVIOUS

LEMMA WriteAttemptKeeps ==
    ASSUME ToolInv, NEW c \in ToolCallers, NEW reply \in {"done", "refused", "busy", "cut off"},
           WriteAttempt(c, reply)
    PROVE  ToolInv'
<1> DEFINE r == call[c]
           lost == IF reply = "cut off" THEN r.lost + 1 ELSE r.lost
           w == IF reply \in {"done", "cut off"} THEN written[c] + 1 ELSE written[c]
           seen == [r EXCEPT !.lost = lost]
<1>1. /\ r.pc = "write" /\ UNCHANGED <<source, helperCache>>
      /\ CallShape(r) /\ LiveOK(r, source, written[c])
      /\ source \in Nat /\ written[c] \in Nat /\ (helperCache = NoRows \/ helperCache \in Nat)
  BY DEF WriteAttempt, ToolInv, CallOK
<1>2. /\ r.ok = FALSE /\ r.partial = FALSE /\ r.short = FALSE /\ r.audits = 0 /\ r.unknown = FALSE
      /\ Writes(r.plan) /\ written[c] = r.lost
  BY <1>1 DEF LiveOK, LivePcs
<1>3. r \in ToolCall /\ SoundPlan(r.plan) /\ r.lost \in Nat /\ r.tries \in Nat
  BY <1>1 DEF CallShape, ToolCall
<1>4. /\ w \in Nat /\ lost \in Nat /\ written' = [written EXCEPT ![c] = w]
      /\ w = IF reply = "done" THEN lost + 1 ELSE lost
  <2>1. written' = [written EXCEPT ![c] = w]
    BY DEF WriteAttempt
  <2>2. /\ w = IF reply \in {"done", "cut off"} THEN r.lost + 1 ELSE r.lost
        /\ r.lost + 1 \in Nat /\ r.lost \in Nat
    BY <1>2, <1>3, OneMore, Zenon
  <2> HIDE DEF r, w
  <2>3. w \in Nat /\ lost \in Nat
    BY <2>2
  <2>4. w = IF reply = "done" THEN lost + 1 ELSE lost
    BY <2>2
  <2> QED BY <2>1, <2>3, <2>4
<1> HIDE DEF w, lost
<1>5. /\ seen \in ToolCall /\ seen.pc = "write" /\ seen.plan = r.plan /\ seen.lost = lost /\ seen.ok = FALSE
      /\ seen.partial = FALSE /\ seen.short = FALSE /\ seen.audits = 0 /\ seen.unknown = FALSE
      /\ seen.tries = r.tries
  BY <1>1, <1>2, <1>3, <1>4 DEF ToolCall
<1>6. /\ TriesAgain(reply, r) => reply # "done" /\ call' = [call EXCEPT ![c] = [seen EXCEPT !.tries = @ + 1]]
      /\ ~TriesAgain(reply, r) /\ reply = "done" => call' = [call EXCEPT ![c] = Ended(seen, TRUE)]
      /\ ~TriesAgain(reply, r) /\ reply # "done" =>
            call' = [call EXCEPT ![c] = [seen EXCEPT !.pc = AuditOrAnswer(r)]]
  <2>1. seen = [r EXCEPT !.lost = IF reply = "cut off" THEN @ + 1 ELSE @]
    BY DEF lost
  <2> HIDE DEF seen
  <2> QED BY <2>1 DEF WriteAttempt, Answer, Ended, TriesAgain
<1> HIDE DEF seen
<1>7. CASE TriesAgain(reply, r)
  <2> DEFINE e == [seen EXCEPT !.tries = r.tries + 1]
  <2>1. call' = [call EXCEPT ![c] = e] /\ reply # "done"
    BY <1>5, <1>6, <1>7
  <2>2. r.tries + 1 \in Nat
    BY <1>3, OneMore, Zenon
  <2>3. /\ e \in ToolCall /\ e.pc = "write" /\ e.plan = r.plan /\ e.lost = lost /\ e.ok = FALSE
        /\ e.partial = FALSE /\ e.short = FALSE /\ e.audits = 0 /\ e.unknown = FALSE
    BY <1>5, <2>2 DEF ToolCall
  <2> HIDE DEF e, r
  <2>4. CallShape(e) /\ EndOK(e, w)
    BY <1>3, <2>3 DEF CallShape, EndOK
  <2>5. LiveOK(e, source, w)
    BY <1>2, <1>4, <2>1, <2>3 DEF LiveOK
  <2> QED BY <1>1, <1>4, <2>1, <2>4, <2>5, CallMoves DEF CallOK
<1>8. CASE ~TriesAgain(reply, r)
  <2> DEFINE ok == reply = "done"
  <2>1. ok \in BOOLEAN /\ w = (IF ok THEN seen.lost + 1 ELSE seen.lost) /\ ~(seen.plan.kind = "read")
    BY <1>2, <1>4, <1>5 DEF Writes
  <2>2. CallShape(seen)
    BY <1>3, <1>5 DEF CallShape
  <2>3. CallOK(Ended(seen, ok), source, w)
    <3> HIDE DEF ok, r
    <3> QED BY <1>1, <1>4, <1>5, <2>1, <2>2, EndsWell
  <2>4. AuditOrAnswer(seen) = AuditOrAnswer(r)
    BY <1>5 DEF AuditOrAnswer
  <2>5. [seen EXCEPT !.pc = AuditOrAnswer(r)] = Ended(seen, FALSE)
    BY <1>5, <2>4 DEF Ended, ToolCall
  <2>6. call' = [call EXCEPT ![c] = Ended(seen, ok)]
    BY <1>6, <1>8, <2>5
  <2> HIDE DEF ok
  <2> QED BY <1>1, <1>4, <2>3, <2>6, CallMoves
<1> QED BY <1>7, <1>8

LEMMA AuditKeeps ==
    ASSUME ToolInv, NEW c \in ToolCallers, NEW works \in BOOLEAN, Audit(c, works)
    PROVE  ToolInv'
<1> DEFINE r == call[c]
           e == [[r EXCEPT !.audits = 1] EXCEPT !.pc = "done"]
<1>1. /\ r.pc = "audit" /\ UNCHANGED <<source, helperCache, written>>
      /\ CallShape(r) /\ EndOK(r, written[c])
      /\ source \in Nat /\ written[c] \in Nat /\ (helperCache = NoRows \/ helperCache \in Nat)
  BY DEF Audit, ToolInv, CallOK
<1>2. /\ r.audits = 0 /\ r.unknown = FALSE /\ r.plan.audited = TRUE
      /\ Writes(r.plan) => written[c] = IF r.ok THEN r.lost + 1 ELSE r.lost
      /\ r.ok /\ r.plan.kind = "read" /\ ~r.partial /\ r.lost = 0 /\ ~r.short => r.rows >= r.asked
  BY <1>1 DEF EndOK
<1>3. r \in ToolCall /\ SoundPlan(r.plan)
  BY <1>1 DEF CallShape
<1>4. call' = [call EXCEPT ![c] = e]
  <2>1. call' = [call EXCEPT ![c] = AfterAudit([r EXCEPT !.audits = r.audits + 1], works)]
    BY DEF Audit
  <2>2. r.audits + 1 = 1
    BY <1>2
  <2> QED BY <2>1, <2>2 DEF AfterAudit
<1>5. /\ e \in ToolCall /\ e.pc = "done" /\ e.plan = r.plan /\ e.lost = r.lost /\ e.ok = r.ok
      /\ e.partial = r.partial /\ e.short = r.short /\ e.audits = 1 /\ e.unknown = FALSE
      /\ e.rows = r.rows /\ e.asked = r.asked
  BY <1>2, <1>3 DEF ToolCall
<1> HIDE DEF e, r
<1>6. CallShape(e) /\ LiveOK(e, source, written[c])
  BY <1>3, <1>5 DEF CallShape, LiveOK, LivePcs
<1>7. EndOK(e, written[c])
  BY <1>2, <1>5 DEF EndOK
<1> QED BY <1>1, <1>4, <1>6, <1>7, OneCallMoves DEF CallOK

LEMMA CallToolKeeps ==
    ASSUME ToolInv, NEW c \in ToolCallers, (\E p \in Plans : CallTool(c, p)) \/ UnknownAgent(c)
    PROVE  ToolInv'
<1>1. ASSUME NEW p \in Plans, CallTool(c, p) PROVE ToolInv'
  <2>1. SoundPlan(p) /\ source \in Nat /\ (helperCache = NoRows \/ helperCache \in Nat)
    BY PlansAreSound DEF ToolInv
  <2>2. CallOK(NewCall(p), source, 0)
    BY <2>1, NewCallIsOK
  <2>3. /\ call' = [call EXCEPT ![c] = NewCall(p)] /\ written' = [written EXCEPT ![c] = 0]
        /\ UNCHANGED <<source, helperCache>>
    BY <1>1 DEF CallTool
  <2> QED BY <2>1, <2>2, <2>3, CallMoves
<1>2. ASSUME UnknownAgent(c) PROVE ToolInv'
  <2> DEFINE r == call[c]
             e == [[r EXCEPT !.pc = "done"] EXCEPT !.unknown = TRUE]
  <2>1. /\ r.pc = "check" /\ r.plan.kind = "hand over" /\ UNCHANGED <<source, helperCache, written>>
        /\ CallShape(r) /\ LiveOK(r, source, written[c])
        /\ source \in Nat /\ written[c] \in Nat /\ (helperCache = NoRows \/ helperCache \in Nat)
        /\ call' = [call EXCEPT ![c] = e]
    BY <1>2 DEF UnknownAgent, ToolInv, CallOK
  <2>2. r.ok = FALSE /\ r.audits = 0 /\ written[c] = 0 /\ r.lost = 0
    BY <2>1 DEF LiveOK, LivePcs
  <2>3. r \in ToolCall /\ SoundPlan(r.plan)
    BY <2>1 DEF CallShape
  <2>4. /\ e \in ToolCall /\ e.pc = "done" /\ e.plan = r.plan /\ e.lost = 0 /\ e.ok = FALSE
        /\ e.audits = 0 /\ e.unknown = TRUE
    BY <2>2, <2>3 DEF ToolCall
  <2> HIDE DEF e, r
  <2>5. CallShape(e) /\ LiveOK(e, source, written[c])
    BY <2>3, <2>4 DEF CallShape, LiveOK, LivePcs
  <2>6. EndOK(e, written[c])
    BY <2>1, <2>2, <2>4 DEF EndOK
  <2> QED BY <2>1, <2>5, <2>6, OneCallMoves DEF CallOK
<1> QED BY <1>1, <1>2

\* What a request brings: what is left of the source, at most a request full.
LEMMA AtMostIsLess ==
    ASSUME NEW n \in Nat, NEW cap \in Nat
    PROVE  AtMost(n, cap) \in Nat /\ AtMost(n, cap) <= n /\ AtMost(n, cap) <= cap
           /\ (AtMost(n, cap) < cap => AtMost(n, cap) = n)
BY DEF AtMost

\* What is said and kept of the rows at the end of a read that is whole.
LEMMA CutIsWholeOrFlagged ==
    ASSUME NEW r \in ToolCall, SoundPlan(r.plan)
    PROVE  /\ CutRows(r) \in ToolCall /\ CutRows(r).plan = r.plan /\ CutRows(r).audits = r.audits
           /\ CutRows(r).unknown = r.unknown /\ CutRows(r).lost = r.lost /\ CutRows(r).short = r.short
           /\ CutRows(r).asked = r.asked
           /\ ~CutRows(r).partial =>
                /\ CutRows(r).rows = r.rows \/ (r.plan.flag = "counted" /\ CutRows(r).rows = AtMost(r.rows, RowCap))
                /\ r.plan.flag = "counted" => r.counted <= RowCap
<1>0. RowCap \in Nat
  BY ToolSizes
<1>1. /\ r.rows \in Nat /\ r.counted \in Nat /\ r.partial \in BOOLEAN
      /\ r.plan.flag \in {"never", "counted", "longer", "full"}
  BY DEF ToolCall, SoundPlan, ToolPlan
<1> DEFINE p == Partial(r)
           k == IF r.plan.flag = "never" THEN r.rows ELSE AtMost(r.rows, RowCap)
           e == [r EXCEPT !.partial = p, !.rows = k]
<1>2. p \in BOOLEAN
  BY DEF Partial
<1>3. k \in Nat
  BY <1>0, <1>1, AtMostIsLess
<1>4. CutRows(r) = e
  BY DEF CutRows
<1>5. ~p => /\ k = r.rows \/ (r.plan.flag = "counted" /\ k = AtMost(r.rows, RowCap))
            /\ r.plan.flag = "counted" => r.counted <= RowCap
  BY <1>0, <1>1 DEF Partial, AtMost
<1> HIDE DEF p, k
<1>6. /\ e \in ToolCall /\ e.plan = r.plan /\ e.audits = r.audits /\ e.unknown = r.unknown
      /\ e.lost = r.lost /\ e.short = r.short /\ e.asked = r.asked /\ e.partial = p /\ e.rows = k
  BY <1>2, <1>3 DEF ToolCall
<1> QED BY <1>4, <1>5, <1>6

LEMMA ReadPageKeeps ==
    ASSUME ToolInv, NEW c \in ToolCallers, NEW works \in BOOLEAN, ReadPage(c, works)
    PROVE  ToolInv'
<1> DEFINE r == call[c]
           n == AtMost(source - r.rows, RowsPerRequest(r.plan))
           more == [r EXCEPT !.rows = @ + n, !.pages = IF r.plan.pages = 0 THEN 0 ELSE @ + 1]
           spent == r.plan.pages # 0 /\ more.pages = r.plan.pages
           ended == LastPage(n, source - more.rows)
           short == spent /\ n = RowsPerRequest(r.plan) /\ r.plan.flag # "counted"
           last == [more EXCEPT !.short = short]
           end == CutRows(last)
<1>1. /\ r.pc = "page" /\ UNCHANGED <<source, written>>
      /\ CallShape(r) /\ LiveOK(r, source, written[c]) /\ CallOK(r, source, written[c])
      /\ source \in Nat /\ written[c] \in Nat /\ (helperCache = NoRows \/ helperCache \in Nat)
  BY DEF ReadPage, ToolInv, CallOK
<1>2. /\ r.ok = FALSE /\ r.partial = FALSE /\ r.short = FALSE /\ r.audits = 0 /\ r.unknown = FALSE
      /\ written[c] = 0 /\ r.lost = 0 /\ r.plan.kind = "read" /\ r.asked <= source /\ r.rows <= source
      /\ r.plan.pages = 1 => r.rows = 0 /\ r.pages = 0
      /\ r.plan.flag = "counted" => r.asked <= r.counted
  BY <1>1 DEF LiveOK, LivePcs
<1>3. /\ r \in ToolCall /\ SoundPlan(r.plan) /\ r.rows \in Nat /\ r.pages \in Nat /\ r.asked \in Nat
      /\ r.counted \in Nat /\ r.plan.pages \in Nat /\ r.plan.cached \in BOOLEAN
      /\ r.plan.failed \in {"error", "named", "end"}
      /\ r.plan.failed = "error" => r.plan.pages = 1
      /\ r.plan.flag = "counted" => r.plan.failed = "error"
  BY <1>1, <1>2 DEF CallShape, ToolCall, SoundPlan, ToolPlan
<1>4. CASE works
  <2>1. /\ IF ended \/ spent THEN Answer(c, end) ELSE call' = [call EXCEPT ![c] = more]
        /\ helperCache' = IF r.plan.cached /\ (ended \/ spent) THEN end.rows ELSE helperCache
    BY <1>4 DEF ReadPage
  <2>2. RowsPerRequest(r.plan) \in Nat /\ source - r.rows \in Nat
    BY <1>1, <1>2, <1>3, ToolSizes DEF RowsPerRequest
  <2>3. /\ n \in Nat /\ n <= source - r.rows /\ n <= RowsPerRequest(r.plan)
        /\ n < RowsPerRequest(r.plan) => n = source - r.rows
    BY <2>2, AtMostIsLess
  <2> HIDE DEF n
  <2>4. /\ more \in ToolCall /\ more.rows = r.rows + n /\ more.plan = r.plan /\ more.asked = r.asked
        /\ more.pages = (IF r.plan.pages = 0 THEN 0 ELSE r.pages + 1) /\ more.lost = 0 /\ more.ok = FALSE
        /\ more.partial = FALSE /\ more.audits = 0 /\ more.unknown = FALSE /\ more.pc = "page"
        /\ more.short = FALSE /\ more.counted = r.counted
    <3> DEFINE rows == r.rows + n  pages == IF r.plan.pages = 0 THEN 0 ELSE r.pages + 1
    <3>1. rows \in Nat /\ pages \in Nat
      BY <1>3, <2>3
    <3>2. more = [r EXCEPT !.rows = rows, !.pages = pages]
      OBVIOUS
    <3> HIDE DEF rows, pages, more, r
    <3>3. /\ more \in ToolCall /\ more.rows = rows /\ more.plan = r.plan /\ more.asked = r.asked
          /\ more.pages = pages /\ more.lost = 0 /\ more.ok = FALSE
          /\ more.partial = FALSE /\ more.audits = 0 /\ more.unknown = FALSE /\ more.pc = "page"
          /\ more.short = FALSE /\ more.counted = r.counted
      BY <1>1, <1>2, <1>3, <3>1, <3>2 DEF ToolCall
    <3> QED BY <3>3 DEF rows, pages
  <2> HIDE DEF more, r
  <2>5. more.rows <= source /\ more.rows \in Nat
    BY <1>1, <1>2, <1>3, <2>3, <2>4
  <2>6. spent \in BOOLEAN /\ ended \in BOOLEAN /\ short \in BOOLEAN
    BY DEF LastPage
  <2>7. r.plan.pages = 1 => spent
    BY <1>2, <2>4
  <2>8. ~(ended \/ spent) => ToolInv'
    <3> SUFFICES ASSUME ~(ended \/ spent) PROVE ToolInv'
      OBVIOUS
    <3>1. call' = [call EXCEPT ![c] = more] /\ helperCache' = helperCache /\ r.plan.pages # 1
      BY <2>1, <2>7
    <3>2. LiveOK(more, source, written[c])
      BY <1>2, <2>4, <2>5, <3>1 DEF LiveOK
    <3>3. CallShape(more) /\ EndOK(more, written[c])
      BY <1>3, <2>4 DEF CallShape, EndOK
    <3> QED BY <1>1, <3>1, <3>2, <3>3, OneCallMoves DEF CallOK
  <2>9. ended \/ spent => ToolInv'
    <3> SUFFICES ASSUME ended \/ spent PROVE ToolInv'
      OBVIOUS
    <3>1. /\ last \in ToolCall /\ last.rows = more.rows /\ last.plan = r.plan /\ last.asked = r.asked
          /\ last.counted = r.counted /\ last.lost = 0 /\ last.short = short /\ last.audits = 0
          /\ last.unknown = FALSE
      BY <2>4, <2>6 DEF ToolCall
    <3> DEFINE s == short
    <3> HIDE DEF last, end, s
    <3>2. /\ end \in ToolCall /\ end.plan = r.plan /\ end.audits = 0 /\ end.unknown = FALSE /\ end.lost = 0
          /\ end.short = short /\ end.asked = r.asked
          /\ ~end.partial => /\ \/ end.rows = more.rows
                                \/ r.plan.flag = "counted" /\ end.rows = AtMost(more.rows, RowCap)
                             /\ r.plan.flag = "counted" => r.counted <= RowCap
      BY <1>3, <3>1, CutIsWholeOrFlagged DEF end
    <3>3. (~end.partial /\ ~end.short) => end.rows >= end.asked
      <4> SUFFICES ASSUME ~end.partial, ~short PROVE end.rows >= r.asked
        BY <3>2
      <4>1. PageSize \in Nat /\ RowCap \in Nat
        BY ToolSizes
      <4>2. CASE r.plan.flag = "counted"
        <5>1. /\ r.plan.failed = "error" /\ r.rows = 0 /\ RowsPerRequest(r.plan) = RowCap
              /\ r.asked <= RowCap
          <6>1. r.counted <= RowCap /\ r.asked <= r.counted /\ r.plan.failed = "error" /\ r.rows = 0
            BY <1>2, <1>3, <3>2, <4>2
          <6> QED BY <6>1, <1>3, <4>1 DEF RowsPerRequest
        <5>2. more.rows = n /\ r.asked <= n
          BY <1>1, <1>2, <1>3, <2>3, <2>4, <4>1, <5>1
        <5>3. AtMost(n, RowCap) = n
          BY <2>3, <4>1, <5>1 DEF AtMost
        <5> QED BY <1>3, <2>3, <3>2, <5>2, <5>3
      <4>3. CASE r.plan.flag # "counted"
        <5>1. end.rows = more.rows /\ (spent => n < RowsPerRequest(r.plan))
          BY <2>2, <2>3, <3>2, <4>3
        <5>2. ~spent => n < PageSize \/ source - more.rows = 0
          BY DEF LastPage
        <5>3. ~spent => RowsPerRequest(r.plan) = PageSize
          BY <1>3, <2>7 DEF RowsPerRequest
        <5>4. more.rows = source
          BY <1>1, <1>3, <2>2, <2>3, <2>4, <2>5, <4>1, <5>1, <5>2, <5>3
        <5> QED BY <1>1, <1>2, <1>3, <5>1, <5>4
      <4> QED BY <4>2, <4>3
    <3>4. call' = [call EXCEPT ![c] = Ended(end, TRUE)]
      BY <2>1 DEF Answer, Ended
    <3>5. CallShape(end) /\ ~Writes(end.plan) /\ end.rows \in Nat
      BY <1>2, <1>3, <3>2 DEF CallShape, Writes, ToolCall
    <3>6. CallOK(Ended(end, TRUE), source, written[c])
      BY <1>1, <3>2, <3>3, <3>5, EndsWell
    <3>7. helperCache' = NoRows \/ helperCache' \in Nat
      BY <1>1, <2>1, <3>5
    <3> QED BY <1>1, <3>4, <3>6, <3>7, OneCallMoves
  <2> QED BY <2>8, <2>9
<1>5. CASE ~works
  <2>1. /\ CASE r.plan.failed = "error" -> Refuse(c)
             [] r.plan.failed = "named" -> Answer(c, [r EXCEPT !.partial = TRUE])
             [] r.plan.failed = "end" -> Answer(c, CutRows([r EXCEPT !.lost = 1]))
        /\ UNCHANGED helperCache
    BY <1>5 DEF ReadPage
  <2>2. CASE r.plan.failed = "error"
    <3>1. call' = [call EXCEPT ![c] = Ended(r, FALSE)]
      BY <2>1, <2>2 DEF Refuse, Ended
    <3>2. CallOK(Ended(r, FALSE), source, written[c])
      BY <1>1, <1>2, EndsWell
    <3> QED BY <1>1, <2>1, <3>1, <3>2, OneCallMoves
  <2>3. CASE r.plan.failed = "named"
    <3> DEFINE s == [r EXCEPT !.partial = TRUE]
    <3>1. call' = [call EXCEPT ![c] = Ended(s, TRUE)]
      BY <2>1, <2>3 DEF Answer, Ended
    <3>2. s \in ToolCall /\ s.plan = r.plan /\ s.partial = TRUE /\ s.audits = 0 /\ s.unknown = FALSE
      BY <1>2, <1>3 DEF ToolCall
    <3> HIDE DEF s, r
    <3>3. CallShape(s) /\ ~Writes(s.plan)
      BY <1>2, <1>3, <3>2 DEF CallShape, Writes
    <3>4. CallOK(Ended(s, TRUE), source, written[c])
      BY <1>1, <3>2, <3>3, EndsWell
    <3> QED BY <1>1, <2>1, <3>1, <3>4, OneCallMoves
  <2>4. CASE r.plan.failed = "end"
    <3> DEFINE s == [r EXCEPT !.lost = 1]
               t == CutRows(s)
    <3>1. call' = [call EXCEPT ![c] = Ended(t, TRUE)]
      BY <2>1, <2>4 DEF Answer, Ended
    <3>2. s \in ToolCall /\ s.plan = r.plan /\ s.lost = 1 /\ s.audits = 0 /\ s.unknown = FALSE
      BY <1>2, <1>3 DEF ToolCall
    <3> HIDE DEF s, r
    <3>3. t \in ToolCall /\ t.plan = r.plan /\ t.lost = 1 /\ t.audits = 0 /\ t.unknown = FALSE
      BY <1>3, <3>2, CutIsWholeOrFlagged
    <3> HIDE DEF t
    <3>4. CallShape(t) /\ ~Writes(t.plan)
      BY <1>2, <1>3, <3>3 DEF CallShape, Writes
    <3>5. t.lost # 0
      BY <3>3
    <3>6. CallOK(Ended(t, TRUE), source, written[c])
      BY <1>1, <3>3, <3>4, <3>5, EndsWell
    <3> QED BY <1>1, <2>1, <3>1, <3>6, OneCallMoves
  <2> QED BY <1>3, <2>2, <2>3, <2>4
<1> QED BY <1>4, <1>5

LEMMA ToolSteps == ToolInv /\ [ToolsNext]_toolVars => ToolInv'
<1> SUFFICES ASSUME ToolInv, [ToolsNext]_toolVars PROVE ToolInv'
  OBVIOUS
<1>1. ASSUME UNCHANGED <<call, written>>, source' \in Nat, source <= source',
             helperCache' = NoRows \/ helperCache' \in Nat
      PROVE  ToolInv'
  <2>1. ASSUME NEW c \in ToolCallers PROVE CallOK(call[c], source', written[c])
    BY <1>1, SourceMayGrow DEF ToolInv
  <2>2. \A c \in ToolCallers : CallOK(call'[c], source', written'[c])
    BY <1>1, <2>1
  <2>3. (\A c \in ToolCallers : CallOK(call[c], source, written[c]))'
    BY <2>2 DEF CallOK, CallShape, LiveOK, EndOK, Writes, SoundPlan
  <2> QED BY <1>1, <2>3 DEF ToolInv, NoRows
<1>2. source \in Nat /\ (helperCache = NoRows \/ helperCache \in Nat)
  BY DEF ToolInv
<1>3. CASE UNCHANGED toolVars
  BY <1>1, <1>2, <1>3 DEF toolVars
<1>4. CASE SourceGrows
  BY <1>1, <1>2, <1>4 DEF SourceGrows
<1>5. CASE HelperCacheExpires
  BY <1>1, <1>2, <1>5 DEF HelperCacheExpires
<1> QED
  BY <1>3, <1>4, <1>5, CallToolKeeps, CheckInputKeeps, CountRowsKeeps, ReadPageKeeps, AuditKeeps,
     WriteAttemptKeeps DEF ToolsNext

LEMMA ToolsHold == AssistantSpec => []ToolInv
<1>1. AssistantInit => ToolInv
  BY ToolsStart DEF AssistantInit
<1>2. ToolInv /\ [AssistantNext]_assistantVars => ToolInv'
  BY ToolSteps, StepsApart
<1> QED BY <1>1, <1>2, PTL DEF AssistantSpec

(* An answer that does not say rows are missing holds every row that       *)
(* matched when the tool was called, whatever the sizes of pages and caps  *)
(* and however the source grows meanwhile (src/core/qa-tools.ts,           *)
(* src/adapters/slack/data-tools.ts and the live tools).                   *)
THEOREM WholeOrFlagged == AssistantSpec => []AnswersAreWholeOrFlagged
<1>1. ToolInv => AnswersAreWholeOrFlagged
  BY DEF ToolInv, CallOK, EndOK, AnswersAreWholeOrFlagged
<1> QED BY <1>1, ToolsHold, PTL

(* What a write tool tells Claude of its write is so, for any number of    *)
(* attempts the client makes (src/integrations/clickup/live-tools.ts).     *)
THEOREM WritesAreTold == AssistantSpec => []WritesAreReported
<1>1. ToolInv => WritesAreReported
  <2> SUFFICES ASSUME ToolInv, NEW c \in ToolCallers, call[c].pc = "done", Writes(call[c].plan)
               PROVE  /\ call[c].ok => written[c] >= 1
                      /\ ~call[c].ok /\ call[c].lost = 0 => written[c] = 0
                      /\ written[c] <= 1 + call[c].lost
    BY DEF WritesAreReported, Writes
  <2>1. written[c] = IF call[c].ok THEN call[c].lost + 1 ELSE call[c].lost
    BY DEF ToolInv, CallOK, EndOK
  <2>2. call[c].lost \in Nat
    BY DEF ToolInv, ToolCall
  <2> QED BY <2>1, <2>2
<1> QED BY <1>1, ToolsHold, PTL

(* Every finished call of an audited tool tried to leave one audit row     *)
(* (auditQueryTool), except a hand-over to an agent nobody knows.          *)
THEOREM AuditedOnce == AssistantSpec => []CallsAreAuditedOnce
<1>1. ToolInv => CallsAreAuditedOnce
  BY DEF ToolInv, CallOK, EndOK, CallsAreAuditedOnce
<1> QED BY <1>1, ToolsHold, PTL

-----------------------------------------------------------------------------
(* Conversations. Where a delivery is tells what Slack heard of it; a      *)
(* delivery is only sent when Slack heard every earlier one fail; so of a  *)
(* message's answered deliveries all but the last have lost their          *)
(* acknowledgement, and those are counted.                                 *)

SlackPcs == Working \union {"unsent", "flight", "lost", "refused", "dropped", "killed", "done"}
Delivery == [pc : SlackPcs, heard : {"waiting", "acked", "failed"},
             text : {"none", "hint", "answer", "prompt", "apology", "unsaid"},
             iteration : Nat, taken : Nat, skipped : Nat, bytes : Nat]

SlackShape ==
    /\ delivery \in [SlackMessages -> [Slots -> Delivery]]
    /\ answers \in [SlackMessages -> Nat] /\ lostAcks \in [SlackMessages -> Nat]

\* A delivery d of m, when the bot has posted n answers to m.
DeliveryOK(m, d, n) ==
    /\ d.heard = "waiting" <=> d.pc \in {"unsent", "flight"}
    /\ d.pc \in {"lost", "refused"} => d.heard = "failed"
    /\ d.pc \in Working \union {"killed", "done"} => m.bot = FALSE
    /\ d.pc = "dropped" => Dispatch(m) = "dropped"
    /\ d.pc \in {"unsent", "flight", "context"} => d.taken = 0 /\ d.skipped = 0
    /\ d.pc = "images" => d.taken + d.skipped < Len(m.files)
    /\ d.pc = "done" => d.text = "unsaid" \/ n > 0
    /\ d.taken <= MaxImages /\ d.bytes <= MaxTotalBytes

DeliveriesOK == \A m \in SlackMessages, k \in Slots : DeliveryOK(m, delivery[m][k], answers[m])

SentInTurn ==
    \A m \in SlackMessages, k \in Slots :
        delivery[m][k].pc # "unsent" =>
            /\ m \in posted
            /\ \A i \in Slots : i < k => delivery[m][i].heard = "failed"

AckIsLost(d) == d.heard = "failed" /\ d.pc \notin {"lost", "refused"}
DoneOf(m) == {k \in Slots : delivery[m][k].pc = "done"}
LostOf(m) == {k \in Slots : AckIsLost(delivery[m][k])}

PostsAreCounted ==
    \A m \in SlackMessages :
        answers[m] <= Cardinality(DoneOf(m)) /\ Cardinality(LostOf(m)) <= lostAcks[m]

SlackInv == SlackShape /\ DeliveriesOK /\ SentInTurn /\ PostsAreCounted

LEMMA SlotsFinite ==
    /\ IsFiniteSet(Slots)
    /\ \A T \in SUBSET Slots : IsFiniteSet(T) /\ Cardinality(T) \in Nat
<1>1. IsFiniteSet(Slots)
  BY SlackLimits, FS_Interval DEF Slots
<1>2. ASSUME NEW T \in SUBSET Slots PROVE IsFiniteSet(T) /\ Cardinality(T) \in Nat
  BY <1>1, FS_Subset, FS_CardinalityType
<1> QED BY <1>1, <1>2

LEMMA SlackStarts == SlackInit => SlackInv
<1> SUFFICES ASSUME SlackInit PROVE SlackInv
  OBVIOUS
<1>1. /\ NoDelivery \in Delivery /\ NoDelivery.pc = "unsent" /\ NoDelivery.heard = "waiting"
      /\ NoDelivery.taken = 0 /\ NoDelivery.skipped = 0 /\ NoDelivery.bytes = 0
  BY DEF NoDelivery, Delivery, SlackPcs
<1>2. SlackShape /\ \A m \in SlackMessages : answers[m] = 0 /\ lostAcks[m] = 0
  BY <1>1 DEF SlackInit, SlackShape
<1>3. \A m \in SlackMessages, k \in Slots : delivery[m][k] = NoDelivery
  BY DEF SlackInit
<1>4. DeliveriesOK
  BY <1>1, <1>3, SlackLimits DEF DeliveriesOK, DeliveryOK, Working
<1>5. SentInTurn
  BY <1>1, <1>3 DEF SentInTurn
<1>6. PostsAreCounted
  <2> SUFFICES ASSUME NEW m \in SlackMessages
               PROVE  answers[m] <= Cardinality(DoneOf(m)) /\ Cardinality(LostOf(m)) <= lostAcks[m]
    BY DEF PostsAreCounted
  <2>1. DoneOf(m) = {} /\ LostOf(m) = {}
    BY <1>1, <1>3 DEF DoneOf, LostOf, AckIsLost
  <2>2. Cardinality(DoneOf(m)) = 0 /\ Cardinality(LostOf(m)) = 0
    BY <2>1, FS_EmptySet
  <2> QED BY <1>2, <2>2
<1> QED BY <1>2, <1>4, <1>5, <1>6 DEF SlackInv

\* A count of slots that gains at most the slot k.
LEMMA OneSlotMore ==
    ASSUME NEW S \in SUBSET Slots, NEW T \in SUBSET Slots, NEW k \in Slots, S \subseteq T, T \subseteq S \union {k}
    PROVE  /\ k \in S => Cardinality(T) = Cardinality(S)
           /\ k \notin T => Cardinality(T) = Cardinality(S)
           /\ k \notin S /\ k \in T => Cardinality(T) = Cardinality(S) + 1
<1>1. IsFiniteSet(S) /\ Cardinality(S) \in Nat
  BY SlotsFinite
<1>2. CASE k \in S \/ k \notin T
  <2>1. T = S
    BY <1>2
  <2> QED BY <2>1, <1>2
<1>3. CASE k \notin S /\ k \in T
  <2>1. T = S \union {k}
    BY <1>3
  <2> QED BY <1>1, <1>3, <2>1, FS_AddElement
<1> QED BY <1>2, <1>3

\* A step that brings one delivery of m to d: an answer is counted when the
\* delivery is done, and a lost acknowledgement when it is lost.
LEMMA DeliveryMoves ==
    ASSUME SlackInv, NEW m \in SlackMessages, NEW k \in Slots, NEW d \in Delivery,
           delivery' = [delivery EXCEPT ![m][k] = d],
           posted \subseteq posted',
           answers' \in [SlackMessages -> Nat], \A x \in SlackMessages \ {m} : answers'[x] = answers[x],
           lostAcks' \in [SlackMessages -> Nat], \A x \in SlackMessages \ {m} : lostAcks'[x] = lostAcks[x],
           answers[m] <= answers'[m],
           DeliveryOK(m, d, answers'[m]),
           m \in posted', \A i \in Slots : i < k => delivery[m][i].heard = "failed",
           delivery[m][k].heard = "failed" => d.heard = "failed",
           delivery[m][k].pc # "done",
           answers'[m] = answers[m] \/ (d.pc = "done" /\ answers'[m] = answers[m] + 1),
           AckIsLost(delivery[m][k]) => AckIsLost(d),
           AckIsLost(d) /\ ~AckIsLost(delivery[m][k]) => lostAcks'[m] = lostAcks[m] + 1,
           lostAcks[m] <= lostAcks'[m]
    PROVE  SlackInv'
<1>1. /\ delivery' \in [SlackMessages -> [Slots -> Delivery]] /\ delivery'[m][k] = d
      /\ \A i \in Slots \ {k} : delivery'[m][i] = delivery[m][i]
      /\ \A x \in SlackMessages \ {m} : delivery'[x] = delivery[x]
  BY DEF SlackInv, SlackShape
<1>2. SlackShape'
  BY <1>1 DEF SlackShape
<1>3. DeliveriesOK'
  <2> SUFFICES ASSUME NEW x \in SlackMessages, NEW i \in Slots
               PROVE  DeliveryOK(x, delivery'[x][i], answers'[x])
    BY DEF DeliveriesOK, DeliveryOK
  <2>1. DeliveryOK(x, delivery[x][i], answers[x])
    BY DEF SlackInv, DeliveriesOK
  <2>2. CASE x # m
    BY <1>1, <2>1, <2>2
  <2>3. CASE x = m /\ i = k
    BY <1>1, <2>3
  <2>4. CASE x = m /\ i # k
    <3>1. delivery'[x][i] = delivery[m][i]
      BY <1>1, <2>4
    <3>2. answers[m] > 0 => answers'[m] > 0
      BY DEF SlackInv, SlackShape
    <3> QED BY <2>1, <2>4, <3>1, <3>2, Zenon DEF DeliveryOK
  <2> QED BY <2>2, <2>3, <2>4
<1>4. SentInTurn'
  <2> SUFFICES ASSUME NEW x \in SlackMessages, NEW i \in Slots, delivery'[x][i].pc # "unsent"
               PROVE  x \in posted' /\ \A j \in Slots : j < i => delivery'[x][j].heard = "failed"
    BY DEF SentInTurn
  <2>1. CASE x # m
    BY <1>1, <2>1 DEF SlackInv, SentInTurn
  <2>2. CASE x = m /\ i = k
    <3> SUFFICES ASSUME NEW j \in Slots, j < k PROVE delivery'[m][j].heard = "failed"
      BY <2>2
    <3>1. j # k
      BY DEF Slots
    <3> QED BY <1>1, <3>1
  <2>3. CASE x = m /\ i # k
    <3>1. delivery[m][i].pc # "unsent"
      BY <1>1, <2>3
    <3>2. \A j \in Slots : j < i => delivery[m][j].heard = "failed"
      BY <3>1 DEF SlackInv, SentInTurn
    <3> QED BY <1>1, <2>3, <3>2
  <2> QED BY <2>1, <2>2, <2>3
<1>5. PostsAreCounted'
  <2>1. ASSUME NEW x \in SlackMessages \ {m}
        PROVE  answers'[x] <= Cardinality(DoneOf(x)') /\ Cardinality(LostOf(x)') <= lostAcks'[x]
    <3>1. DoneOf(x)' = DoneOf(x) /\ LostOf(x)' = LostOf(x)
      BY <1>1 DEF DoneOf, LostOf, AckIsLost
    <3> QED BY <3>1 DEF SlackInv, PostsAreCounted
  <2>2. answers'[m] <= Cardinality(DoneOf(m)')
    <3>1. /\ DoneOf(m) \in SUBSET Slots /\ DoneOf(m)' \in SUBSET Slots
          /\ k \notin DoneOf(m) /\ DoneOf(m) \subseteq DoneOf(m)' /\ DoneOf(m)' \subseteq DoneOf(m) \union {k}
          /\ k \in DoneOf(m)' <=> d.pc = "done"
      BY <1>1 DEF DoneOf
    <3> DEFINE a == Cardinality(DoneOf(m))  b == Cardinality(DoneOf(m)')
    <3>2. a \in Nat /\ answers[m] <= a /\ answers[m] \in Nat
      BY <3>1, SlotsFinite DEF SlackInv, PostsAreCounted, SlackShape
    <3>3. IF d.pc = "done" THEN b = a + 1 ELSE b = a
      BY <3>1, OneSlotMore
    <3> HIDE DEF a, b
    <3>4. answers'[m] <= b
      BY <3>2, <3>3
    <3> QED BY <3>4 DEF b
  <2>3. Cardinality(LostOf(m)') <= lostAcks'[m]
    <3>1. /\ LostOf(m) \in SUBSET Slots /\ LostOf(m)' \in SUBSET Slots
          /\ LostOf(m) \subseteq LostOf(m)' /\ LostOf(m)' \subseteq LostOf(m) \union {k}
          /\ k \in LostOf(m)' <=> AckIsLost(d)
          /\ k \in LostOf(m) <=> AckIsLost(delivery[m][k])
      <4>1. LostOf(m)' = {i \in Slots : AckIsLost(delivery'[m][i])}
        BY DEF LostOf, AckIsLost
      <4> QED BY <1>1, <4>1 DEF LostOf
    <3> DEFINE a == Cardinality(LostOf(m))  b == Cardinality(LostOf(m)')
    <3>2. a \in Nat /\ a <= lostAcks[m] /\ lostAcks[m] \in Nat /\ lostAcks'[m] \in Nat
      BY <3>1, SlotsFinite DEF SlackInv, PostsAreCounted, SlackShape
    <3>3. IF AckIsLost(d) /\ ~AckIsLost(delivery[m][k]) THEN b = a + 1 ELSE b = a
      BY <3>1, OneSlotMore
    <3> HIDE DEF a, b
    <3>4. b <= lostAcks'[m]
      BY <3>2, <3>3
    <3> QED BY <3>4 DEF b
  <2>4. \A x \in SlackMessages : answers'[x] <= Cardinality(DoneOf(x)') /\ Cardinality(LostOf(x)') <= lostAcks'[x]
    BY <2>1, <2>2, <2>3
  <2> QED BY <2>4 DEF PostsAreCounted
<1> QED BY <1>2, <1>3, <1>4, <1>5 DEF SlackInv

\* A step that moves nothing but one delivery, which Slack need not hear of.
LEMMA OnlyDeliveryMoves ==
    ASSUME SlackInv, NEW m \in SlackMessages, NEW k \in Slots, NEW d \in Delivery,
           delivery' = [delivery EXCEPT ![m][k] = d], UNCHANGED <<posted, answers, lostAcks>>,
           delivery[m][k].pc \notin {"unsent", "done", "lost", "refused"}, d.heard = delivery[m][k].heard,
           DeliveryOK(m, d, answers[m]), d.pc \notin {"lost", "refused", "done"}
    PROVE  SlackInv'
<1>1. m \in posted /\ \A i \in Slots : i < k => delivery[m][i].heard = "failed"
  BY DEF SlackInv, SentInTurn
<1>2. answers \in [SlackMessages -> Nat] /\ lostAcks \in [SlackMessages -> Nat]
  BY DEF SlackInv, SlackShape
<1>3. answers[m] <= answers[m] /\ lostAcks[m] <= lostAcks[m]
  BY <1>2
<1>4. AckIsLost(d) <=> AckIsLost(delivery[m][k])
  BY DEF AckIsLost
<1> QED BY <1>1, <1>2, <1>3, <1>4, DeliveryMoves

\* What the invariant says of one delivery, and of the numbers beside it.
LEMMA DeliveryFacts ==
    ASSUME SlackInv, NEW m \in SlackMessages, NEW k \in Slots
    PROVE  /\ delivery[m][k] \in Delivery /\ DeliveryOK(m, delivery[m][k], answers[m])
           /\ answers[m] \in Nat /\ lostAcks[m] \in Nat
           /\ answers \in [SlackMessages -> Nat] /\ lostAcks \in [SlackMessages -> Nat]
           /\ answers[m] <= answers[m] /\ lostAcks[m] <= lostAcks[m]
           /\ delivery[m][k].pc # "unsent" =>
                 m \in posted /\ \A i \in Slots : i < k => delivery[m][i].heard = "failed"
           /\ m.files \in Seq([image : BOOLEAN, announced : Nat, size : Nat]) /\ m.bot \in BOOLEAN
           /\ m.text \in BOOLEAN
<1>1. answers[m] \in Nat /\ lostAcks[m] \in Nat
  BY DEF SlackInv, SlackShape
<1>2. /\ m.files \in Seq([image : BOOLEAN, announced : Nat, size : Nat]) /\ m.bot \in BOOLEAN
      /\ m.text \in BOOLEAN
  BY SlackEvents
<1>3. delivery[m][k] \in Delivery /\ answers \in [SlackMessages -> Nat] /\ lostAcks \in [SlackMessages -> Nat]
  BY DEF SlackInv, SlackShape
<1>4. answers[m] <= answers[m] /\ lostAcks[m] <= lostAcks[m]
  BY <1>1
<1> QED BY <1>1, <1>2, <1>3, <1>4 DEF SlackInv, DeliveriesOK, SentInTurn

LEMMA SendingKeeps ==
    ASSUME SlackInv, NEW m \in SlackMessages, NEW k \in Slots,
           (Post(m) /\ k = 1) \/ Redeliver(m, k)
    PROVE  SlackInv'
<1> DEFINE old == delivery[m][k]
           d == [old EXCEPT !.pc = "flight"]
<1>1. old.pc = "unsent" /\ m \in posted' /\ posted \subseteq posted'
      /\ \A i \in Slots : i < k => delivery[m][i].heard = "failed"
  <2>1. CASE Post(m) /\ k = 1
    BY <2>1, DeliveryFacts DEF Post, Slots
  <2>2. CASE Redeliver(m, k)
    <3>1. /\ k - 1 \in Slots /\ k > 1 /\ k \in Int /\ old.pc = "unsent" /\ posted' = posted
          /\ delivery[m][k - 1].heard = "failed"
      <4>1. k > 1 /\ k \in Int /\ k <= MaxDeliveries /\ MaxDeliveries \in Int
        BY <2>2, SlackLimits DEF Redeliver, Slots
      <4>2. k - 1 \in Slots
        BY <4>1 DEF Slots
      <4> QED BY <2>2, <4>1, <4>2 DEF Redeliver
    <3>2. delivery[m][k - 1].pc # "unsent"
      BY <3>1, DeliveryFacts DEF DeliveryOK
    <3>3. m \in posted /\ \A i \in Slots : i < k - 1 => delivery[m][i].heard = "failed"
      BY <3>1, <3>2, DeliveryFacts
    <3>4. ASSUME NEW i \in Slots, i < k PROVE i = k - 1 \/ i < k - 1
      BY <3>1, <3>4 DEF Slots
    <3> QED BY <3>1, <3>3, <3>4
  <2> QED BY <2>1, <2>2
<1>2. delivery' = [delivery EXCEPT ![m][k] = d] /\ UNCHANGED <<answers, lostAcks>>
  BY DEF Post, Redeliver
<1>3. old \in Delivery /\ DeliveryOK(m, old, answers[m])
  BY DeliveryFacts
<1>4. /\ d \in Delivery /\ d.pc = "flight" /\ d.heard = old.heard /\ d.taken = old.taken /\ d.bytes = old.bytes
      /\ d.skipped = old.skipped
  BY <1>3 DEF Delivery, SlackPcs
<1> HIDE DEF d, old
<1>5. old.heard = "waiting" /\ ~AckIsLost(old) /\ ~AckIsLost(d)
  BY <1>1, <1>3, <1>4 DEF DeliveryOK, AckIsLost
<1>6. DeliveryOK(m, d, answers[m])
  BY <1>3, <1>4, <1>5 DEF DeliveryOK, Working
<1> QED BY <1>1, <1>2, <1>4, <1>5, <1>6, DeliveryMoves, DeliveryFacts DEF old

\* What ends a flight: Slack gives up, or the webhook answers.
LEMMA LandingKeeps ==
    ASSUME SlackInv, NEW m \in SlackMessages, NEW k \in Slots,
           \/ SlackGivesUp(m, k)
           \/ \E why \in Rejects : Reject(m, k, why)
           \/ \E lost \in BOOLEAN : ReceiveSlackWebhook(m, k, lost)
    PROVE  SlackInv'
<1> DEFINE old == delivery[m][k]
<1>1. old \in Delivery /\ DeliveryOK(m, old, answers[m])
  BY DeliveryFacts
<1>2. old.pc = "flight" /\ old.heard = "waiting" /\ ~AckIsLost(old) /\ old.pc # "done" /\ old.pc # "unsent"
  BY <1>1 DEF SlackGivesUp, Reject, ReceiveSlackWebhook, DeliveryOK, AckIsLost, Working
<1>3. m \in posted /\ \A i \in Slots : i < k => delivery[m][i].heard = "failed"
  BY <1>2, DeliveryFacts
<1>4. ASSUME NEW d \in Delivery, delivery' = [delivery EXCEPT ![m][k] = d],
             UNCHANGED <<posted, answers, lostAcks>>, d.pc \in {"lost", "refused"}, d.heard = "failed",
             d.taken = old.taken, d.bytes = old.bytes
      PROVE  SlackInv'
  <2>1. ~AckIsLost(d)
    BY <1>4 DEF AckIsLost
  <2>2. DeliveryOK(m, d, answers[m])
    BY <1>1, <1>4 DEF DeliveryOK, Working
  <2> QED BY <1>2, <1>3, <1>4, <2>1, <2>2, DeliveryMoves, DeliveryFacts
<1>5. CASE SlackGivesUp(m, k) \/ \E why \in Rejects : Reject(m, k, why)
  <2>1. PICK pc \in {"lost", "refused"} :
          delivery' = [delivery EXCEPT ![m][k] = [[old EXCEPT !.pc = pc] EXCEPT !.heard = "failed"]]
    <3>1. CASE SlackGivesUp(m, k)
      <4>1. delivery' = [delivery EXCEPT ![m][k] = [[old EXCEPT !.heard = "failed"] EXCEPT !.pc = "lost"]]
        BY <1>2, <3>1 DEF SlackGivesUp
      <4>2. [[old EXCEPT !.heard = "failed"] EXCEPT !.pc = "lost"] = [[old EXCEPT !.pc = "lost"] EXCEPT !.heard = "failed"]
        BY <1>1 DEF Delivery
      <4> QED BY <4>1, <4>2
    <3>2. CASE \E why \in Rejects : Reject(m, k, why)
      <4>1. delivery' = [delivery EXCEPT ![m][k] = [[old EXCEPT !.pc = "refused"] EXCEPT !.heard = "failed"]]
        BY <3>2 DEF Reject
      <4> QED BY <4>1
    <3> QED BY <1>5, <3>1, <3>2
  <2> DEFINE d == [[old EXCEPT !.pc = pc] EXCEPT !.heard = "failed"]
  <2>2. d \in Delivery /\ d.pc = pc /\ d.heard = "failed" /\ d.taken = old.taken /\ d.bytes = old.bytes
    BY <1>1 DEF Delivery, SlackPcs
  <2>3. UNCHANGED <<posted, answers, lostAcks>>
    BY <1>5 DEF SlackGivesUp, Reject
  <2> HIDE DEF d
  <2>4. delivery' = [delivery EXCEPT ![m][k] = d]
    BY <2>1 DEF d
  <2> QED BY <1>4, <2>2, <2>3, <2>4
<1>6. ASSUME NEW lost \in BOOLEAN, ReceiveSlackWebhook(m, k, lost) PROVE SlackInv'
  <2> DEFINE to == Dispatch(m)
             says == IF to = "reply" THEN "hint" ELSE "none"
             hears == Heard(lost)
             d == [[[old EXCEPT !.pc = to] EXCEPT !.heard = hears] EXCEPT !.text = says]
  <2>1. to \in {"dropped", "reply", "context"} /\ (to # "dropped" => m.bot = FALSE)
    BY DeliveryFacts DEF Dispatch, IsSelfEvent
  <2>2. hears \in {"acked", "failed"} /\ (hears = "failed" <=> lost = TRUE) /\ says \in {"hint", "none"}
    BY DEF Heard
  <2>3. delivery' = [delivery EXCEPT ![m][k] = d] /\ UNCHANGED <<posted, answers>>
        /\ lostAcks' = [lostAcks EXCEPT ![m] = IF lost THEN @ + 1 ELSE @]
    <3>1. delivery' = [delivery EXCEPT ![m][k] = d]
      <4>1. delivery' = [delivery EXCEPT ![m][k].pc = to, ![m][k].heard = hears, ![m][k].text = says]
        BY <1>6, Zenon DEF ReceiveSlackWebhook
      <4> HIDE DEF to, hears, says
      <4>2. delivery \in [SlackMessages -> [Slots -> Delivery]]
        BY DEF SlackInv, SlackShape
      <4> QED BY <4>1, <4>2
    <3> QED BY <1>6, <3>1 DEF ReceiveSlackWebhook
  <2>4. lostAcks' \in [SlackMessages -> Nat] /\ lostAcks'[m] = (IF lost THEN lostAcks[m] + 1 ELSE lostAcks[m])
        /\ \A x \in SlackMessages \ {m} : lostAcks'[x] = lostAcks[x]
    BY <2>3, DeliveryFacts
  <2> HIDE DEF to, hears, says
  <2>5. /\ d \in Delivery /\ d.pc = to /\ d.heard = hears /\ d.taken = old.taken /\ d.bytes = old.bytes
        /\ d.skipped = old.skipped
    BY <1>1, <2>1, <2>2 DEF Delivery, SlackPcs, Working
  <2> HIDE DEF d, old
  <2>6. DeliveryOK(m, d, answers[m])
    <3>1. old.taken = 0 /\ old.skipped = 0
      BY <1>1, <1>2 DEF DeliveryOK
    <3> QED BY <1>1, <2>1, <2>2, <2>5, <3>1 DEF DeliveryOK, Working, to
  <2>7. AckIsLost(d) <=> lost = TRUE
    BY <2>1, <2>2, <2>5 DEF AckIsLost
  <2>8. /\ lostAcks[m] <= lostAcks'[m] /\ lostAcks[m] \in Nat
        /\ AckIsLost(d) => lostAcks'[m] = lostAcks[m] + 1
    BY <2>4, <2>7, DeliveryFacts
  <2>9. delivery[m][k] = old
    BY DEF old
  <2>10. posted \subseteq posted' /\ m \in posted' /\ answers' = answers /\ d.pc # "done"
    BY <1>3, <2>1, <2>3, <2>5
  <2>11. answers' \in [SlackMessages -> Nat] /\ answers[m] <= answers'[m]
    BY <2>3, DeliveryFacts
  <2> QED BY <1>2, <1>3, <2>3, <2>4, <2>5, <2>6, <2>8, <2>9, <2>10, <2>11, DeliveryMoves
<1> QED BY <1>5, <1>6

LEMMA NextOfSeq ==
    ASSUME NEW S, NEW s \in Seq(S), NEW n \in Nat, n < Len(s)
    PROVE  Len(s) \in Nat /\ s[n + 1] \in S
OBVIOUS

\* The steps of an answer under way, up to the post.
LEMMA HandlingKeeps ==
    ASSUME SlackInv, NEW m \in SlackMessages, NEW k \in Slots,
           \/ FetchChannelContext(m, k) \/ RunTools(m, k)
           \/ \E works \in BOOLEAN : IngestFile(m, k, works)
           \/ \E turn \in {"tools", "answer", "prompt", "apology"} : AskClaude(m, k, turn)
    PROVE  SlackInv'
<1> DEFINE old == delivery[m][k]
<1>1. old \in Delivery /\ DeliveryOK(m, old, answers[m])
  BY DeliveryFacts
<1>2. /\ old.iteration \in Nat /\ old.taken \in Nat /\ old.skipped \in Nat /\ old.bytes \in Nat
      /\ old.taken <= MaxImages /\ old.bytes <= MaxTotalBytes /\ old.pc \in SlackPcs
  BY <1>1 DEF Delivery, DeliveryOK
<1>3. ASSUME NEW d \in Delivery, delivery' = [delivery EXCEPT ![m][k] = d], UNCHANGED <<posted, answers, lostAcks>>,
             old.pc \in Working, d.pc \in Working \ {"context"}, d.heard = old.heard,
             d.pc = "images" => d.taken + d.skipped < Len(m.files),
             d.taken <= MaxImages, d.bytes <= MaxTotalBytes
      PROVE  SlackInv'
  <2>1. m.bot = FALSE /\ old.heard # "waiting"
    BY <1>1, <1>3 DEF DeliveryOK, Working
  <2>2. DeliveryOK(m, d, answers[m])
    BY <1>3, <2>1 DEF DeliveryOK, Working
  <2>3. old.pc \notin {"unsent", "done", "lost", "refused"} /\ d.pc \notin {"lost", "refused", "done"}
    BY <1>3 DEF Working
  <2> QED BY <1>3, <2>2, <2>3, OnlyDeliveryMoves
<1>4. CASE FetchChannelContext(m, k)
  <2> DEFINE pc == IF m.files = <<>> THEN "model" ELSE "images"
             d == [old EXCEPT !.pc = pc]
  <2>1. /\ old.pc = "context" /\ delivery' = [delivery EXCEPT ![m][k] = d]
        /\ UNCHANGED <<posted, answers, lostAcks>>
    BY <1>4 DEF FetchChannelContext, At, Become
  <2>2. pc \in {"model", "images"} /\ (pc = "images" => 0 < Len(m.files))
    <3>1. m.files \in Seq([image : BOOLEAN, announced : Nat, size : Nat])
      BY DeliveryFacts
    <3> QED BY <3>1
  <2>3. old.taken = 0 /\ old.skipped = 0
    BY <1>1, <2>1 DEF DeliveryOK
  <2> HIDE DEF pc
  <2>4. /\ d \in Delivery /\ d.pc = pc /\ d.heard = old.heard /\ d.taken = old.taken /\ d.bytes = old.bytes
        /\ d.skipped = old.skipped
    BY <1>1, <2>2 DEF Delivery, SlackPcs, Working
  <2> HIDE DEF d, old
  <2>5. d.pc = "images" => d.taken + d.skipped < Len(m.files)
    BY <2>2, <2>3, <2>4
  <2>6. d.pc \in Working \ {"context"} /\ old.pc \in Working
    BY <2>1, <2>2, <2>4 DEF Working
  <2> QED BY <1>2, <1>3, <2>1, <2>4, <2>5, <2>6
<1>5. ASSUME NEW works \in BOOLEAN, IngestFile(m, k, works) PROVE SlackInv'
  <2> DEFINE file == m.files[old.taken + old.skipped + 1]
             done == old.taken + old.skipped + 1 = Len(m.files)
             ok == works /\ file.image /\ Takes(old, file.size, file.announced)
             pc == IF done THEN "model" ELSE "images"
             taken == IF ok THEN old.taken + 1 ELSE old.taken
             skipped == IF ok THEN old.skipped ELSE old.skipped + 1
             bytes == IF ok THEN old.bytes + file.size ELSE old.bytes
             d == [old EXCEPT !.pc = pc, !.taken = taken, !.skipped = skipped, !.bytes = bytes]
  <2>1. /\ old.pc = "images" /\ delivery' = [delivery EXCEPT ![m][k] = d]
        /\ UNCHANGED <<posted, answers, lostAcks>>
    BY <1>5 DEF IngestFile, Become
  <2>2. /\ old.taken + old.skipped < Len(m.files)
        /\ m.files \in Seq([image : BOOLEAN, announced : Nat, size : Nat])
    BY <1>1, <2>1, DeliveryFacts DEF DeliveryOK
  <2>3. old.taken + old.skipped \in Nat
    <3> HIDE DEF old
    <3> QED BY <1>2
  <2>4. Len(m.files) \in Nat /\ file \in [image : BOOLEAN, announced : Nat, size : Nat]
    <3> HIDE DEF old
    <3> QED BY <2>2, <2>3, NextOfSeq
  <2>5. file.size \in Nat /\ ok \in BOOLEAN
    BY <2>4 DEF Takes
  <2>6. ok => old.taken + 1 <= MaxImages /\ old.bytes + file.size <= MaxTotalBytes
    BY <1>2, SlackLimits DEF Takes
  <2>7. /\ taken \in Nat /\ skipped \in Nat /\ bytes \in Nat /\ taken <= MaxImages /\ bytes <= MaxTotalBytes
        /\ taken + skipped = old.taken + old.skipped + 1
    <3> HIDE DEF file, ok, old
    <3> QED BY <1>2, <2>5, <2>6
  <2>8. pc \in {"model", "images"} /\ (pc = "images" => taken + skipped < Len(m.files))
    <3> HIDE DEF taken, skipped, old
    <3> QED BY <1>2, <2>2, <2>4, <2>7
  <2> HIDE DEF pc, taken, skipped, bytes
  <2>9. /\ d \in Delivery /\ d.pc = pc /\ d.heard = old.heard /\ d.taken = taken /\ d.bytes = bytes
        /\ d.skipped = skipped
    BY <1>1, <2>7, <2>8 DEF Delivery, SlackPcs, Working
  <2> HIDE DEF d, old
  <2>10. d.pc \in Working \ {"context"} /\ old.pc \in Working
    BY <2>1, <2>8, <2>9 DEF Working
  <2> QED BY <1>3, <2>1, <2>7, <2>8, <2>9, <2>10
\* A turn of the tool loop.
<1>6. ASSUME NEW d \in Delivery, delivery' = [delivery EXCEPT ![m][k] = d], UNCHANGED <<posted, answers, lostAcks>>,
             old.pc \in {"model", "tools"}, d.pc \in {"model", "tools", "reply"}, d.heard = old.heard,
             d.taken = old.taken, d.bytes = old.bytes
      PROVE  SlackInv'
  <2>1. d.pc \in Working \ {"context"} /\ d.pc # "images" /\ old.pc \in Working
    BY <1>6 DEF Working
  <2> HIDE DEF old
  <2>2. d.taken <= MaxImages /\ d.bytes <= MaxTotalBytes
    BY <1>2, <1>6
  <2> QED BY <1>3, <1>6, <2>1, <2>2
<1>7. CASE RunTools(m, k)
  <2> DEFINE n == old.iteration + 1
             d == [old EXCEPT !.pc = "model", !.iteration = n]
  <2>1. /\ old.pc = "tools" /\ delivery' = [delivery EXCEPT ![m][k] = d]
        /\ UNCHANGED <<posted, answers, lostAcks>>
    BY <1>7 DEF RunTools, At, Become, NextIteration
  <2>2. n \in Nat
    BY <1>2, OneMore, Zenon
  <2> HIDE DEF n
  <2>3. d \in Delivery /\ d.pc = "model" /\ d.heard = old.heard /\ d.taken = old.taken /\ d.bytes = old.bytes
    BY <1>1, <2>2 DEF Delivery, SlackPcs, Working
  <2> HIDE DEF d, old
  <2> QED BY <1>6, <2>1, <2>3
<1>8. ASSUME NEW turn \in {"tools", "answer", "prompt", "apology"}, AskClaude(m, k, turn) PROVE SlackInv'
  <2> DEFINE asks == [old EXCEPT !.pc = "tools"]
             says == [old EXCEPT !.pc = "reply", !.text = turn]
  <2>1. CASE turn = "tools"
    <3>1. /\ old.pc = "model" /\ delivery' = [delivery EXCEPT ![m][k] = asks]
          /\ UNCHANGED <<posted, answers, lostAcks>>
      BY <1>8, <2>1 DEF AskClaude, Become
    <3>2. asks \in Delivery /\ asks.pc = "tools" /\ asks.heard = old.heard /\ asks.taken = old.taken /\ asks.bytes = old.bytes
      BY <1>1 DEF Delivery, SlackPcs, Working
    <3> HIDE DEF asks, old
    <3> QED BY <1>6, <3>1, <3>2
  <2>2. CASE turn \in {"answer", "prompt", "apology"}
    <3>1. /\ old.pc = "model" /\ delivery' = [delivery EXCEPT ![m][k] = says]
          /\ UNCHANGED <<posted, answers, lostAcks>>
      BY <1>8, <2>2 DEF AskClaude, Become
    <3>2. says \in Delivery /\ says.pc = "reply" /\ says.heard = old.heard /\ says.taken = old.taken /\ says.bytes = old.bytes
      BY <1>1, <2>2 DEF Delivery, SlackPcs, Working
    <3> HIDE DEF says, old
    <3> QED BY <1>6, <3>1, <3>2
  <2> QED BY <2>1, <2>2
<1> QED BY <1>4, <1>5, <1>7, <1>8

LEMMA PostToSlackKeeps ==
    ASSUME SlackInv, NEW m \in SlackMessages, NEW k \in Slots, NEW works \in BOOLEAN, PostToSlack(m, k, works)
    PROVE  SlackInv'
<1> DEFINE old == delivery[m][k]
           text == IF works THEN old.text ELSE "unsaid"
           d == [Over(old, "done") EXCEPT !.text = text]
<1>1. old \in Delivery /\ DeliveryOK(m, old, answers[m]) /\ old.pc = "reply"
  BY DeliveryFacts DEF PostToSlack, At
<1>2. m.bot = FALSE /\ old.heard # "waiting" /\ m \in posted /\ \A i \in Slots : i < k => delivery[m][i].heard = "failed"
  BY <1>1, DeliveryFacts DEF DeliveryOK, Working
<1>3. text \in {"none", "hint", "answer", "prompt", "apology", "unsaid"} /\ (~works => text = "unsaid")
  BY <1>1 DEF Delivery
<1>4. delivery' = [delivery EXCEPT ![m][k] = d] /\ UNCHANGED <<posted, lostAcks>>
  <2>1. Over(old, "done").text = old.text
    BY <1>1 DEF Over, Delivery
  <2>2. [Over(old, "done") EXCEPT !.text = IF works THEN @ ELSE "unsaid"] = d
    BY <2>1
  <2> QED BY <2>2 DEF PostToSlack
<1> HIDE DEF text
<1>5. d \in Delivery /\ d.pc = "done" /\ d.heard = old.heard /\ d.taken = 0 /\ d.bytes = 0 /\ d.text = text
  BY <1>1, <1>3 DEF Over, Delivery, SlackPcs, Working
<1>6. /\ answers' \in [SlackMessages -> Nat] /\ answers'[m] = (IF works THEN answers[m] + 1 ELSE answers[m])
      /\ \A x \in SlackMessages \ {m} : answers'[x] = answers[x]
  BY DeliveryFacts DEF PostToSlack
<1>7. answers[m] <= answers'[m] /\ (works => answers'[m] > 0)
  BY <1>6, DeliveryFacts
<1> HIDE DEF d, old
<1>8. DeliveryOK(m, d, answers'[m])
  BY <1>2, <1>3, <1>5, <1>7, SlackLimits DEF DeliveryOK, Working
<1>9. AckIsLost(d) <=> AckIsLost(old)
  BY <1>1, <1>5 DEF AckIsLost
<1>10. delivery[m][k] = old
  BY DEF old
<1>11. lostAcks' \in [SlackMessages -> Nat] /\ lostAcks' = lostAcks /\ lostAcks[m] <= lostAcks'[m]
  BY <1>4, DeliveryFacts
<1> QED BY <1>1, <1>2, <1>4, <1>5, <1>6, <1>7, <1>8, <1>9, <1>10, <1>11, DeliveryMoves

LEMMA RestartKeeps == ASSUME SlackInv, Restart PROVE SlackInv'
<1> DEFINE After(d) == IF d.pc \in Working THEN Over(d, "killed") ELSE d
<1>1. delivery' = [m \in SlackMessages |-> [k \in Slots |-> After(delivery[m][k])]]
      /\ UNCHANGED <<posted, answers, lostAcks>>
  BY DEF Restart
<1>2. ASSUME NEW m \in SlackMessages, NEW k \in Slots
      PROVE  LET old == delivery[m][k]  d == delivery'[m][k]
             IN  /\ d = After(old) /\ d \in Delivery /\ DeliveryOK(m, d, answers[m]) /\ d.heard = old.heard
                 /\ d.pc = "unsent" <=> old.pc = "unsent"
                 /\ d.pc = "done" <=> old.pc = "done" 
                 /\ AckIsLost(d) <=> AckIsLost(old)
  <2> DEFINE old == delivery[m][k]  d == delivery'[m][k]
  <2>1. old \in Delivery /\ DeliveryOK(m, old, answers[m]) /\ d = After(old)
    BY <1>1, DeliveryFacts
  <2> HIDE DEF d, old
  <2>2. CASE old.pc \in Working
    <3>1. d = Over(old, "killed")
      BY <2>1, <2>2
    <3>2. d \in Delivery /\ d.pc = "killed" /\ d.heard = old.heard /\ d.taken = 0 /\ d.bytes = 0
      <4>1. LET e == Over(old, "killed")
            IN  e \in Delivery /\ e.pc = "killed" /\ e.heard = old.heard /\ e.taken = 0 /\ e.bytes = 0
        BY <2>1 DEF Over, Delivery, SlackPcs, Working
      <4> QED BY <3>1, <4>1
    <3>3. DeliveryOK(m, d, answers[m])
      BY <2>1, <2>2, <3>2, SlackLimits DEF DeliveryOK, Working
    <3>4. AckIsLost(d) <=> AckIsLost(old)
      BY <2>2, <3>2 DEF AckIsLost, Working
    <3> QED BY <2>1, <2>2, <3>2, <3>3, <3>4 DEF d, old, Working
  <2>3. CASE old.pc \notin Working
    BY <2>1, <2>3 DEF d, old
  <2> QED BY <2>2, <2>3
<1> HIDE DEF After
<1>3. SlackShape'
  <2>1. delivery' \in [SlackMessages -> [Slots -> Delivery]]
    BY <1>1, <1>2
  <2> QED BY <1>1, <2>1 DEF SlackInv, SlackShape
<1>4. DeliveriesOK'
  <2>1. \A m \in SlackMessages, k \in Slots : DeliveryOK(m, delivery'[m][k], answers'[m])
    BY <1>1, <1>2
  <2> QED BY <2>1 DEF DeliveriesOK, DeliveryOK
<1>5. SentInTurn'
  BY <1>1, <1>2 DEF SlackInv, SentInTurn
<1>6. PostsAreCounted'
  <2>1. ASSUME NEW m \in SlackMessages PROVE DoneOf(m)' = DoneOf(m) /\ LostOf(m)' = LostOf(m)
    <3>1. LostOf(m)' = {i \in Slots : AckIsLost(delivery'[m][i])}
      BY DEF LostOf, AckIsLost
    <3> QED BY <1>2, <3>1 DEF DoneOf, LostOf
  <2>2. \A m \in SlackMessages : answers'[m] <= Cardinality(DoneOf(m)') /\ Cardinality(LostOf(m)') <= lostAcks'[m]
    BY <1>1, <2>1 DEF SlackInv, PostsAreCounted
  <2> QED BY <2>2 DEF PostsAreCounted
<1> QED BY <1>3, <1>4, <1>5, <1>6 DEF SlackInv

LEMMA SlackSteps == SlackInv /\ [SlackNext]_slackVars => SlackInv'
<1> SUFFICES ASSUME SlackInv, [SlackNext]_slackVars PROVE SlackInv'
  OBVIOUS
<1>1. CASE UNCHANGED slackVars
  <2>1. UNCHANGED <<posted, delivery, answers, lostAcks>>
    BY <1>1 DEF slackVars
  <2>2. SlackShape' /\ SentInTurn'
    BY <2>1 DEF SlackInv, SlackShape, SentInTurn
  <2>3. DeliveriesOK'
    BY <2>1 DEF SlackInv, DeliveriesOK, DeliveryOK
  <2>4. \A m \in SlackMessages : DoneOf(m)' = DoneOf(m) /\ LostOf(m)' = LostOf(m)
    BY <2>1 DEF DoneOf, LostOf, AckIsLost
  <2>5. PostsAreCounted'
    BY <2>1, <2>4 DEF SlackInv, PostsAreCounted
  <2> QED BY <2>2, <2>3, <2>5 DEF SlackInv
<1>2. CASE \E m \in SlackMessages : Post(m)
  BY <1>2, SendingKeeps, SlackLimits DEF Slots
<1>3. CASE Restart
  BY <1>3, RestartKeeps
<1>4. ASSUME NEW m \in SlackMessages, NEW k \in Slots,
             \/ SlackGivesUp(m, k) \/ Redeliver(m, k) \/ Handle(m, k)
             \/ \E why \in Rejects : Reject(m, k, why)
             \/ \E lost \in BOOLEAN : ReceiveSlackWebhook(m, k, lost)
      PROVE  SlackInv'
  BY <1>4, SendingKeeps, LandingKeeps, HandlingKeeps, PostToSlackKeeps DEF Handle
<1> QED BY <1>1, <1>2, <1>3, <1>4 DEF SlackNext

LEMMA SlackHolds == AssistantSpec => []SlackInv
<1>1. AssistantInit => SlackInv
  BY SlackStarts DEF AssistantInit
<1>2. SlackInv /\ [AssistantNext]_assistantVars => SlackInv'
  BY SlackSteps, StepsApart
<1> QED BY <1>1, <1>2, PTL DEF AssistantSpec

(* A message is answered once, and again only for an acknowledgement the   *)
(* network lost, however often Slack delivers, the daemon restarts and     *)
(* posts fail; and the bot never answers itself (src/api/server.ts,        *)
(* receiveSlackWebhook, and src/adapters/slack/events.ts, isSelfEvent).    *)
THEOREM AnswersAreCounted == AssistantSpec => []AnsweredOnce
<1>1. ASSUME SlackInv PROVE AnsweredOnce
  <2> SUFFICES ASSUME NEW m \in SlackMessages
               PROVE  IF m.bot THEN answers[m] <= 0 ELSE answers[m] <= 1 + lostAcks[m]
    BY DEF AnsweredOnce
  <2>1. /\ answers[m] \in Nat /\ lostAcks[m] \in Nat
        /\ answers[m] <= Cardinality(DoneOf(m)) /\ Cardinality(LostOf(m)) <= lostAcks[m]
    BY <1>1 DEF SlackInv, SlackShape, PostsAreCounted
  <2>2. CASE m.bot
    <3>1. DoneOf(m) = {}
      BY <1>1, <2>2 DEF SlackInv, DeliveriesOK, DeliveryOK, DoneOf
    <3> QED BY <2>1, <2>2, <3>1, FS_EmptySet
  <2>3. CASE ~m.bot
    <3> DEFINE acked == {k \in Slots : delivery[m][k].heard = "acked"}
    <3>1. DoneOf(m) \subseteq LostOf(m) \union acked
      BY <1>1 DEF SlackInv, SlackShape, DeliveriesOK, DeliveryOK, DoneOf, LostOf, AckIsLost, Delivery
    <3>2. ASSUME NEW i \in acked, NEW k \in acked PROVE i = k
      <4>1. delivery[m][i].pc # "unsent" /\ delivery[m][k].pc # "unsent"
        BY <1>1 DEF SlackInv, DeliveriesOK, DeliveryOK
      <4>2. ~(i < k) /\ ~(k < i)
        BY <1>1, <4>1 DEF SlackInv, SentInTurn
      <4> QED BY <4>2 DEF Slots
    <3>3. \E k \in Slots : DoneOf(m) \subseteq LostOf(m) \union {k}
      <4>1. CASE acked = {}
        <5>1. 1 \in Slots
          BY SlackLimits DEF Slots
        <5> QED BY <3>1, <4>1, <5>1
      <4>2. ASSUME NEW k \in acked PROVE acked = {k}
        BY <3>2
      <4>3. CASE acked # {}
        <5>1. PICK k \in acked : TRUE
          BY <4>3
        <5>2. acked = {k} /\ k \in Slots
          BY <4>2
        <5> QED BY <3>1, <5>2
      <4> QED BY <4>1, <4>3
    <3>4. PICK k \in Slots : DoneOf(m) \subseteq LostOf(m) \union {k}
      BY <3>3
    <3>5. /\ LostOf(m) \in SUBSET Slots /\ LostOf(m) \union {k} \in SUBSET Slots
          /\ DoneOf(m) \in SUBSET (LostOf(m) \union {k})
      BY <3>4 DEF LostOf
    <3>6. /\ IsFiniteSet(LostOf(m)) /\ Cardinality(LostOf(m)) \in Nat
          /\ IsFiniteSet(LostOf(m) \union {k}) /\ Cardinality(LostOf(m) \union {k}) \in Nat
      BY <3>5, SlotsFinite
    <3>7. Cardinality(DoneOf(m)) <= Cardinality(LostOf(m) \union {k})
      BY <3>5, <3>6, FS_Subset
    <3>8. Cardinality(LostOf(m) \union {k}) <= Cardinality(LostOf(m)) + 1
      BY <3>6, FS_AddElement
    <3>9. Cardinality(DoneOf(m)) \in Nat
      BY SlotsFinite DEF DoneOf
    <3> QED BY <2>1, <2>3, <3>6, <3>7, <3>8, <3>9
  <2> QED BY <2>2, <2>3
<1> QED BY <1>1, SlackHolds, PTL

(* What a person asks and the webhook acknowledged is not dropped in       *)
(* silence (src/adapters/slack/events.ts, handleSlackEvent and respond).   *)
THEOREM AckedAreAnswered == AssistantSpec => []AckedIsAnswered
<1>1. ASSUME SlackInv PROVE AckedIsAnswered
  <2> SUFFICES ASSUME NEW m \in SlackMessages, NEW k \in Slots,
                      delivery[m][k].heard = "acked", ~m.bot,
                      m.event = "app_mention" \/ (m.event = "im" /\ m.subtype = "none" /\ m.text)
               PROVE  \/ delivery[m][k].pc \in Working \union {"killed"}
                      \/ delivery[m][k].pc = "done" /\ (delivery[m][k].text = "unsaid" \/ answers[m] > 0)
    BY DEF AckedIsAnswered
  <2>1. delivery[m][k].pc \in SlackPcs /\ DeliveryOK(m, delivery[m][k], answers[m])
    BY <1>1, DeliveryFacts DEF Delivery
  <2>2. Dispatch(m) # "dropped"
    BY DEF Dispatch, IsSelfEvent, AnswersDM
  <2> QED BY <2>1, <2>2 DEF DeliveryOK, SlackPcs
<1> QED BY <1>1, SlackHolds, PTL

(* Claude is never sent more or larger images than it takes, whatever      *)
(* Slack announces (src/adapters/slack/events.ts, ingestSlackImages).      *)
THEOREM ImagesAlwaysFit == AssistantSpec => []ImagesFit
<1>1. SlackInv => ImagesFit
  BY DEF SlackInv, DeliveriesOK, DeliveryOK, ImagesFit
<1> QED BY <1>1, SlackHolds, PTL

-----------------------------------------------------------------------------
(* Types. Most are part of the invariants above; what is left are the      *)
(* bounds: a task's stage and attempt, a call's rows and attempts, a       *)
(* delivery's turns of the tool loop and the counts of posts.              *)

\* Work is at a stage of the workflow or one behind the last; what waits at
\* the gate is at one, so passing the gate leads one behind the last at most.
AtStage(e) ==
    /\ e.at \in 1 .. (Len(McStages) + 1) /\ e.attempt \in 1 .. McMaxAttempts
    /\ e.pc \in {"gate", "asked", "wait"} => e.at <= Len(McStages)

McTyped ==
    /\ runningTaskIds \subseteq McTasks /\ \A t \in runningTaskIds : exec[t].pc # "rest"
    /\ \A t \in McTasks : AtStage(exec[t])

LEMMA StagesAreCounted == Len(McStages) \in Nat /\ McMaxAttempts \in Nat /\ McMaxAttempts >= 1 /\ AtStage(McRest)
<1>1. Len(McStages) \in Nat /\ McMaxAttempts \in Nat /\ McMaxAttempts >= 1
  BY McAssumption
<1> QED BY <1>1 DEF AtStage, McRest

\* A step that gives one task the work e, which is not at rest if it runs.
LEMMA TypedWorkMoves ==
    ASSUME McShape, McTyped, NEW t \in McTasks, NEW e, AtStage(e),
           exec' = [exec EXCEPT ![t] = e],
           runningTaskIds' \subseteq runningTaskIds \union {t},
           t \in runningTaskIds' => e.pc # "rest"
    PROVE  McTyped'
<1>1. exec'[t] = e /\ \A s \in McTasks \ {t} : exec'[s] = exec[s]
  BY DEF McShape
<1>2. \A s \in McTasks : AtStage(exec'[s])
  BY <1>1 DEF McTyped
<1>3. (\A s \in McTasks : AtStage(exec[s]))'
  BY <1>2 DEF AtStage
<1> QED BY <1>1, <1>3 DEF McTyped

LEMMA McStaysTyped == ASSUME McInv, McTyped, [McNext]_mcVars PROVE McTyped'
<1>1. McShape /\ WaitsAreRun
  BY DEF McInv
<1>2. \A t \in McTasks : exec[t] \in McWork /\ AtStage(exec[t])
  BY <1>1 DEF McShape, McTyped
<1>3. ASSUME UNCHANGED <<exec, runningTaskIds>> PROVE McTyped'
  BY <1>3 DEF McTyped, AtStage
<1>4. ASSUME NEW t \in McTasks, Return(t) PROVE McTyped'
  BY <1>1, <1>4, TypedWorkMoves, StagesAreCounted DEF Return, McTyped
<1>5. ASSUME NEW t \in McTasks, NEW pc \in McStates \ {"rest"}, Step(t, pc), runningTaskIds' = runningTaskIds,
             pc \in {"gate", "asked", "wait"} => exec[t].at <= Len(McStages)
      PROVE  McTyped'
  <2> DEFINE e == [exec[t] EXCEPT !.pc = pc]
  <2>1. e.at = exec[t].at /\ e.attempt = exec[t].attempt /\ e.pc = pc
    BY <1>2 DEF McWork
  <2>2. AtStage(e) /\ exec' = [exec EXCEPT ![t] = e]
    BY <1>2, <1>5, <2>1 DEF AtStage, Step
  <2> QED BY <1>1, <1>5, <2>1, <2>2, TypedWorkMoves
<1>6. ASSUME NEW t \in McTasks, NEW approved \in BOOLEAN, Resolve(t, approved), exec[t].pc = "wait",
             runningTaskIds' = runningTaskIds
      PROVE  McTyped'
  <2>1. CASE ~approved
    BY <1>5, <1>6, <2>1 DEF Resolve, Step, McStates
  <2>2. CASE approved
    <3> DEFINE e == [[exec[t] EXCEPT !.pc = "run"] EXCEPT !.at = exec[t].at + 1]
    <3>1. exec' = [exec EXCEPT ![t] = e]
      BY <1>2, <1>6, <2>2 DEF Resolve, McWork
    <3>2. e.at = exec[t].at + 1 /\ e.attempt = exec[t].attempt /\ e.pc = "run"
      BY <1>2 DEF McWork
    <3>3. AtStage(e)
      BY <1>2, <1>6, <3>2, StagesAreCounted DEF AtStage
    <3> QED BY <1>1, <1>6, <3>1, <3>2, <3>3, TypedWorkMoves
  <2> QED BY <2>1, <2>2
<1>7. ASSUME NEW t \in McTasks, NEW ok \in BOOLEAN, RunStage(t, ok) PROVE McTyped'
  <2> DEFINE again == [exec[t] EXCEPT !.attempt = @ + 1]
             gate == [[exec[t] EXCEPT !.pc = "gate"] EXCEPT !.attempt = 1]
             next == [[exec[t] EXCEPT !.at = exec[t].at + 1] EXCEPT !.attempt = 1]
  <2>1. exec[t].pc = "run" /\ exec[t].at <= Len(McStages)
    BY <1>7 DEF RunStage
  <2>2. /\ again.at = exec[t].at /\ again.attempt = exec[t].attempt + 1 /\ again.pc = "run"
        /\ gate.at = exec[t].at /\ gate.attempt = 1 /\ gate.pc = "gate"
        /\ next.at = exec[t].at + 1 /\ next.attempt = 1 /\ next.pc = "run"
    BY <1>2, <2>1 DEF McWork
  <2>3. AtStage(gate) /\ AtStage(next) /\ (exec[t].attempt < McMaxAttempts => AtStage(again))
    BY <1>2, <2>1, <2>2, StagesAreCounted DEF AtStage
  <2>4. \/ exec[t].attempt < McMaxAttempts /\ exec' = [exec EXCEPT ![t] = again] /\ UNCHANGED runningTaskIds
        \/ exec' = [exec EXCEPT ![t] = gate] /\ UNCHANGED runningTaskIds
        \/ exec' = [exec EXCEPT ![t] = next] /\ UNCHANGED runningTaskIds
        \/ Return(t)
    BY <1>7 DEF RunStage
  <2> HIDE DEF again, gate, next
  <2> QED BY <1>1, <1>4, <2>2, <2>3, <2>4, TypedWorkMoves
<1>8. ASSUME NEW a \in polled, CheckQueue(a) PROVE McTyped'
  <2> DEFINE e == [McRest EXCEPT !.pc = "begin", !.knew = a.resolved]
  <2>1. a.task \in McTasks
    BY <1>1 DEF McShape
  <2>2. AtStage(e) /\ e.pc = "begin"
    BY StagesAreCounted DEF AtStage, McRest
  <2> QED BY <1>1, <1>3, <1>8, <2>1, <2>2, TypedWorkMoves DEF CheckQueue
<1>9. ASSUME McWorkerDies PROVE McTyped'
  <2>1. \A t \in McTasks : exec'[t] = McRest
    BY <1>9 DEF McWorkerDies
  <2>2. (\A t \in McTasks : AtStage(exec[t]))'
    BY <2>1, StagesAreCounted DEF AtStage
  <2> QED BY <1>9, <2>2 DEF McWorkerDies, McTyped
<1>10. ASSUME NEW t \in McTasks, BeginTask(t) \/ SubmitAegisApproval(t) \/ SetDone(t) \/ NotApproved(t)
       PROVE  McTyped'
  <2>1. Return(t) \/ (UNCHANGED runningTaskIds /\ (Step(t, "run") \/ Step(t, "close")))
    BY <1>10 DEF BeginTask, SubmitAegisApproval, SetDone, NotApproved
  <2> QED BY <1>4, <1>5, <2>1 DEF McStates
<1>11. ASSUME NEW t \in McTasks, ReachGate(t) \/ WaitForApproval(t) \/ AllStagesDone(t) PROVE McTyped'
  <2>1. /\ UNCHANGED runningTaskIds
        /\ \/ exec[t].pc \in {"gate", "asked"} /\ (Step(t, "asked") \/ Step(t, "wait"))
           \/ Step(t, "review")
    BY <1>11 DEF ReachGate, WaitForApproval, AllStagesDone
  <2> QED BY <1>2, <1>5, <2>1 DEF McStates, AtStage
<1>12. ASSUME NEW t \in McTasks, ApprovalTimesOut(t) PROVE McTyped'
  BY <1>1, <1>6, <1>12 DEF ApprovalTimesOut, SilenceMeans, WaitsAreRun
<1>13. ASSUME NEW w \in webhooks, NotifyApproval(w) PROVE McTyped'
  <2>1. w.task \in McTasks /\ w.approved \in BOOLEAN
    BY <1>1 DEF McShape
  <2> QED BY <1>1, <1>3, <1>6, <1>13, <2>1 DEF NotifyApproval, WaitsAreRun
<1>14. CASE UNCHANGED mcVars
  BY <1>3, <1>14 DEF mcVars
<1>15. ASSUME NEW t \in McTasks,
              \/ CreateTask(t) \/ McAnswersPoll(t) \/ ResolutionArrives(t)
              \/ \E approved \in BOOLEAN : HumanDecides(t, approved)
       PROVE  McTyped'
  BY <1>3, <1>15 DEF CreateTask, McAnswersPoll, ResolutionArrives, HumanDecides
<1> QED
  BY <1>7, <1>8, <1>9, <1>10, <1>11, <1>12, <1>13, <1>14, <1>15 DEF McNext

LEMMA McIsTyped == ASSUME McInv, McTyped PROVE McTypeOK
<1>1. ASSUME NEW t \in McTasks
      PROVE  /\ task[t].status \in McStatuses /\ exec[t].pc \in McStates
             /\ exec[t].at \in 1 .. Len(McStages) + 1 /\ exec[t].attempt \in 1 .. McMaxAttempts
  <2>1. task[t] \in [status : McStatuses, resolved : BOOLEAN] /\ exec[t] \in McWork /\ AtStage(exec[t])
    BY DEF McInv, McShape, McTyped
  <2> QED BY <2>1 DEF McWork, AtStage
<1>2. approvalCallbacks \subseteq runningTaskIds
  BY DEF McInv, McShape, WaitsAreRun
<1> QED BY <1>1, <1>2 DEF McTypeOK, McTyped, McStatuses, McStates

\* A call has written less often than it tried while it goes on.
CallTyped(r, w) ==
    /\ r.plan \in Plans /\ r.rows <= MaxSource /\ r.tries \in 1 .. ToolAttempts
    /\ w <= r.tries /\ (r.pc \in LivePcs => w < r.tries)

ToolsTyped ==
    /\ source <= MaxSource /\ (helperCache = NoRows \/ helperCache <= MaxSource)
    /\ \A c \in ToolCallers : CallTyped(call[c], written[c])

LEMMA TypedCallMoves ==
    ASSUME ToolInv, ToolsTyped, NEW c \in ToolCallers, NEW e, NEW w, CallTyped(e, w),
           call' = [call EXCEPT ![c] = e], written' = [written EXCEPT ![c] = w], source' = source,
           helperCache' = NoRows \/ helperCache' <= MaxSource
    PROVE  ToolsTyped'
<1>1. call'[c] = e /\ written'[c] = w
      /\ \A d \in ToolCallers \ {c} : call'[d] = call[d] /\ written'[d] = written[d]
  BY DEF ToolInv
<1>2. \A d \in ToolCallers : CallTyped(call'[d], written'[d])
  BY <1>1 DEF ToolsTyped
<1>3. (\A d \in ToolCallers : CallTyped(call[d], written[d]))'
  BY <1>2 DEF CallTyped
<1> QED BY <1>3 DEF ToolsTyped, NoRows

\* A step that writes nothing and takes no further attempt.
LEMMA TypedCallGoesOn ==
    ASSUME ToolInv, ToolsTyped, NEW c \in ToolCallers, NEW e,
           call' = [call EXCEPT ![c] = e], UNCHANGED <<source, written>>,
           e.plan = call[c].plan, e.tries = call[c].tries, e.rows <= MaxSource,
           e.pc \in LivePcs => call[c].pc \in LivePcs,
           helperCache' = NoRows \/ helperCache' <= MaxSource
    PROVE  ToolsTyped'
<1>1. CallTyped(e, written[c])
  BY DEF ToolsTyped, CallTyped
<1>2. written' = [written EXCEPT ![c] = written[c]]
  BY DEF ToolInv
<1> QED BY <1>1, <1>2, TypedCallMoves

\* A call that ends with what r holds.
LEMMA TypedCallEnds ==
    ASSUME ToolInv, ToolsTyped, NEW c \in ToolCallers, NEW r \in ToolCall, NEW ok \in BOOLEAN,
           call' = [call EXCEPT ![c] = Ended(r, ok)], UNCHANGED <<source, written>>,
           r.plan = call[c].plan, r.tries = call[c].tries, r.rows <= MaxSource,
           helperCache' = NoRows \/ helperCache' <= MaxSource
    PROVE  ToolsTyped'
<1> DEFINE e == Ended(r, ok)
<1>1. e.plan = r.plan /\ e.tries = r.tries /\ e.rows = r.rows /\ e.pc \notin LivePcs
  BY DEF Ended, ToolCall, AuditOrAnswer, LivePcs
<1> HIDE DEF e
<1>2. call' = [call EXCEPT ![c] = e]
  BY DEF e
<1> QED BY <1>1, <1>2, TypedCallGoesOn

\* Cutting keeps the plan and the attempts, and adds no rows.
LEMMA CutRowsAreFewer ==
    ASSUME NEW r \in ToolCall
    PROVE  CutRows(r).plan = r.plan /\ CutRows(r).tries = r.tries /\ CutRows(r).rows <= r.rows
<1> DEFINE k == IF r.plan.flag = "never" THEN r.rows ELSE AtMost(r.rows, RowCap)
<1>1. r.rows \in Nat /\ RowCap \in Nat
  BY ToolSizes DEF ToolCall
<1>2. k <= r.rows
  BY <1>1, AtMostIsLess
<1> HIDE DEF k
<1>3. CutRows(r) = [r EXCEPT !.partial = Partial(r), !.rows = k]
  BY DEF CutRows, k
<1>4. CutRows(r).plan = r.plan /\ CutRows(r).tries = r.tries /\ CutRows(r).rows = k
  BY <1>3 DEF ToolCall
<1> QED BY <1>2, <1>4

\* An attempt at a write, after which the call is over or tries once more.
LEMMA TypedWrite ==
    ASSUME NEW r, NEW n \in Nat, CallTyped(r, n), r.pc \in LivePcs,
           NEW w, w \in {n, n + 1},
           NEW e, e.plan = r.plan, e.rows = r.rows,
           \/ e.tries = r.tries /\ e.pc \notin LivePcs
           \/ r.tries < Attempts(r.plan) /\ e.tries = r.tries + 1
    PROVE  CallTyped(e, w)
<1>1. ToolAttempts \in Nat /\ ToolAttempts >= 1 /\ Attempts(r.plan) \in {1, ToolAttempts}
  <2>1. Attempts(r.plan) \in {1, ToolAttempts}
    BY DEF Attempts
  <2>2. ToolAttempts \in Nat /\ ToolAttempts >= 1
    BY ToolSizes
  <2> QED BY <2>1, <2>2
<1>2. r.tries \in Nat /\ r.tries >= 1 /\ r.tries <= ToolAttempts /\ n < r.tries
  BY <1>1 DEF CallTyped
<1>3. w <= r.tries
  BY <1>2
<1>4. e.tries \in 1 .. ToolAttempts /\ w <= e.tries /\ (e.pc \in LivePcs => w < e.tries)
  BY <1>1, <1>2, <1>3
<1> QED BY <1>4 DEF CallTyped

LEMMA ToolsStayTyped == ASSUME ToolInv, ToolsTyped, [ToolsNext]_toolVars PROVE ToolsTyped'
<1>0. /\ source \in Nat /\ source <= MaxSource /\ MaxSource \in Nat /\ ToolAttempts \in Nat /\ ToolAttempts >= 1
      /\ helperCache = NoRows \/ helperCache <= MaxSource
  BY ToolSizes DEF ToolInv, ToolsTyped
<1>1. ASSUME NEW c \in ToolCallers
      PROVE  /\ call[c] \in ToolCall /\ SoundPlan(call[c].plan) /\ CallTyped(call[c], written[c])
             /\ call[c].rows \in Nat /\ call[c].rows <= MaxSource /\ call[c].tries \in Nat /\ written[c] \in Nat
             /\ LiveOK(call[c], source, written[c])
  BY DEF ToolInv, CallOK, CallShape, ToolCall, ToolsTyped, CallTyped
<1>2. ASSUME UNCHANGED <<call, written>>, source' <= MaxSource,
             helperCache' = NoRows \/ helperCache' <= MaxSource
      PROVE  ToolsTyped'
  BY <1>2 DEF ToolsTyped, CallTyped, NoRows
<1>3. CASE UNCHANGED toolVars \/ SourceGrows \/ HelperCacheExpires
  BY <1>0, <1>2, <1>3 DEF toolVars, SourceGrows, HelperCacheExpires
<1>4. ASSUME NEW c \in ToolCallers, NEW p \in Plans, CallTool(c, p) PROVE ToolsTyped'
  <2>1. CallTyped(NewCall(p), 0)
    BY <1>0 DEF CallTyped, NewCall
  <2> QED BY <1>0, <1>4, <2>1, TypedCallMoves DEF CallTool
<1>5. ASSUME NEW c \in ToolCallers, NEW pc, call' = [call EXCEPT ![c].pc = pc], call[c].pc \in LivePcs,
             UNCHANGED <<source, helperCache, written>>
      PROVE  ToolsTyped'
  <2> DEFINE e == [call[c] EXCEPT !.pc = pc]
  <2>1. e.plan = call[c].plan /\ e.tries = call[c].tries /\ e.rows = call[c].rows
    BY <1>1 DEF ToolCall
  <2> QED BY <1>0, <1>1, <1>5, <2>1, TypedCallGoesOn
<1>6. ASSUME NEW c \in ToolCallers, Refuse(c) \/ Answer(c, call[c]), UNCHANGED <<source, helperCache, written>>
      PROVE  ToolsTyped'
  <2>1. PICK ok \in BOOLEAN : call' = [call EXCEPT ![c] = Ended(call[c], ok)]
    BY <1>6 DEF Refuse, Answer, Ended
  <2> QED BY <1>0, <1>1, <1>6, <2>1, TypedCallEnds
<1>7. ASSUME NEW c \in ToolCallers, NEW valid \in BOOLEAN, CheckInput(c, valid) PROVE ToolsTyped'
  <2>1. UNCHANGED <<source, helperCache, written>> /\ call[c].pc \in LivePcs
    BY <1>7 DEF CheckInput, LivePcs
  <2>2. CASE /\ helperCache # NoRows
             /\ Answer(c, [call[c] EXCEPT !.rows = helperCache, !.asked = helperCache])
    <3> DEFINE r == [call[c] EXCEPT !.rows = helperCache, !.asked = helperCache]
    <3>1. helperCache \in Nat /\ helperCache <= MaxSource
      BY <1>0, <2>2 DEF ToolInv
    <3>2. r \in ToolCall /\ r.plan = call[c].plan /\ r.tries = call[c].tries /\ r.rows = helperCache
      BY <1>1, <3>1 DEF ToolCall
    <3>3. call' = [call EXCEPT ![c] = Ended(r, TRUE)]
      BY <2>2 DEF Answer, Ended
    <3> HIDE DEF r
    <3> QED BY <1>0, <2>1, <3>1, <3>2, <3>3, TypedCallEnds
  <2>3. \/ Refuse(c) \/ Answer(c, call[c])
        \/ /\ helperCache # NoRows
           /\ Answer(c, [call[c] EXCEPT !.rows = helperCache, !.asked = helperCache])
        \/ \E pc : call' = [call EXCEPT ![c].pc = pc]
    BY <1>7 DEF CheckInput
  <2> QED BY <1>5, <1>6, <2>1, <2>2, <2>3
<1>8. ASSUME NEW c \in ToolCallers, NEW works \in BOOLEAN, CountRows(c, works) \/ FetchTask(c, works)
      PROVE  ToolsTyped'
  <2>1. UNCHANGED <<source, helperCache, written>> /\ call[c].pc \in LivePcs
    BY <1>8 DEF CountRows, FetchTask, LivePcs
  <2>2. CASE call' = [call EXCEPT ![c].counted = source, ![c].pc = "page"]
    <3> DEFINE e == [[call[c] EXCEPT !.counted = source] EXCEPT !.pc = "page"]
    <3>1. e.plan = call[c].plan /\ e.tries = call[c].tries /\ e.rows = call[c].rows
      BY <1>1 DEF ToolCall
    <3>2. call' = [call EXCEPT ![c] = e]
      BY <2>2
    <3> HIDE DEF e
    <3> QED BY <1>0, <1>1, <2>1, <3>1, <3>2, TypedCallGoesOn
  <2> QED BY <1>5, <1>6, <1>8, <2>1, <2>2 DEF CountRows, FetchTask
<1>9. ASSUME NEW c \in ToolCallers, UnknownAgent(c) PROVE ToolsTyped'
  <2> DEFINE e == [[call[c] EXCEPT !.pc = "done"] EXCEPT !.unknown = TRUE]
  <2>1. e.plan = call[c].plan /\ e.tries = call[c].tries /\ e.rows = call[c].rows /\ e.pc \notin LivePcs
    BY <1>1 DEF ToolCall, LivePcs
  <2>2. call' = [call EXCEPT ![c] = e] /\ UNCHANGED <<source, helperCache, written>>
    BY <1>9 DEF UnknownAgent
  <2> HIDE DEF e
  <2> QED BY <1>0, <1>1, <2>1, <2>2, TypedCallGoesOn
<1>10. ASSUME NEW c \in ToolCallers, NEW works \in BOOLEAN, Audit(c, works) PROVE ToolsTyped'
  <2> DEFINE e == [[call[c] EXCEPT !.audits = @ + 1] EXCEPT !.pc = "done"]
  <2>1. e.plan = call[c].plan /\ e.tries = call[c].tries /\ e.rows = call[c].rows /\ e.pc \notin LivePcs
    BY <1>1 DEF ToolCall, LivePcs
  <2>2. call' = [call EXCEPT ![c] = e] /\ UNCHANGED <<source, helperCache, written>>
    BY <1>10 DEF Audit, AfterAudit
  <2> HIDE DEF e
  <2> QED BY <1>0, <1>1, <2>1, <2>2, TypedCallGoesOn
<1>11. ASSUME NEW c \in ToolCallers, NEW reply \in {"done", "refused", "busy", "cut off"}, WriteAttempt(c, reply)
       PROVE  ToolsTyped'
  <2> DEFINE r == call[c]
             seen == [r EXCEPT !.lost = IF reply = "cut off" THEN @ + 1 ELSE @]
             w == IF reply \in {"done", "cut off"} THEN written[c] + 1 ELSE written[c]
             again == [seen EXCEPT !.tries = r.tries + 1]
             ends == [seen EXCEPT !.pc = AuditOrAnswer(r)]
             answered == [[seen EXCEPT !.ok = TRUE] EXCEPT !.pc = AuditOrAnswer(seen)]
  <2>1. UNCHANGED <<source, helperCache>> /\ written' = [written EXCEPT ![c] = w] /\ r.pc \in LivePcs
    BY <1>11 DEF WriteAttempt, LivePcs
  <2>2. w \in {written[c], written[c] + 1}
    OBVIOUS
  <2>3. /\ again.plan = r.plan /\ again.tries = r.tries + 1 /\ again.rows = r.rows
        /\ ends.plan = r.plan /\ ends.tries = r.tries /\ ends.rows = r.rows /\ ends.pc \notin LivePcs
        /\ answered.plan = r.plan /\ answered.tries = r.tries /\ answered.rows = r.rows
        /\ answered.pc \notin LivePcs
    BY <1>1 DEF ToolCall, LivePcs, AuditOrAnswer
  <2>4. \/ r.tries < Attempts(r.plan) /\ call' = [call EXCEPT ![c] = again]
        \/ call' = [call EXCEPT ![c] = ends] \/ call' = [call EXCEPT ![c] = answered]
    BY <1>1, <1>11 DEF WriteAttempt, TriesAgain, Answer, ToolCall
  <2>5. CallTyped(r, written[c]) /\ written[c] \in Nat
    BY <1>1
  <2> HIDE DEF w, again, ends, answered, r
  <2>6. CallTyped(ends, w) /\ CallTyped(answered, w) /\ (r.tries < Attempts(r.plan) => CallTyped(again, w))
    BY <2>1, <2>2, <2>3, <2>5, TypedWrite, Zenon
  <2> QED BY <1>0, <2>1, <2>4, <2>6, TypedCallMoves
<1>12. ASSUME NEW c \in ToolCallers, NEW works \in BOOLEAN, ReadPage(c, works) PROVE ToolsTyped'
  <2> DEFINE r == call[c]
             n == AtMost(source - r.rows, RowsPerRequest(r.plan))
             more == [r EXCEPT !.rows = @ + n, !.pages = IF r.plan.pages = 0 THEN 0 ELSE @ + 1]
             spent == r.plan.pages # 0 /\ more.pages = r.plan.pages
             ended == LastPage(n, source - more.rows)
             short == spent /\ n = RowsPerRequest(r.plan) /\ r.plan.flag # "counted"
             last == [more EXCEPT !.short = short]
             end == CutRows(last)
  <2>1. r.pc = "page" /\ r.pc \in LivePcs /\ UNCHANGED <<source, written>>
    BY <1>12 DEF ReadPage, LivePcs
  <2>2. r.rows <= source /\ r \in ToolCall /\ r.pages \in Nat
    BY <1>1, <2>1 DEF LiveOK, LivePcs, ToolCall
  <2>3. n \in Nat /\ r.rows + n \in Nat /\ r.rows + n <= MaxSource
    <3>1. RowsPerRequest(r.plan) \in Nat /\ source - r.rows \in Nat
      BY <1>0, <1>1, <2>2, ToolSizes DEF RowsPerRequest
    <3>2. n \in Nat /\ n <= source - r.rows
      BY <3>1, AtMostIsLess
    <3> HIDE DEF n
    <3> QED BY <1>0, <1>1, <2>2, <3>2
  <2>4. CASE works
    <3>1. /\ IF ended \/ spent THEN Answer(c, end) ELSE call' = [call EXCEPT ![c] = more]
          /\ helperCache' = IF r.plan.cached /\ (ended \/ spent) THEN end.rows ELSE helperCache
      BY <1>12, <2>4 DEF ReadPage
    <3> HIDE DEF n
    <3>2. short \in BOOLEAN
      OBVIOUS
    <3>3. /\ more \in ToolCall /\ more.plan = r.plan /\ more.tries = r.tries /\ more.rows = r.rows + n
          /\ more.pc = "page"
      <4> DEFINE rows == r.rows + n  pages == IF r.plan.pages = 0 THEN 0 ELSE r.pages + 1
      <4>1. rows \in Nat /\ pages \in Nat
        BY <2>2, <2>3
      <4>2. more = [r EXCEPT !.rows = rows, !.pages = pages]
        OBVIOUS
      <4> HIDE DEF rows, pages, more, r
      <4>3. /\ more \in ToolCall /\ more.plan = r.plan /\ more.tries = r.tries /\ more.rows = rows
            /\ more.pc = "page"
        BY <2>1, <2>2, <4>1, <4>2 DEF ToolCall
      <4> QED BY <4>3 DEF rows
    <3> HIDE DEF more, short, spent, ended
    <3>4. last \in ToolCall /\ last.plan = r.plan /\ last.tries = r.tries /\ last.rows = more.rows
      BY <3>2, <3>3 DEF ToolCall
    <3>5. end.plan = r.plan /\ end.tries = r.tries /\ end.rows <= MaxSource
      <4> HIDE DEF last
      <4>1. CutRows(last).plan = last.plan /\ CutRows(last).tries = last.tries /\ CutRows(last).rows <= last.rows
        BY <3>4, CutRowsAreFewer
      <4>2. CutRows(last) \in ToolCall
        BY <1>1, <3>4, CutIsWholeOrFlagged
      <4>3. CutRows(last).rows \in Nat
        BY <4>2 DEF ToolCall
      <4>4. CutRows(last).rows <= MaxSource
        BY <1>0, <2>3, <3>3, <3>4, <4>1, <4>3
      <4> QED BY <3>4, <4>1, <4>4
    <3>6. end \in ToolCall
      <4> HIDE DEF last
      <4> QED BY <1>1, <3>4, CutIsWholeOrFlagged
    <3> HIDE DEF end, r
    <3>7. helperCache' = NoRows \/ helperCache' <= MaxSource
      BY <1>0, <3>1, <3>5
    <3>8. CASE ended \/ spent
      <4>1. call' = [call EXCEPT ![c] = Ended(end, TRUE)]
        BY <3>1, <3>8 DEF Answer, Ended
      <4> QED BY <2>1, <3>5, <3>6, <3>7, <4>1, TypedCallEnds DEF r
    <3>9. CASE ~(ended \/ spent)
      <4>1. call' = [call EXCEPT ![c] = more] /\ more.rows <= MaxSource
        BY <2>3, <3>1, <3>3, <3>9
      <4> QED BY <2>1, <3>3, <3>7, <4>1, TypedCallGoesOn DEF r
    <3> QED BY <3>8, <3>9
  <2>5. CASE ~works
    <3> DEFINE named == [r EXCEPT !.partial = TRUE]  lost == [r EXCEPT !.lost = 1]
    <3>1. /\ Refuse(c) \/ Answer(c, named) \/ Answer(c, CutRows(lost))
          /\ UNCHANGED helperCache
      <4>1. /\ CASE r.plan.failed = "error" -> Refuse(c)
                 [] r.plan.failed = "named" -> Answer(c, named)
                 [] r.plan.failed = "end" -> Answer(c, CutRows(lost))
            /\ UNCHANGED helperCache
        BY <1>12, <2>5 DEF ReadPage
      <4>2. r.plan.failed \in {"error", "named", "end"}
        BY <1>1 DEF SoundPlan, ToolPlan
      <4> QED BY <4>1, <4>2
    <3>2. /\ named \in ToolCall /\ named.plan = r.plan /\ named.tries = r.tries /\ named.rows = r.rows
          /\ lost \in ToolCall /\ lost.plan = r.plan /\ lost.tries = r.tries /\ lost.rows = r.rows
      BY <2>2 DEF ToolCall
    <3> HIDE DEF named, lost
    <3>3. /\ CutRows(lost) \in ToolCall /\ CutRows(lost).plan = r.plan /\ CutRows(lost).tries = r.tries
          /\ CutRows(lost).rows <= r.rows
      BY <1>1, <3>2, CutIsWholeOrFlagged, CutRowsAreFewer
    <3>4. CutRows(lost).rows <= MaxSource
      <4>1. CutRows(lost).rows \in Nat
        BY <3>3 DEF ToolCall
      <4> QED BY <1>0, <1>1, <3>3, <4>1
    <3>5. ASSUME NEW e \in ToolCall, Answer(c, e), e.plan = r.plan, e.tries = r.tries, e.rows <= MaxSource
          PROVE  ToolsTyped'
      <4>1. call' = [call EXCEPT ![c] = Ended(e, TRUE)]
        BY <3>5 DEF Answer, Ended
      <4> QED BY <1>0, <2>1, <3>1, <3>5, <4>1, TypedCallEnds
    <3> QED BY <1>1, <1>6, <2>1, <3>1, <3>2, <3>3, <3>4, <3>5
  <2> QED BY <2>4, <2>5
<1> QED
  BY <1>3, <1>4, <1>7, <1>8, <1>9, <1>10, <1>11, <1>12 DEF ToolsNext

LEMMA ToolsAreTyped == ASSUME ToolInv, ToolsTyped PROVE ToolsTypeOK
<1>1. MaxSource \in Nat /\ source \in 0 .. MaxSource /\ helperCache \in 0 .. NoRows
  BY ToolSizes DEF ToolInv, ToolsTyped, NoRows
<1>2. ASSUME NEW c \in ToolCallers
      PROVE  /\ call[c].pc \in {"none", "check", "fetch", "count", "page", "write", "audit", "done"}
             /\ call[c].plan \in Plans /\ call[c].rows \in 0 .. MaxSource
             /\ call[c].tries \in 1 .. ToolAttempts /\ written[c] \in 0 .. ToolAttempts
  <2>1. call[c] \in ToolCall /\ written[c] \in Nat /\ CallTyped(call[c], written[c])
    BY DEF ToolInv, ToolsTyped
  <2>2. call[c].pc \in {"none", "check", "fetch", "count", "page", "write", "audit", "done"} /\ call[c].rows \in Nat
    BY <2>1 DEF ToolCall, LivePcs
  <2> QED BY <1>1, <2>1, <2>2, ToolSizes DEF CallTyped
<1> QED BY <1>1, <1>2 DEF ToolsTypeOK

\* A delivery's turns of the tool loop and its files so far.
DeliveryTyped(m, d) ==
    /\ d.iteration <= MaxIterations /\ (d.pc = "tools" => d.iteration < MaxIterations)
    /\ d.taken + d.skipped <= Len(m.files)

\* Each acknowledgement that got lost is one of a delivery that has landed.
Landed(d) == d.pc \notin {"unsent", "flight"}
LandedOf(m) == {k \in Slots : Landed(delivery[m][k])}
AcksAreCounted == \A m \in SlackMessages : lostAcks[m] <= Cardinality(LandedOf(m))

SlackTyped ==
    /\ posted \subseteq SlackMessages /\ restarts \in 0 .. MaxRestarts
    /\ \A m \in SlackMessages, k \in Slots : DeliveryTyped(m, delivery[m][k])
    /\ AcksAreCounted

LEMMA SlackTypesStart == SlackInit => SlackTyped
<1> SUFFICES ASSUME SlackInit PROVE SlackTyped
  OBVIOUS
<1>1. \A m \in SlackMessages, k \in Slots : delivery[m][k] = NoDelivery
  BY DEF SlackInit
<1>2. ASSUME NEW m \in SlackMessages PROVE DeliveryTyped(m, NoDelivery) /\ LandedOf(m) = {}
  <2>1. Len(m.files) \in Nat /\ MaxIterations \in Nat
    BY SlackEvents, SlackLimits
  <2>2. NoDelivery.pc = "unsent" /\ NoDelivery.iteration = 0 /\ NoDelivery.taken = 0 /\ NoDelivery.skipped = 0
    BY DEF NoDelivery
  <2> QED BY <1>1, <2>1, <2>2 DEF DeliveryTyped, LandedOf, Landed
<1>3. AcksAreCounted
  BY <1>2, FS_EmptySet DEF AcksAreCounted, SlackInit
<1> QED BY <1>1, <1>2, <1>3, SlackLimits DEF SlackInit, SlackTyped

\* A step that brings one delivery of m to d, and at most one lost
\* acknowledgement with the landing of d.
LEMMA TypedDeliveryMoves ==
    ASSUME SlackInv, SlackTyped, NEW m \in SlackMessages, NEW k \in Slots, NEW d,
           delivery' = [delivery EXCEPT ![m][k] = d], DeliveryTyped(m, d),
           posted' \subseteq SlackMessages, restarts' = restarts,
           Landed(delivery[m][k]) => Landed(d),
           \A x \in SlackMessages \ {m} : lostAcks'[x] = lostAcks[x],
           \/ lostAcks'[m] = lostAcks[m]
           \/ ~Landed(delivery[m][k]) /\ Landed(d) /\ lostAcks'[m] = lostAcks[m] + 1
    PROVE  SlackTyped'
<1>1. /\ delivery'[m][k] = d
      /\ \A i \in Slots \ {k} : delivery'[m][i] = delivery[m][i]
      /\ \A x \in SlackMessages \ {m} : delivery'[x] = delivery[x]
  BY DEF SlackInv, SlackShape
<1>2. \A x \in SlackMessages, i \in Slots : DeliveryTyped(x, delivery'[x][i])
  BY <1>1 DEF SlackTyped
<1>3. (\A x \in SlackMessages, i \in Slots : DeliveryTyped(x, delivery[x][i]))'
  BY <1>2 DEF DeliveryTyped
<1>4. \A x \in SlackMessages : LandedOf(x)' = {i \in Slots : Landed(delivery'[x][i])}
  BY DEF LandedOf, Landed
<1>5. ASSUME NEW x \in SlackMessages \ {m} PROVE lostAcks'[x] <= Cardinality(LandedOf(x)')
  <2>1. LandedOf(x)' = LandedOf(x)
    BY <1>1, <1>4 DEF LandedOf
  <2> QED BY <2>1 DEF SlackTyped, AcksAreCounted
<1>6. lostAcks'[m] <= Cardinality(LandedOf(m)')
  <2> DEFINE S == LandedOf(m)  T == LandedOf(m)'
             a == Cardinality(S)  b == Cardinality(T)
  <2>1. /\ S \in SUBSET Slots /\ T \in SUBSET Slots /\ S \subseteq T /\ T \subseteq S \union {k}
        /\ k \in S <=> Landed(delivery[m][k])
        /\ k \in T <=> Landed(d)
    BY <1>1, <1>4 DEF LandedOf
  <2>2. a \in Nat /\ b \in Nat /\ lostAcks[m] <= a /\ lostAcks[m] \in Nat
    BY <2>1, SlotsFinite DEF SlackTyped, AcksAreCounted, SlackInv, SlackShape
  <2>3. /\ k \in S => b = a
        /\ k \notin T => b = a
        /\ k \notin S /\ k \in T => b = a + 1
    BY <2>1, OneSlotMore
  <2> HIDE DEF S, T, a, b
  <2>4. lostAcks'[m] <= b
    BY <2>1, <2>2, <2>3
  <2> QED BY <2>4 DEF T, b
<1>7. AcksAreCounted'
  <2>1. \A x \in SlackMessages : lostAcks'[x] <= Cardinality(LandedOf(x)')
    BY <1>5, <1>6
  <2> QED BY <2>1 DEF AcksAreCounted
<1> QED BY <1>3, <1>7 DEF SlackTyped

\* A step of a landed delivery that counts nothing.
LEMMA TypedDeliveryGoesOn ==
    ASSUME SlackInv, SlackTyped, NEW m \in SlackMessages, NEW k \in Slots, NEW d,
           delivery' = [delivery EXCEPT ![m][k] = d], DeliveryTyped(m, d), Landed(d),
           UNCHANGED <<posted, lostAcks, restarts>>
    PROVE  SlackTyped'
BY TypedDeliveryMoves DEF SlackTyped

LEMMA TypedFacts ==
    ASSUME SlackInv, SlackTyped, NEW m \in SlackMessages, NEW k \in Slots
    PROVE  /\ delivery[m][k] \in Delivery /\ DeliveryTyped(m, delivery[m][k])
           /\ delivery[m][k].iteration \in Nat /\ delivery[m][k].taken \in Nat /\ delivery[m][k].skipped \in Nat
           /\ delivery[m][k].iteration <= MaxIterations /\ MaxIterations \in Nat /\ Len(m.files) \in Nat
BY DeliveryFacts, SlackEvents, SlackLimits DEF SlackTyped, DeliveryTyped, Delivery

\* A delivery that keeps its counts, and is not sent into the tool loop.
LEMMA CountsKept ==
    ASSUME NEW m, NEW old, DeliveryTyped(m, old), NEW d, d.iteration = old.iteration,
           d.taken = old.taken, d.skipped = old.skipped,
           d.pc # "tools" \/ d.pc = old.pc \/ d.iteration < MaxIterations
    PROVE  DeliveryTyped(m, d)
BY DEF DeliveryTyped

LEMMA SlackStaysTyped == ASSUME SlackInv, SlackTyped, [SlackNext]_slackVars PROVE SlackTyped'
<1>1. CASE UNCHANGED slackVars
  <2>1. UNCHANGED <<posted, delivery, lostAcks, restarts>>
    BY <1>1 DEF slackVars
  <2>2. (\A m \in SlackMessages, k \in Slots : DeliveryTyped(m, delivery[m][k]))'
    BY <2>1 DEF SlackTyped, DeliveryTyped
  <2>3. \A m \in SlackMessages : LandedOf(m)' = LandedOf(m)
    BY <2>1 DEF LandedOf, Landed
  <2>4. AcksAreCounted'
    BY <2>1, <2>3 DEF SlackTyped, AcksAreCounted
  <2> QED BY <2>1, <2>2, <2>4 DEF SlackTyped
<1>2. ASSUME NEW m \in SlackMessages, NEW k \in Slots, (Post(m) /\ k = 1) \/ Redeliver(m, k)
      PROVE  SlackTyped'
  <2> DEFINE old == delivery[m][k]
             d == [old EXCEPT !.pc = "flight"]
  <2>1. old.pc = "unsent" /\ posted' \subseteq SlackMessages
    BY <1>2, DeliveryFacts DEF Post, Redeliver, SlackTyped
  <2>2. delivery' = [delivery EXCEPT ![m][k] = d] /\ UNCHANGED <<lostAcks, restarts>>
    BY <1>2 DEF Post, Redeliver
  <2>3. d.pc = "flight" /\ d.iteration = old.iteration /\ d.taken = old.taken /\ d.skipped = old.skipped
    BY TypedFacts DEF Delivery
  <2> HIDE DEF d
  <2>4. DeliveryTyped(m, d) /\ ~Landed(old)
    BY <2>1, <2>3, TypedFacts, CountsKept DEF Landed
  <2> QED BY <2>1, <2>2, <2>4, TypedDeliveryMoves
<1>3. ASSUME NEW m \in SlackMessages, NEW k \in Slots,
             SlackGivesUp(m, k) \/ (\E why \in Rejects : Reject(m, k, why))
      PROVE  SlackTyped'
  <2> DEFINE old == delivery[m][k]
             pc == IF SlackGivesUp(m, k) THEN "lost" ELSE "refused"
             d == [[old EXCEPT !.heard = "failed"] EXCEPT !.pc = pc]
  <2>1. delivery' = [delivery EXCEPT ![m][k] = d] /\ UNCHANGED <<posted, lostAcks, restarts>>
    <3>1. CASE SlackGivesUp(m, k)
      <4>1. old.pc = "flight"
        BY <3>1, DeliveryFacts DEF SlackGivesUp, DeliveryOK, Working
      <4>2. delivery' = [delivery EXCEPT ![m][k] = [[old EXCEPT !.heard = "failed"] EXCEPT !.pc = "lost"]]
        BY <3>1, <4>1, TypedFacts DEF SlackGivesUp
      <4> QED BY <3>1, <4>2 DEF SlackGivesUp
    <3>2. CASE ~SlackGivesUp(m, k)
      <4>1. /\ delivery' = [delivery EXCEPT ![m][k] = [[old EXCEPT !.pc = "refused"] EXCEPT !.heard = "failed"]]
            /\ UNCHANGED <<posted, lostAcks, restarts>>
        BY <1>3, <3>2 DEF Reject
      <4>2. [[old EXCEPT !.pc = "refused"] EXCEPT !.heard = "failed"] = [[old EXCEPT !.heard = "failed"] EXCEPT !.pc = "refused"]
        BY TypedFacts DEF Delivery
      <4> QED BY <3>2, <4>1, <4>2
    <3> QED BY <3>1, <3>2
  <2>2. pc \in {"lost", "refused"}
    OBVIOUS
  <2> HIDE DEF pc
  <2>3. d.pc = pc /\ d.iteration = old.iteration /\ d.taken = old.taken /\ d.skipped = old.skipped
    BY TypedFacts DEF Delivery
  <2> HIDE DEF d
  <2>4. DeliveryTyped(m, d) /\ Landed(d)
    BY <2>2, <2>3, TypedFacts, CountsKept DEF Landed
  <2> QED BY <2>1, <2>4, TypedDeliveryGoesOn
<1>4. ASSUME NEW m \in SlackMessages, NEW k \in Slots, NEW lost \in BOOLEAN, ReceiveSlackWebhook(m, k, lost)
      PROVE  SlackTyped'
  <2> DEFINE old == delivery[m][k]
             pc == Dispatch(m)
             heard == Heard(lost)
             text == IF pc = "reply" THEN "hint" ELSE "none"
             d == [[[old EXCEPT !.pc = pc] EXCEPT !.heard = heard] EXCEPT !.text = text]
  <2>1. /\ old.pc = "flight" /\ delivery' = [delivery EXCEPT ![m][k] = d] /\ UNCHANGED <<posted, restarts>>
        /\ lostAcks' = [lostAcks EXCEPT ![m] = IF lost THEN @ + 1 ELSE @]
    BY <1>4 DEF ReceiveSlackWebhook
  <2>2. pc \in {"dropped", "reply", "context"}
    BY DEF Dispatch
  <2> HIDE DEF pc, heard, text
  <2>3. d.pc = pc /\ d.iteration = old.iteration /\ d.taken = old.taken /\ d.skipped = old.skipped
    BY TypedFacts DEF Delivery
  <2> HIDE DEF d
  <2>4. DeliveryTyped(m, d) /\ Landed(d) /\ ~Landed(old)
    BY <2>1, <2>2, <2>3, TypedFacts, CountsKept DEF Landed
  <2>5. /\ \A x \in SlackMessages \ {m} : lostAcks'[x] = lostAcks[x]
        /\ lostAcks'[m] = lostAcks[m] \/ lostAcks'[m] = lostAcks[m] + 1
    BY <2>1, DeliveryFacts
  <2> QED BY <2>1, <2>4, <2>5, TypedDeliveryMoves DEF SlackTyped
<1>5. ASSUME NEW m \in SlackMessages, NEW k \in Slots, FetchChannelContext(m, k) PROVE SlackTyped'
  <2> DEFINE old == delivery[m][k]
             pc == IF m.files = <<>> THEN "model" ELSE "images"
             d == [old EXCEPT !.pc = pc]
  <2>1. delivery' = [delivery EXCEPT ![m][k] = d] /\ UNCHANGED <<posted, lostAcks, restarts>>
    BY <1>5 DEF FetchChannelContext, Become
  <2>2. pc \in {"model", "images"}
    OBVIOUS
  <2> HIDE DEF pc
  <2>3. d.pc = pc /\ d.iteration = old.iteration /\ d.taken = old.taken /\ d.skipped = old.skipped
    BY TypedFacts DEF Delivery
  <2> HIDE DEF d
  <2>4. DeliveryTyped(m, d) /\ Landed(d)
    BY <2>2, <2>3, TypedFacts, CountsKept DEF Landed
  <2> QED BY <2>1, <2>4, TypedDeliveryGoesOn
<1>6. ASSUME NEW m \in SlackMessages, NEW k \in Slots, RunTools(m, k) PROVE SlackTyped'
  <2> DEFINE old == delivery[m][k]
             n == old.iteration + 1
             d == [old EXCEPT !.pc = "model", !.iteration = n]
  <2>1. /\ old.pc = "tools" /\ delivery' = [delivery EXCEPT ![m][k] = d]
        /\ UNCHANGED <<posted, lostAcks, restarts>>
    BY <1>6 DEF RunTools, At, Become, NextIteration
  <2>2. DeliveryTyped(m, old) /\ old.iteration \in Nat /\ MaxIterations \in Nat
    BY TypedFacts
  <2>3. n <= MaxIterations
    <3>1. old.iteration < MaxIterations
      BY <2>1, <2>2 DEF DeliveryTyped
    <3> HIDE DEF old
    <3> QED BY <2>2, <3>1
  <2> HIDE DEF n
  <2>4. d.pc = "model" /\ d.iteration = n /\ d.taken = old.taken /\ d.skipped = old.skipped
    BY TypedFacts DEF Delivery
  <2> HIDE DEF d, old
  <2>5. DeliveryTyped(m, d) /\ Landed(d)
    BY <2>2, <2>3, <2>4 DEF DeliveryTyped, Landed
  <2> QED BY <2>1, <2>5, TypedDeliveryGoesOn
<1>7. ASSUME NEW m \in SlackMessages, NEW k \in Slots, NEW works \in BOOLEAN, IngestFile(m, k, works)
      PROVE  SlackTyped'
  <2> DEFINE old == delivery[m][k]
             file == m.files[old.taken + old.skipped + 1]
             done == old.taken + old.skipped + 1 = Len(m.files)
             ok == works /\ file.image /\ Takes(old, file.size, file.announced)
             pc == IF done THEN "model" ELSE "images"
             taken == IF ok THEN old.taken + 1 ELSE old.taken
             skipped == IF ok THEN old.skipped ELSE old.skipped + 1
             bytes == IF ok THEN old.bytes + file.size ELSE old.bytes
             d == [old EXCEPT !.pc = pc, !.taken = taken, !.skipped = skipped, !.bytes = bytes]
  <2>1. /\ old.pc = "images" /\ delivery' = [delivery EXCEPT ![m][k] = d]
        /\ UNCHANGED <<posted, lostAcks, restarts>>
    BY <1>7 DEF IngestFile, Become
  <2>2. old.taken + old.skipped < Len(m.files)
    BY <2>1, DeliveryFacts DEF DeliveryOK
  <2>3. taken + skipped <= Len(m.files)
    <3>1. old.taken \in Nat /\ old.skipped \in Nat /\ Len(m.files) \in Nat
      BY TypedFacts
    <3> HIDE DEF ok, old
    <3> QED BY <2>2, <3>1
  <2>4. pc \in {"model", "images"}
    OBVIOUS
  <2> HIDE DEF pc, taken, skipped, bytes
  <2>5. d.pc = pc /\ d.iteration = old.iteration /\ d.taken = taken /\ d.skipped = skipped
    BY TypedFacts DEF Delivery
  <2>6. old.iteration <= MaxIterations
    BY TypedFacts
  <2> HIDE DEF d, old
  <2>7. DeliveryTyped(m, d) /\ Landed(d)
    BY <2>3, <2>4, <2>5, <2>6 DEF DeliveryTyped, Landed
  <2> QED BY <2>1, <2>7, TypedDeliveryGoesOn
<1>8. ASSUME NEW m \in SlackMessages, NEW k \in Slots, NEW turn \in {"tools", "answer", "prompt", "apology"},
             AskClaude(m, k, turn)
      PROVE  SlackTyped'
  <2> DEFINE old == delivery[m][k]
             asks == [old EXCEPT !.pc = "tools"]
             says == [old EXCEPT !.pc = "reply", !.text = turn]
  <2>1. /\ \/ old.iteration < MaxIterations /\ delivery' = [delivery EXCEPT ![m][k] = asks]
           \/ delivery' = [delivery EXCEPT ![m][k] = says]
        /\ UNCHANGED <<posted, lostAcks, restarts>>
    BY <1>8 DEF AskClaude, Become
  <2>2. /\ asks.pc = "tools" /\ asks.iteration = old.iteration /\ asks.taken = old.taken /\ asks.skipped = old.skipped
        /\ says.pc = "reply" /\ says.iteration = old.iteration /\ says.taken = old.taken /\ says.skipped = old.skipped
    BY TypedFacts DEF Delivery
  <2>3. DeliveryTyped(m, old)
    BY TypedFacts
  <2> HIDE DEF asks, says, old
  <2>4. /\ old.iteration < MaxIterations => DeliveryTyped(m, asks)
        /\ DeliveryTyped(m, says) /\ Landed(asks) /\ Landed(says)
    BY <2>2, <2>3, CountsKept, Zenon DEF Landed
  <2> QED BY <2>1, <2>4, TypedDeliveryGoesOn
<1>9. ASSUME NEW m \in SlackMessages, NEW d \in Delivery, NEW how \in {"killed", "done"}
      PROVE  DeliveryTyped(m, Over(d, how)) /\ Over(d, how).pc = how
  <2> DEFINE e == Over(d, how)
  <2>1. e.pc = how /\ e.iteration = 0 /\ e.taken = 0 /\ e.skipped = 0
    BY DEF Over, Delivery
  <2>2. Len(m.files) \in Nat /\ MaxIterations \in Nat
    BY SlackEvents, SlackLimits
  <2> HIDE DEF e
  <2>3. e.pc # "tools"
    BY <2>1
  <2>4. DeliveryTyped(m, e)
    BY <2>1, <2>2, <2>3 DEF DeliveryTyped
  <2> QED BY <2>1, <2>4 DEF e
<1>10. ASSUME NEW m \in SlackMessages, NEW k \in Slots, NEW works \in BOOLEAN, PostToSlack(m, k, works)
       PROVE  SlackTyped'
  <2> DEFINE old == Over(delivery[m][k], "done")
             text == IF works THEN old.text ELSE "unsaid"
             d == [old EXCEPT !.text = text]
  <2>1. delivery' = [delivery EXCEPT ![m][k] = d] /\ UNCHANGED <<posted, lostAcks, restarts>>
    BY <1>10 DEF PostToSlack
  <2>2. DeliveryTyped(m, old) /\ old.pc = "done"
    BY <1>9, TypedFacts
  <2>3. d.pc = old.pc /\ d.iteration = old.iteration /\ d.taken = old.taken /\ d.skipped = old.skipped
    BY TypedFacts DEF Over, Delivery
  <2> HIDE DEF d, old
  <2>4. DeliveryTyped(m, d) /\ Landed(d)
    BY <2>2, <2>3, CountsKept DEF Landed
  <2> QED BY <2>1, <2>4, TypedDeliveryGoesOn
<1>11. CASE Restart
  <2> DEFINE After(d) == IF d.pc \in Working THEN Over(d, "killed") ELSE d
  <2>1. /\ delivery' = [m \in SlackMessages |-> [k \in Slots |-> After(delivery[m][k])]]
        /\ UNCHANGED <<posted, lostAcks>> /\ restarts < MaxRestarts /\ restarts' = restarts + 1
    BY <1>11 DEF Restart
  <2>2. ASSUME NEW m \in SlackMessages, NEW k \in Slots
        PROVE  DeliveryTyped(m, delivery'[m][k]) /\ (Landed(delivery'[m][k]) <=> Landed(delivery[m][k]))
    <3>1. delivery'[m][k] = After(delivery[m][k]) /\ delivery[m][k] \in Delivery /\ DeliveryTyped(m, delivery[m][k])
      BY <2>1, TypedFacts
    <3>2. CASE delivery[m][k].pc \in Working
      BY <1>9, <3>1, <3>2 DEF Landed, Working
    <3>3. CASE delivery[m][k].pc \notin Working
      BY <3>1, <3>3
    <3> QED BY <3>2, <3>3
  <2>3. (\A m \in SlackMessages, k \in Slots : DeliveryTyped(m, delivery[m][k]))'
    BY <2>2 DEF DeliveryTyped
  <2>4. ASSUME NEW m \in SlackMessages PROVE LandedOf(m)' = LandedOf(m)
    <3>1. LandedOf(m)' = {k \in Slots : Landed(delivery'[m][k])}
      BY DEF LandedOf, Landed
    <3> QED BY <2>2, <3>1 DEF LandedOf
  <2>5. AcksAreCounted'
    BY <2>1, <2>4 DEF SlackTyped, AcksAreCounted
  <2>6. restarts' \in 0 .. MaxRestarts
    BY <2>1, SlackLimits DEF SlackTyped
  <2> QED BY <2>1, <2>3, <2>5, <2>6 DEF SlackTyped
<1> QED
  BY <1>1, <1>2, <1>3, <1>4, <1>5, <1>6, <1>7, <1>8, <1>10, <1>11, SlackLimits DEF SlackNext, Handle, Slots

LEMMA SlackIsTyped == ASSUME SlackInv, SlackTyped PROVE SlackTypeOK
<1>1. ASSUME NEW T \in SUBSET Slots PROVE Cardinality(T) <= MaxDeliveries /\ Cardinality(T) \in Nat
  <2>1. IsFiniteSet(Slots) /\ Cardinality(Slots) = MaxDeliveries
    BY SlackLimits, FS_Interval DEF Slots
  <2> QED BY <2>1, SlotsFinite, FS_Subset
<1>2. ASSUME NEW m \in SlackMessages PROVE answers[m] \in 0 .. MaxDeliveries /\ lostAcks[m] \in 0 .. MaxDeliveries
  <2>1. /\ answers[m] \in Nat /\ answers[m] <= Cardinality(DoneOf(m)) /\ DoneOf(m) \in SUBSET Slots
        /\ lostAcks[m] \in Nat /\ lostAcks[m] <= Cardinality(LandedOf(m)) /\ LandedOf(m) \in SUBSET Slots
    BY DEF SlackInv, SlackShape, PostsAreCounted, SlackTyped, AcksAreCounted, DoneOf, LandedOf
  <2> QED BY <1>1, <2>1, SlackLimits
<1>3. ASSUME NEW m \in SlackMessages, NEW k \in Slots
      PROVE  LET d == delivery[m][k] IN
             /\ d.pc \in Working \union {"unsent", "flight", "lost", "refused", "dropped", "killed", "done"}
             /\ d.heard \in {"waiting", "acked", "failed"}
             /\ d.text \in {"none", "hint", "answer", "prompt", "apology", "unsaid"}
             /\ d.iteration \in 0 .. MaxIterations /\ d.taken + d.skipped <= Len(m.files)
  <2>1. delivery[m][k].iteration \in 0 .. MaxIterations
    BY TypedFacts
  <2>2. delivery[m][k].taken + delivery[m][k].skipped <= Len(m.files)
    BY TypedFacts DEF DeliveryTyped
  <2>3. delivery[m][k] \in Delivery
    BY TypedFacts
  <2> QED BY <2>1, <2>2, <2>3, Zenon DEF Delivery, SlackPcs
<1> QED BY <1>2, <1>3 DEF SlackTypeOK, SlackTyped

(* Every variable of the assistant's three parts keeps its type: no task   *)
(* is tried beyond its limit or runs unregistered, no write is tried more  *)
(* often than the client allows, no question takes more turns of the tool  *)
(* loop than QA_MAX_TOOL_ITERATIONS (src/core/mc-worker.ts, the clients'   *)
(* request loops, src/adapters/slack/events.ts).                           *)
THEOREM AssistantTypes == AssistantSpec => []AssistantTypeOK
<1> DEFINE Known == McInv /\ ToolInv /\ SlackInv
           Typed == McTyped /\ ToolsTyped /\ SlackTyped
<1>1. AssistantInit => Known /\ Typed
  <2> SUFFICES ASSUME AssistantInit PROVE Known /\ Typed
    OBVIOUS
  <2>1. Known
    BY McStarts, ToolsStart, SlackStarts DEF AssistantInit
  <2>2. McTyped
    BY StagesAreCounted DEF AssistantInit, McInit, McTyped
  <2>3. ToolsTyped
    <3>1. CallTyped(NoCall, 0)
      BY ToolSizes DEF CallTyped, NoCall, NewCall, LivePcs, Plans
    <3>2. source = 0 /\ helperCache = NoRows /\ \A c \in ToolCallers : call[c] = NoCall /\ written[c] = 0
      BY DEF AssistantInit, ToolsInit
    <3>3. source <= MaxSource
      BY <3>2, ToolSizes
    <3> QED BY <3>1, <3>2, <3>3 DEF ToolsTyped
  <2>4. SlackTyped
    BY SlackTypesStart DEF AssistantInit
  <2> QED BY <2>1, <2>2, <2>3, <2>4
<1>2. Known /\ Typed /\ [AssistantNext]_assistantVars => Known' /\ Typed'
  BY StepsApart, McSteps, ToolSteps, SlackSteps, McStaysTyped, ToolsStayTyped, SlackStaysTyped
<1>3. Known /\ Typed => AssistantTypeOK
  BY McIsTyped, ToolsAreTyped, SlackIsTyped DEF AssistantTypeOK
<1> QED BY <1>1, <1>2, <1>3, PTL DEF AssistantSpec
=============================================================================
