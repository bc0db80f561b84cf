---------------------- MODULE JobOrchestrator_proofs -----------------------
(***************************************************************************)
(* Proofs about JobOrchestrator, for any jobs, requests, number of stages, *)
(* position of the gate, attempts, crashes and either kind of store.       *)
(*                                                                         *)
(* TypeInv is inductive by itself: types, the bound on attempts that the   *)
(* type of `attempt` needs, and the invariant of the approval store, which *)
(* is not proved again but taken from ApprovalStore_proofs, since every    *)
(* step of the daemon is one step of that store or none (GateStepOfNext).  *)
(* PassInv is what NothingRunsUnapproved needs on top of it: where a       *)
(* runner may be relative to the gate, that no copy of a job, in memory,   *)
(* in the store or in a handler's hands, is ahead of the runner, and that  *)
(* every approval has a person behind it.                                  *)
(***************************************************************************)
EXTENDS JobProperties, TLAPS

(* The proofs about the approval store, for this daemon's gate.            *)
GP == INSTANCE ApprovalStore_proofs WITH MaxWaits <- MaxAttempts

(***************************************************************************)
(* Types                                                                   *)
(***************************************************************************)

LEMMA AbsentType == Absent \in Job
BY DEF Absent, Job, JobStatus, StageStatus

(* A Job stays one when its status, its error, a stage record or its flags *)
(* change.                                                                 *)
LEMMA JobUpdates ==
  ASSUME NEW row \in Job
  PROVE  /\ \A status \in JobStatus : [row EXCEPT !.status = status] \in Job
         /\ \A status \in JobStatus, error \in {"none", "stage", "rejected", "cancelled"} :
              [row EXCEPT !.status = status, !.error = error] \in Job
         /\ \A k \in Stage, status \in StageStatus :
              [row EXCEPT !.recs[k] = status] \in Job
         /\ [row EXCEPT !.approved = TRUE] \in Job
BY DEF Job

LEMMA NoteUpdate ==
  ASSUME NEW row \in Job, NEW k \in Stage, NEW note \in {"none", "ready", "blocked"}
  PROVE  [row EXCEPT !.recs[k] = "completed", !.note = note] \in Job
BY DEF Job, StageStatus

LEMMA GoType ==
  ASSUME TypeOK, NEW j \in Jobs, NEW from, NEW to \in Control, Go(j, from, to)
  PROVE  pc' \in [Jobs -> Control]
BY DEF TypeOK, Go

LEMMA SetStatusType ==
  ASSUME TypeOK, NEW j \in Jobs, NEW status \in JobStatus, SetStatus(j, status)
  PROVE  mem' \in [Jobs -> Job]
BY JobUpdates DEF TypeOK, SetStatus

LEMMA EndWithType ==
  ASSUME TypeOK, NEW j \in Jobs, NEW status \in JobStatus,
         NEW error \in {"none", "stage", "rejected", "cancelled"},
         EndWith(j, status, error)
  PROVE  mem' \in [Jobs -> Job]
BY JobUpdates DEF TypeOK, EndWith

LEMMA SetRecordType ==
  ASSUME TypeOK, NEW j \in Jobs, NEW status \in StageStatus, SetRecord(j, status)
  PROVE  mem' \in [Jobs -> Job]
BY JobUpdates DEF TypeOK, SetRecord

LEMMA PersistType ==
  ASSUME TypeOK, NEW j \in Jobs, Persist(j)
  PROVE  store' \in [Jobs -> Job]
BY DEF TypeOK, Persist

LEMMA ViewType == ASSUME TypeOK, NEW j \in Jobs PROVE View(j) \in Job
BY DEF TypeOK, View, Job

LEMMA BeginAttemptType ==
  ASSUME TypeOK, NEW j \in Jobs, NEW from, NEW n \in 1..MaxAttempts, BeginAttempt(j, from, n)
  PROVE  /\ pc' \in [Jobs -> Control] /\ cur' = cur
         /\ attempt' \in [Jobs -> 1..MaxAttempts] /\ mem' \in [Jobs -> Job]
<1>1. "attempt" \in Control /\ "running" \in StageStatus
  BY DEF Control, AtSave, StageStatus
<1>2. pc' \in [Jobs -> Control] /\ mem' \in [Jobs -> Job]
  BY <1>1, GoType, SetRecordType DEF BeginAttempt
<1> QED
  BY <1>2 DEF BeginAttempt, TypeOK

LEMMA AttemptFailsType ==
  ASSUME TypeOK, NEW j \in Jobs, NEW from, AttemptFails(j, from)
  PROVE  /\ pc' \in [Jobs -> Control] /\ UNCHANGED <<cur, attempt>>
         /\ mem' \in [Jobs -> Job]
<1>1. "exhausted" \in Control /\ "backoff" \in Control /\ "failed" \in StageStatus
  BY DEF Control, AtSave, StageStatus
<1> QED
  BY <1>1, GoType, SetRecordType DEF AttemptFails, TypeOK

LEMMA AdvanceType ==
  ASSUME TypeOK, NEW j \in Jobs, NEW from, Advance(j, from)
  PROVE  /\ pc' \in [Jobs -> Control] /\ cur' \in [Jobs -> Stage]
         /\ UNCHANGED attempt /\ mem' \in [Jobs -> Job]
<1>1. "finish" \in Control /\ "check" \in Control /\ "completed" \in JobStatus
  BY DEF Control, AtSave, JobStatus
<1>2. CASE cur[j] = NumStages
  BY <1>1, <1>2, GoType, SetStatusType DEF Advance, TypeOK
<1>3. CASE cur[j] # NumStages
  <2>1. cur[j] + 1 \in Stage
    BY <1>3, ConfigAssumption DEF TypeOK, Stage, ConfigAssumption
  <2>2. pc' \in [Jobs -> Control] /\ mem' = mem /\ attempt' = attempt
    BY <1>1, <1>3, GoType DEF Advance
  <2>3. cur' = [cur EXCEPT ![j] = @ + 1]
    BY <1>3 DEF Advance
  <2> QED
    BY <2>1, <2>2, <2>3 DEF TypeOK
<1> QED
  BY <1>2, <1>3

(* An attempt is retried only while one is left; the type of `attempt`     *)
(* depends on it.                                                          *)
AttemptsLeft == \A j \in Jobs : pc[j] = "backoff" => attempt[j] < MaxAttempts

LEMMA RunnerAttempts ==
  ASSUME TypeOK, AttemptsLeft, NEW j \in Jobs,
         RunnerStep(j) \/ RecordSaveThrows(j) \/ StoreThrows(j)
  PROVE  AttemptsLeft'
<1>1. \A i \in Jobs \ {j} : pc'[i] = pc[i] /\ attempt'[i] = attempt[i]
  BY DEF TypeOK, RunnerStep, RecordSaveThrows, StoreThrows, Go, BeginAttempt, AttemptFails,
         Advance, SaveQueued, SaveStarted, StopCancelled, BeginStage, OpenGate,
         SaveAwaiting, SaveAttempt, StageReturns, StageThrows, BackoffOver, PostRequest,
         AwaitDecision, GateReturns, SaveStageDone, SaveGateDone, SaveResumed,
         SaveExhausted, SaveFinal
<1>2. pc'[j] = "backoff" => attempt'[j] = attempt[j] /\ attempt[j] < MaxAttempts
  <2>1. \A from : AttemptFails(j, from) /\ pc'[j] = "backoff" =>
          attempt'[j] = attempt[j] /\ attempt[j] < MaxAttempts
    BY ConfigAssumption DEF ConfigAssumption, TypeOK, AttemptFails, Go
  <2> QED
    BY <2>1
       DEF TypeOK, RunnerStep, RecordSaveThrows, StoreThrows, Go, BeginAttempt,
           Advance, SaveQueued, SaveStarted, StopCancelled, BeginStage, OpenGate,
           SaveAwaiting, SaveAttempt, StageReturns, StageThrows, BackoffOver, PostRequest,
           AwaitDecision, GateReturns, SaveStageDone, SaveGateDone, SaveResumed,
           SaveExhausted, SaveFinal
<1> QED
  BY <1>1, <1>2 DEF AttemptsLeft

(* The runner's own variables stay typed.                                  *)
RunnerType ==
  /\ pc \in [Jobs -> Control]
  /\ cur \in [Jobs -> Stage]
  /\ attempt \in [Jobs -> 1..MaxAttempts]
  /\ mem \in [Jobs -> Job]

LEMMA RunnerStepType ==
  ASSUME TypeOK, AttemptsLeft, NEW j \in Jobs, RunnerStep(j)
  PROVE  RunnerType' /\ store' \in [Jobs -> Job]
<1> USE DEF RunnerType
<1>0. TypeOK => RunnerType /\ store \in [Jobs -> Job]
  BY DEF TypeOK
<1>1. /\ AtSave \subseteq Control
      /\ {"check", "run", "notify", "notified", "wait", "backoff", "done"} \subseteq Control
      /\ {"queued", "running", "awaiting_approval", "completed", "failed", "rejected"}
           \subseteq JobStatus
      /\ "completed" \in StageStatus
      /\ 1 \in 1..MaxAttempts
  BY ConfigAssumption DEF ConfigAssumption, Control, AtSave, JobStatus, StageStatus
<1>2. CASE SaveQueued(j)
  BY <1>0, <1>1, <1>2, GoType, PersistType, SetStatusType DEF SaveQueued, AtSave
<1>3. CASE SaveStarted(j)
  BY <1>0, <1>1, <1>3, GoType, PersistType DEF SaveStarted
<1>4. CASE StopCancelled(j)
  BY <1>0, <1>1, <1>4, GoType DEF StopCancelled
<1>5. CASE BeginStage(j)
  BY <1>0, <1>1, <1>5, BeginAttemptType DEF BeginStage
<1>6. CASE OpenGate(j)
  BY <1>0, <1>1, <1>6, GoType, SetStatusType DEF OpenGate, AtSave
<1>7. CASE SaveAwaiting(j)
  BY <1>0, <1>1, <1>7, BeginAttemptType, PersistType DEF SaveAwaiting
<1>8. CASE SaveAttempt(j)
  BY <1>0, <1>1, <1>8, GoType, PersistType DEF SaveAttempt
<1>9. CASE StageReturns(j)
  <2>1. NoteOf(j) \in {"none", "ready", "blocked"}
    BY DEF NoteOf, TypeOK, Job
  <2>2. mem' \in [Jobs -> Job]
    BY <1>9, <2>1, NoteUpdate DEF StageReturns, TypeOK
  <2> QED
    BY <1>0, <1>1, <1>9, <2>2, GoType DEF StageReturns, AtSave
<1>10. CASE StageThrows(j)
  BY <1>0, <1>10, AttemptFailsType DEF StageThrows
<1>11. CASE BackoffOver(j)
  <2>1. attempt[j] + 1 \in 1..MaxAttempts
    BY <1>11, ConfigAssumption
       DEF ConfigAssumption, BackoffOver, BeginAttempt, Go, AttemptsLeft, TypeOK
  <2> QED
    BY <1>0, <1>11, <2>1, BeginAttemptType DEF BackoffOver
<1>12. CASE PostRequest(j)
  BY <1>0, <1>1, <1>12, GoType DEF PostRequest
<1>13. CASE AwaitDecision(j)
  BY <1>0, <1>1, <1>13, GoType DEF AwaitDecision
<1>14. CASE GateReturns(j)
  BY <1>0, <1>1, <1>14, GoType, SetRecordType DEF GateReturns, AtSave
<1>15. CASE SaveStageDone(j)
  BY <1>0, <1>15, AdvanceType, PersistType DEF SaveStageDone
<1>16. CASE SaveGateDone(j)
  BY <1>0, <1>1, <1>16, GoType, PersistType, SetStatusType, EndWithType
     DEF SaveGateDone, AtSave
<1>17. CASE SaveResumed(j)
  BY <1>0, <1>17, AdvanceType, PersistType DEF SaveResumed
<1>18. CASE SaveExhausted(j)
  BY <1>0, <1>1, <1>18, GoType, PersistType, EndWithType DEF SaveExhausted, AtSave
<1>19. CASE SaveFinal(j)
  BY <1>0, <1>1, <1>19, GoType, PersistType DEF SaveFinal
<1> QED
  BY <1>2, <1>3, <1>4, <1>5, <1>6, <1>7, <1>8, <1>9, <1>10, <1>11, <1>12, <1>13,
     <1>14, <1>15, <1>16, <1>17, <1>18, <1>19 DEF RunnerStep

(***************************************************************************)
(* The gate inside the daemon                                              *)
(***************************************************************************)

(* The runner touches the approval store in one place.                     *)
LEMMA RunnerGate ==
  ASSUME NEW j \in Jobs, RunnerStep(j) \/ RecordSaveThrows(j) \/ StoreThrows(j)
  PROVE  UNCHANGED gateVars \/ AwaitDecision(j)
BY DEF RunnerStep, RecordSaveThrows, StoreThrows, runnerOnly,
       SaveQueued, SaveStarted, StopCancelled, BeginStage, OpenGate, SaveAwaiting,
       SaveAttempt, StageReturns, StageThrows, BackoffOver, PostRequest, GateReturns,
       SaveStageDone, SaveGateDone, SaveResumed, SaveExhausted, SaveFinal

(* So do the handlers: a cancellation and a notification.                  *)
LEMMA RequestGate ==
  ASSUME TypeOK, NEW r \in Requests,
         ReceiveRequest(r) \/ RequestStep(r) \/ SaveRequestThrows(r)
  PROVE  \/ UNCHANGED gateVars
         \/ \E j \in Jobs, decision \in Decisions : Gates!NotifyApproval(j, decision)
<1>1. req[r].job \in Jobs /\ {"approved", "rejected"} \subseteq Decisions
  BY DEF TypeOK, Request, Decisions
<1>2. \A j, decision : Gates!NotifyOrIgnore(j, decision) =>
        Gates!NotifyApproval(j, decision) \/ UNCHANGED gateVars
  BY DEF Gates!NotifyOrIgnore, Gates!gateVars, gateVars
<1>3. CASE AcceptCancel(r)
  BY <1>1, <1>2, <1>3 DEF AcceptCancel
<1>4. CASE NotifyRequest(r)
  BY <1>1, <1>2, <1>4 DEF NotifyRequest
<1>5. CASE ~AcceptCancel(r) /\ ~NotifyRequest(r)
  BY <1>5 DEF ReceiveRequest, RequestStep, SaveRequestThrows, RefuseRequest,
              AcceptApprove, AcceptReject, SaveRequest
<1> QED
  BY <1>3, <1>4, <1>5

(* Whatever the daemon does is one operation of the approval store, or     *)
(* none.                                                                   *)
LEMMA GateStepOfNext == TypeOK /\ [Next]_vars => [Gates!Next]_gateVars
<1> SUFFICES ASSUME TypeOK, [Next]_vars
             PROVE  [Gates!Next]_gateVars
  OBVIOUS
<1>1. ASSUME NEW j \in Jobs, Submit(j)
      PROVE  UNCHANGED gateVars
  BY <1>1 DEF Submit, runnerOnly
<1>2. ASSUME NEW j \in Jobs, RunnerStep(j) \/ RecordSaveThrows(j) \/ StoreThrows(j)
      PROVE  [Gates!Next]_gateVars
  BY <1>2, RunnerGate DEF AwaitDecision, Gates!Next
<1>3. ASSUME NEW j \in Jobs, NEW decision \in Decisions, SlackClick(j, decision)
      PROVE  [Gates!Next]_gateVars
  BY <1>3 DEF SlackClick, Gates!NotifyOrIgnore, Gates!gateVars, gateVars, Gates!Next,
              Gates!Decisions, Decisions
<1>4. ASSUME NEW j \in Jobs, NEW w \in 1..MaxAttempts, Timeout(j, w)
      PROVE  Gates!Next
  BY <1>4 DEF Timeout, Gates!Next, Gates!Promise
<1>5. ASSUME NEW r \in Requests, ReceiveRequest(r) \/ RequestStep(r) \/ SaveRequestThrows(r)
      PROVE  [Gates!Next]_gateVars
  BY <1>5, RequestGate DEF Gates!Next, Gates!Decisions, Decisions
<1>6. CASE Crash
  BY <1>6 DEF Crash, Gates!Next
<1>7. CASE UNCHANGED vars
  BY <1>7 DEF vars
<1> QED
  BY <1>1, <1>2, <1>3, <1>4, <1>5, <1>6, <1>7 DEF Next

LEMMA GateInvStep == TypeOK /\ GP!GateInv /\ [Next]_vars => GP!GateInv'
<1> SUFFICES ASSUME TypeOK, GP!GateInv, [Next]_vars
             PROVE  GP!GateInv'
  OBVIOUS
<1>1. Gates!Next => GP!Next
  BY DEF Gates!Next, GP!Next, Gates!WaitForApproval, GP!WaitForApproval,
         Gates!NotifyApproval, GP!NotifyApproval, Gates!Settle, GP!Settle,
         Gates!TimeoutFires, GP!TimeoutFires, Gates!Restart, GP!Restart,
         Gates!HasPending, GP!HasPending, Gates!Promise, GP!Promise,
         Gates!Decisions, GP!Decisions
<1>2. [GP!Next]_gateVars
  BY <1>1, GateStepOfNext
<1> QED
  BY <1>2, GP!GateStep, ConfigAssumption
     DEF GP!gateVars, gateVars, GP!MaxWaitsType, ConfigAssumption

(***************************************************************************)
(* Types, continued: handlers, clicks and crashes                          *)
(***************************************************************************)

PeopleType ==
  /\ slackMsg \in [Jobs -> {"none", "open"} \cup Decisions]
  /\ req \in [Requests -> Request]
  /\ human \in [Jobs -> SUBSET (Decisions \cup {"cancelled"})]

LEMMA RequestUpdates ==
  ASSUME TypeOK, NEW r \in Requests, NEW row \in Job
  PROVE  /\ [req[r] EXCEPT !.pc = "save", !.row = row] \in Request
         /\ [req[r] EXCEPT !.pc = "notify", !.row = row] \in Request
         /\ [req[r] EXCEPT !.pc = "done", !.row = row] \in Request
         /\ \A answer \in {"refused", "cancelled", "resolved", "unresolved", "error"} :
              [req[r] EXCEPT !.pc = "done", !.row = row, !.answer = answer] \in Request
         /\ \A kind \in {"approve", "reject", "cancel"}, j \in Jobs :
              [req[r] EXCEPT !.pc = "check", !.kind = kind, !.job = j, !.row = row] \in Request
<1>1. req[r] \in Request
  BY DEF TypeOK
<1> QED
  BY <1>1 DEF Request

LEMMA AcceptType ==
  ASSUME TypeOK, NEW r \in Requests, NEW kind, NEW decision \in Decisions \cup {"cancelled"},
         NEW edited \in Job, Accept(r, kind, decision, edited)
  PROVE  PeopleType' /\ UNCHANGED <<pc, cur, attempt, slackMsg, crashes, store>>
<1>1. req' \in [Requests -> Request]
  BY RequestUpdates DEF TypeOK, Accept
<1>2. human' \in [Jobs -> SUBSET (Decisions \cup {"cancelled"})]
  BY DEF TypeOK, Accept, Request
<1> QED
  BY <1>1, <1>2 DEF Accept, TypeOK, PeopleType

LEMMA AnswerType ==
  ASSUME TypeOK, NEW r \in Requests,
         NEW answer \in {"refused", "cancelled", "resolved", "unresolved", "error"},
         Answer(r, answer)
  PROVE  req' \in [Requests -> Request]
BY AbsentType, RequestUpdates DEF TypeOK, Answer

LEMMA RequestType ==
  ASSUME TypeOK, NEW r \in Requests,
         ReceiveRequest(r) \/ RequestStep(r) \/ SaveRequestThrows(r)
  PROVE  PeopleType' /\ RunnerType' /\ store' \in [Jobs -> Job] /\ crashes' = crashes
<1> DEFINE Goal == PeopleType' /\ RunnerType' /\ store' \in [Jobs -> Job] /\ crashes' = crashes
<1>0. TypeOK => RunnerType /\ PeopleType /\ store \in [Jobs -> Job]
  BY DEF TypeOK, RunnerType, PeopleType
<1>1. UNCHANGED runnerVars => RunnerType'
  BY <1>0 DEF RunnerType, runnerVars
<1>2. req[r] \in Request /\ req[r].row \in Job /\ req[r].job \in Jobs
  BY DEF TypeOK, Request
<1>3. WriteRow(r) => store' \in [Jobs -> Job]
  BY <1>2 DEF TypeOK, WriteRow
<1>4. CASE ReceiveRequest(r)
  <2>1. PICK kind \in {"approve", "reject", "cancel"}, j \in Jobs :
          req' = [req EXCEPT ![r] = [@ EXCEPT !.pc = "check", !.kind = kind,
                                              !.job = j, !.row = View(j)]]
    BY <1>4 DEF ReceiveRequest
  <2>2. req' \in [Requests -> Request]
    BY <2>1, ViewType, RequestUpdates DEF TypeOK
  <2> QED
    BY <1>0, <1>1, <1>4, <2>2 DEF ReceiveRequest, requestOnly, PeopleType
<1>5. CASE RefuseRequest(r)
  BY <1>0, <1>1, <1>5, AnswerType DEF RefuseRequest, requestOnly, PeopleType
<1>6. CASE AcceptApprove(r)
  <2>1. [req[r].row EXCEPT !.approved = TRUE] \in Job
    BY <1>2, JobUpdates
  <2>2. mem' \in [Jobs -> Job]
    <3>1. [mem[req[r].job] EXCEPT !.approved = TRUE] \in Job
      BY <1>2, JobUpdates DEF TypeOK
    <3> QED
      BY <1>2, <1>6, <3>1 DEF AcceptApprove, TypeOK
  <2> QED
    BY <1>0, <1>6, <2>1, <2>2, AcceptType DEF AcceptApprove, RunnerType, Decisions
<1>7. CASE AcceptReject(r)
  BY <1>0, <1>2, <1>7, AcceptType DEF AcceptReject, RunnerType, Decisions
<1>8. CASE AcceptCancel(r)
  <2>1. [req[r].row EXCEPT !.status = "failed", !.error = "cancelled"] \in Job
    BY <1>2, JobUpdates DEF JobStatus
  <2> QED
    BY <1>0, <1>8, <2>1, AcceptType DEF AcceptCancel, RunnerType
<1>9. CASE SaveRequest(r)
  <2>1. req' \in [Requests -> Request]
    <3>1. CASE req[r].kind = "cancel"
      BY <1>9, <3>1, AnswerType DEF SaveRequest
    <3>2. CASE req[r].kind # "cancel"
      <4>1. req' = [req EXCEPT ![r] = [req[r] EXCEPT !.pc = "notify", !.row = Absent]]
        BY <1>9, <3>2 DEF SaveRequest
      <4>2. [req[r] EXCEPT !.pc = "notify", !.row = Absent] \in Request
        BY AbsentType, RequestUpdates
      <4> QED
        BY <4>1, <4>2 DEF TypeOK
    <3> QED
      BY <3>1, <3>2
  <2> QED
    BY <1>0, <1>1, <1>3, <1>9, <2>1 DEF SaveRequest, requestOnly, PeopleType
<1>10. CASE NotifyRequest(r)
  BY <1>0, <1>1, <1>10, AnswerType DEF NotifyRequest, requestOnly, PeopleType
<1>11. CASE SaveRequestThrows(r)
  BY <1>0, <1>1, <1>3, <1>11, AnswerType DEF SaveRequestThrows, requestOnly, PeopleType
<1> QED
  BY <1>4, <1>5, <1>6, <1>7, <1>8, <1>9, <1>10, <1>11 DEF RequestStep

LEMMA ClickType ==
  ASSUME TypeOK, NEW j \in Jobs, NEW decision \in Decisions, SlackClick(j, decision)
  PROVE  PeopleType' /\ RunnerType' /\ store' = store /\ crashes' = crashes
<1>1. UNCHANGED <<runnerVars, store, req, crashes>>
  BY DEF SlackClick
<1>2. slackMsg' \in [Jobs -> {"none", "open"} \cup Decisions]
  BY DEF SlackClick, TypeOK
<1>3. human' \in [Jobs -> SUBSET (Decisions \cup {"cancelled"})]
  BY DEF SlackClick, TypeOK
<1> QED
  BY <1>1, <1>2, <1>3 DEF runnerVars, PeopleType, RunnerType, TypeOK

LEMMA CrashType ==
  ASSUME TypeOK, Crash
  PROVE  PeopleType' /\ RunnerType' /\ store' \in [Jobs -> Job] /\ crashes' \in 0..MaxCrashes
<1>1. crashes' \in 0..MaxCrashes
  <2>1. crashes \in 0..MaxCrashes
    BY DEF TypeOK
  <2>2. crashes < MaxCrashes /\ crashes' = crashes + 1
    BY DEF Crash
  <2> QED
    BY <2>1, <2>2, ConfigAssumption DEF ConfigAssumption
<1>2. RunnerType' /\ store' \in [Jobs -> Job]
  BY AbsentType DEF Crash, TypeOK, RunnerType, Control
<1>3. req' \in [Requests -> Request]
  BY AbsentType, RequestUpdates DEF Crash, TypeOK
<1> QED
  BY <1>1, <1>2, <1>3 DEF Crash, TypeOK, PeopleType

(* The inductive invariant of the types and of the approval store.         *)
TypeInv == TypeOK /\ AttemptsLeft /\ GP!GateInv

LEMMA InitTypeInv == Init => TypeInv
<1> SUFFICES ASSUME Init PROVE TypeInv
  OBVIOUS
<1>1. GP!GateInv
  <2>1. GP!Init
    BY DEF Init, Gates!Init, GP!Init, Gates!Promise, GP!Promise
  <2> QED
    BY <2>1, GP!InitGateInv, ConfigAssumption DEF GP!MaxWaitsType, ConfigAssumption
<1>2. Gates!TypeOK
  BY <1>1 DEF GP!GateInv, GP!TypeOK, Gates!TypeOK, Gates!Promise, GP!Promise, Gates!Decisions,
              GP!Decisions, Gates!Outcomes, GP!Outcomes
<1>3. /\ 1 \in 1..MaxAttempts /\ 1 \in Stage /\ 0 \in 0..MaxCrashes /\ "none" \in Control
      /\ \A j \in Jobs : [pc |-> "idle", kind |-> "cancel", job |-> j, row |-> Absent,
                          answer |-> "none"] \in Request
  BY AbsentType, ConfigAssumption DEF ConfigAssumption, Stage, Control, Request
<1>4. req \in [Requests -> Request]
  BY <1>3 DEF Init
<1>5. TypeOK
  BY <1>2, <1>3, <1>4, AbsentType DEF Init, TypeOK
<1>6. AttemptsLeft
  BY DEF Init, AttemptsLeft
<1> QED
  BY <1>1, <1>5, <1>6 DEF TypeInv

LEMMA TypeStep == TypeInv /\ [Next]_vars => TypeInv'
<1> SUFFICES ASSUME TypeInv, [Next]_vars
             PROVE  TypeInv'
  OBVIOUS
<1>0. TypeOK /\ AttemptsLeft
  BY DEF TypeInv
<1>1. GP!GateInv'
  BY GateInvStep DEF TypeInv
<1>2. Gates!TypeOK'
  BY <1>1 DEF GP!GateInv, GP!TypeOK, Gates!TypeOK, Gates!Promise, GP!Promise, Gates!Decisions,
              GP!Decisions, Gates!Outcomes, GP!Outcomes
<1> DEFINE Rest == PeopleType /\ RunnerType /\ store \in [Jobs -> Job] /\ crashes \in 0..MaxCrashes
<1>3. Rest
  BY <1>0 DEF TypeOK, PeopleType, RunnerType
<1>4. UNCHANGED peopleVars => PeopleType'
  BY <1>3 DEF PeopleType, peopleVars
<1>5. UNCHANGED runnerVars => RunnerType'
  BY <1>3 DEF RunnerType, runnerVars
<1>6. UNCHANGED <<pc, attempt>> => AttemptsLeft'
  BY <1>0 DEF AttemptsLeft
<1>7. ASSUME NEW j \in Jobs, Submit(j)
      PROVE  Rest' /\ AttemptsLeft'
  <2>1. [Absent EXCEPT !.status = "queued"] \in Job /\ "enqueue" \in Control
    BY AbsentType, JobUpdates DEF JobStatus, Control, AtSave
  <2>2. RunnerType'
    BY <1>0, <1>7, <2>1, GoType DEF Submit, RunnerType, TypeOK
  <2>3. AttemptsLeft'
    BY <1>0, <1>7 DEF Submit, Go, AttemptsLeft, TypeOK
  <2> QED
    BY <1>3, <1>4, <1>7, <2>2, <2>3 DEF Submit, runnerOnly
<1>8. ASSUME NEW j \in Jobs, RunnerStep(j)
      PROVE  Rest' /\ AttemptsLeft'
  <2>1. PeopleType' /\ crashes' = crashes
    <3>1. CASE PostRequest(j)
      BY <1>3, <3>1 DEF PostRequest, PeopleType
    <3>2. CASE AwaitDecision(j)
      BY <1>4, <3>2 DEF AwaitDecision
    <3>3. CASE ~PostRequest(j) /\ ~AwaitDecision(j)
      BY <1>4, <1>8, <3>3
         DEF RunnerStep, runnerOnly, SaveQueued, SaveStarted, StopCancelled, BeginStage,
             OpenGate, SaveAwaiting, SaveAttempt, StageReturns, StageThrows, BackoffOver,
             GateReturns, SaveStageDone, SaveGateDone, SaveResumed, SaveExhausted, SaveFinal
    <3> QED
      BY <3>1, <3>2, <3>3
  <2> QED
    BY <1>0, <1>3, <1>8, <2>1, RunnerStepType, RunnerAttempts
<1>9. ASSUME NEW j \in Jobs, RecordSaveThrows(j) \/ StoreThrows(j)
      PROVE  Rest' /\ AttemptsLeft'
  <2>1. PeopleType' /\ crashes' = crashes
    BY <1>4, <1>9 DEF RecordSaveThrows, StoreThrows, runnerOnly
  <2>2. store' \in [Jobs -> Job]
    BY <1>0, <1>3, <1>9, PersistType DEF RecordSaveThrows, StoreThrows, PersistOrNot
  <2>3. RunnerType'
    <3>1. CASE RecordSaveThrows(j)
      BY <1>0, <1>3, <3>1, AttemptFailsType DEF RecordSaveThrows, RunnerType
    <3>2. CASE StoreThrows(j)
      BY <1>3, <3>2 DEF StoreThrows, RunnerType, Control
    <3> QED
      BY <1>9, <3>1, <3>2
  <2> QED
    BY <1>0, <1>3, <1>9, <2>1, <2>2, <2>3, RunnerAttempts
<1>10. ASSUME NEW j \in Jobs, NEW decision \in Decisions, SlackClick(j, decision)
       PROVE  Rest' /\ AttemptsLeft'
  BY <1>0, <1>3, <1>6, <1>10, ClickType DEF SlackClick, runnerVars
<1>11. ASSUME NEW j \in Jobs, NEW w \in 1..MaxAttempts, Timeout(j, w)
       PROVE  Rest' /\ AttemptsLeft'
  BY <1>3, <1>4, <1>5, <1>6, <1>11 DEF Timeout, runnerVars
<1>12. ASSUME NEW r \in Requests, ReceiveRequest(r) \/ RequestStep(r) \/ SaveRequestThrows(r)
       PROVE  Rest' /\ AttemptsLeft'
  <2>1. UNCHANGED <<pc, attempt>>
    BY <1>12 DEF ReceiveRequest, RequestStep, SaveRequestThrows, RefuseRequest, AcceptApprove,
                 AcceptReject, AcceptCancel, Accept, SaveRequest, NotifyRequest, requestOnly,
                 runnerVars
  <2> QED
    BY <1>0, <1>3, <1>6, <1>12, <2>1, RequestType
<1>13. CASE Crash
  <2>1. AttemptsLeft'
    BY <1>0, <1>13 DEF Crash, AttemptsLeft
  <2> QED
    BY <1>0, <1>1, <1>2, <1>13, <2>1, CrashType
       DEF TypeInv, TypeOK, RunnerType, PeopleType
<1>14. CASE UNCHANGED vars
  <2>1. UNCHANGED <<runnerVars, store, peopleVars, crashes, pc, attempt>>
    BY <1>14 DEF vars, runnerVars
  <2>2. Rest' /\ AttemptsLeft'
    BY <1>3, <1>4, <1>5, <1>6, <2>1
  <2> QED
    BY <1>1, <1>2, <2>2 DEF TypeInv, TypeOK, RunnerType, PeopleType
<1>15. Rest' /\ AttemptsLeft' => TypeInv'
  BY <1>1, <1>2 DEF TypeInv, TypeOK, RunnerType, PeopleType
<1> QED
  BY <1>7, <1>8, <1>9, <1>10, <1>11, <1>12, <1>13, <1>14, <1>15 DEF Next

(* All variables keep their types, whatever fails, crashes or is retried.  *)
THEOREM TypeCorrect == Spec => []TypeOK
<1>1. Spec => []TypeInv
  BY InitTypeInv, TypeStep, PTL DEF Spec
<1>2. TypeInv => TypeOK
  BY DEF TypeInv
<1> QED
  BY <1>1, <1>2, PTL

(* A decision the API reported as resolved is the one the gate acts on,    *)
(* with all handlers, clicks, timers, retries and crashes of the daemon.   *)
THEOREM AckedDecisionsWin == Spec => []AckedDecisionWins
<1>1. Spec => []TypeInv
  BY InitTypeInv, TypeStep, PTL DEF Spec
<1>2. TypeInv => AckedDecisionWins
  BY DEF TypeInv, GP!GateInv, AckedDecisionWins, Gates!AckedDecisionWins,
         GP!AckedDecisionWins, Gates!Promise, GP!Promise
<1> QED
  BY <1>1, <1>2, PTL

(* The entry of a job in the Map is that of its latest, open promise.      *)
THEOREM EntriesAreOpen == Spec => []EntryIsOpen
<1>1. Spec => []TypeInv
  BY InitTypeInv, TypeStep, PTL DEF Spec
<1>2. TypeInv => EntryIsOpen
  BY DEF TypeInv, GP!GateInv, EntryIsOpen, Gates!EntryIsOpen, GP!EntryIsOpen,
         Gates!HasPending, GP!HasPending
<1> QED
  BY <1>1, <1>2, PTL

(* The daemon uses the approval store only through its operations.         *)
THEOREM RefinesApprovalStore == Spec => Gates!Spec
<1>1. Init => Gates!Init
  BY DEF Init
<1>2. Spec => []TypeInv
  BY InitTypeInv, TypeStep, PTL DEF Spec
<1>3. TypeInv /\ [Next]_vars => [Gates!Next]_(Gates!gateVars)
  BY GateStepOfNext DEF TypeInv, gateVars, Gates!gateVars
<1> QED
  BY <1>1, <1>2, <1>3, PTL DEF Spec, Gates!Spec

(***************************************************************************)
(* The gate is not passed unapproved                                       *)
(***************************************************************************)

(* What a runner in each of its states knows about the gate.               *)
GateControl(j) ==
  /\ pc[j] \in {"openGate", "notify", "notified", "wait", "resume"} => cur[j] = Gate
  /\ pc[j] = "run" => cur[j] # Gate
  /\ pc[j] \in {"wait", "resume"} \/ (pc[j] = "record" /\ cur[j] = Gate) => waits[j] > 0
  /\ pc[j] = "resume" => Verdict(j) = "approved"

Passed(j) == Gate > 0 /\ cur[j] > Gate => waits[j] > 0 /\ Verdict(j) = "approved"

(* No copy of a job shows a stage its runner has not come to.              *)
NoLater(row, j) == \A k \in Stage : k > cur[j] => row.recs[k] = "pending"

(* An approval comes from a person, and so does one on its way.            *)
ApprovalIsHuman ==
  /\ \A j \in Jobs, w \in 1..MaxAttempts :
       outcome[j][w] = "approved" => "approved" \in human[j]
  /\ \A r \in Requests : req[r].pc \in {"save", "notify"} /\ req[r].kind = "approve" =>
       "approved" \in human[req[r].job]

JobInv(j) == GateControl(j) /\ Passed(j) /\ NoLater(mem[j], j) /\ NoLater(store[j], j)

RequestRows == \A r \in Requests : NoLater(req[r].row, req[r].job)

PassInv ==
  /\ \A j \in Jobs : JobInv(j)
  /\ RequestRows
  /\ ApprovalIsHuman

LEMMA PassInvSuffices == TypeInv /\ PassInv => NothingRunsUnapproved
<1> SUFFICES ASSUME TypeInv, PassInv, NEW j \in Jobs, Gate > 0,
                    cur[j] > Gate \/ \E k \in Stage : k > Gate /\ View(j).recs[k] # "pending"
             PROVE  Verdict(j) = "approved" /\ "approved" \in human[j]
  BY DEF NothingRunsUnapproved
<1>0. cur[j] \in Nat /\ Gate \in Nat /\ waits[j] \in 0..MaxAttempts
  BY ConfigAssumption DEF ConfigAssumption, Stage, TypeInv, TypeOK, Gates!TypeOK
<1>1. NoLater(View(j), j)
  BY DEF PassInv, JobInv, NoLater, View, TypeInv, TypeOK, Job
<1>2. cur[j] > Gate
  BY <1>0, <1>1 DEF NoLater, Stage
<1>3. waits[j] > 0 /\ Verdict(j) = "approved"
  BY <1>2 DEF PassInv, JobInv, Passed
<1>4. waits[j] \in 1..MaxAttempts
  BY <1>0, <1>3, ConfigAssumption DEF ConfigAssumption
<1> QED
  BY <1>3, <1>4 DEF PassInv, ApprovalIsHuman, Verdict

(* What an approval store operation can do to promises.                    *)
LEMMA ApprovalsStand ==
  ASSUME TypeOK, [Gates!Next]_gateVars, NEW j \in Jobs, NEW w \in 1..MaxAttempts,
         outcome[j][w] = "approved"
  PROVE  outcome'[j][w] = "approved"
<1>1. \A i, v, result : Gates!Settle(i, v, result) => outcome'[j][w] = "approved"
  BY DEF Gates!Settle, TypeOK, Gates!TypeOK, Gates!Promise
<1>2. \A i, v : Gates!TimeoutFires(i, v) => outcome'[j][w] = "approved"
  BY <1>1 DEF Gates!TimeoutFires
<1>3. \A i, decision : Gates!NotifyApproval(i, decision) => outcome'[j][w] = "approved"
  BY <1>1 DEF Gates!NotifyApproval
<1>4. \A i : Gates!WaitForApproval(i) => outcome'[j][w] = "approved"
  BY DEF Gates!WaitForApproval
<1>5. Gates!Restart => outcome'[j][w] = "approved"
  BY DEF Gates!Restart, Gates!Promise
<1>6. UNCHANGED gateVars => outcome'[j][w] = "approved"
  BY DEF gateVars
<1> QED
  BY <1>2, <1>3, <1>4, <1>5, <1>6 DEF Gates!Next

(* A step that leaves the runner of j, its copies and its count of waits   *)
(* alone keeps what is known about j.                                      *)
LEMMA JobStutter ==
  ASSUME TypeInv, [Next]_vars, NEW j \in Jobs, JobInv(j),
         pc'[j] \in {pc[j], "none", "dead"}, cur'[j] = cur[j], waits'[j] = waits[j],
         NoLater(mem'[j], j), NoLater(store'[j], j)
  PROVE  JobInv(j)'
<1>1. waits[j] \in 0..MaxAttempts
  BY DEF TypeInv, TypeOK, Gates!TypeOK
<1>2. waits[j] > 0 /\ Verdict(j) = "approved" => Verdict(j)' = "approved"
  <2>1. [Gates!Next]_gateVars
    BY GateStepOfNext DEF TypeInv
  <2>2. waits[j] > 0 => waits[j] \in 1..MaxAttempts
    BY <1>1, ConfigAssumption DEF ConfigAssumption
  <2> QED
    BY <2>1, <2>2, ApprovalsStand DEF TypeInv, Verdict
<1>3. GateControl(j)' /\ Passed(j)'
  BY <1>2 DEF JobInv, GateControl, Passed
<1> QED
  BY <1>3 DEF JobInv, NoLater

(* A runner leaves the other jobs alone.                                   *)
LEMMA RunnerIsLocal ==
  ASSUME TypeInv, NEW j \in Jobs, NEW i \in Jobs \ {j},
         Submit(j) \/ RunnerStep(j) \/ RecordSaveThrows(j) \/ StoreThrows(j)
  PROVE  /\ pc'[i] = pc[i] /\ cur'[i] = cur[i] /\ mem'[i] = mem[i]
         /\ store'[i] = store[i] /\ waits'[i] = waits[i]
<1>1. pc'[i] = pc[i] /\ cur'[i] = cur[i]
  BY DEF TypeInv, TypeOK, Submit, RunnerStep, RecordSaveThrows, StoreThrows, Go, BeginAttempt,
         AttemptFails, Advance, SaveQueued, SaveStarted, StopCancelled, BeginStage, OpenGate,
         SaveAwaiting, SaveAttempt, StageReturns, StageThrows, BackoffOver, PostRequest,
         AwaitDecision, GateReturns, SaveStageDone, SaveGateDone, SaveResumed,
         SaveExhausted, SaveFinal
<1>2. mem'[i] = mem[i]
  BY DEF TypeInv, TypeOK, Submit, RunnerStep, RecordSaveThrows, StoreThrows, BeginAttempt,
         AttemptFails, Advance, SaveQueued, SaveStarted, StopCancelled, BeginStage, OpenGate,
         SaveAwaiting, SaveAttempt, StageReturns, StageThrows, BackoffOver, PostRequest,
         AwaitDecision, GateReturns, SaveStageDone, SaveGateDone, SaveResumed,
         SaveExhausted, SaveFinal, SetStatus, EndWith, SetRecord
<1>3. store'[i] = store[i]
  BY DEF TypeInv, TypeOK, Submit, RunnerStep, RecordSaveThrows, StoreThrows, Persist,
         PersistOrNot, SaveQueued, SaveStarted, StopCancelled, BeginStage, OpenGate,
         SaveAwaiting, SaveAttempt, StageReturns, StageThrows, BackoffOver, PostRequest,
         AwaitDecision, GateReturns, SaveStageDone, SaveGateDone, SaveResumed,
         SaveExhausted, SaveFinal
<1>4. waits'[i] = waits[i]
  <2>1. AwaitDecision(j) \/ UNCHANGED gateVars
    BY RunnerGate DEF Submit, runnerOnly
  <2> QED
    BY <2>1 DEF AwaitDecision, Gates!WaitForApproval, gateVars, TypeInv, TypeOK, Gates!TypeOK
<1> QED
  BY <1>1, <1>2, <1>3, <1>4

(* Lemmas on the helpers of the runner's actions.                          *)
LEMMA PersistRow ==
  ASSUME TypeInv, NEW j \in Jobs, NoLater(mem[j], j), NoLater(store[j], j),
         Persist(j) \/ UNCHANGED store
  PROVE  NoLater(store'[j], j)
BY DEF TypeInv, TypeOK, Persist

LEMMA StatusRow ==
  ASSUME TypeInv, NEW j \in Jobs, NoLater(mem[j], j), NEW status, NEW error,
         SetStatus(j, status) \/ EndWith(j, status, error) \/ UNCHANGED mem
  PROVE  NoLater(mem'[j], j)
<1>1. mem'[j].recs = mem[j].recs
  BY DEF TypeInv, TypeOK, SetStatus, EndWith, Job
<1> QED
  BY <1>1 DEF NoLater

LEMMA RecordRow ==
  ASSUME TypeInv, NEW j \in Jobs, NoLater(mem[j], j), NEW status, SetRecord(j, status)
  PROVE  NoLater(mem'[j], j)
<1>1. \A k \in Stage : k # cur[j] => mem'[j].recs[k] = mem[j].recs[k]
  BY DEF TypeInv, TypeOK, SetRecord, Job
<1>2. cur[j] \in Nat
  BY DEF TypeInv, TypeOK, Stage
<1> QED
  BY <1>1, <1>2 DEF NoLater, Stage

LEMMA ReturnRow ==
  ASSUME TypeInv, NEW j \in Jobs, NoLater(mem[j], j), StageReturns(j)
  PROVE  NoLater(mem'[j], j)
<1>1. \A k \in Stage : k # cur[j] => mem'[j].recs[k] = mem[j].recs[k]
  BY DEF TypeInv, TypeOK, StageReturns, Job
<1>2. cur[j] \in Nat
  BY DEF TypeInv, TypeOK, Stage
<1> QED
  BY <1>1, <1>2 DEF NoLater, Stage

(* The rows of job j after a step of its runner.                           *)
LEMMA RunnerRows ==
  ASSUME TypeInv, NEW j \in Jobs, NoLater(mem[j], j), NoLater(store[j], j),
         Submit(j) \/ RunnerStep(j) \/ RecordSaveThrows(j) \/ StoreThrows(j)
  PROVE  NoLater(mem'[j], j) /\ NoLater(store'[j], j)
<1>1. NoLater(store'[j], j)
  <2>1. Persist(j) \/ UNCHANGED store
    BY DEF Submit, RunnerStep, RecordSaveThrows, StoreThrows, PersistOrNot,
           SaveQueued, SaveStarted, StopCancelled, BeginStage, OpenGate, SaveAwaiting,
           SaveAttempt, StageReturns, StageThrows, BackoffOver, PostRequest, AwaitDecision,
           GateReturns, SaveStageDone, SaveGateDone, SaveResumed, SaveExhausted, SaveFinal
  <2> QED
    BY <2>1, PersistRow
<1>2. CASE Submit(j)
  <2>1. mem'[j] = [Absent EXCEPT !.status = "queued"]
    BY <1>2 DEF Submit, TypeInv, TypeOK
  <2>2. NoLater(mem'[j], j)
    BY <2>1 DEF NoLater, Absent
  <2> QED
    BY <1>1, <2>2
<1>3. CASE StageReturns(j)
  BY <1>1, <1>3, ReturnRow
<1>4. CASE ~Submit(j) /\ ~StageReturns(j)
  <2>1. \/ \E status, error : SetStatus(j, status) \/ EndWith(j, status, error)
        \/ \E status : SetRecord(j, status)
        \/ UNCHANGED mem
    BY <1>4
       DEF RunnerStep, RecordSaveThrows, StoreThrows, BeginAttempt, AttemptFails, Advance,
           SaveQueued, SaveStarted, StopCancelled, BeginStage, OpenGate, SaveAwaiting,
           SaveAttempt, StageThrows, BackoffOver, PostRequest, AwaitDecision, GateReturns,
           SaveStageDone, SaveGateDone, SaveResumed, SaveExhausted, SaveFinal
  <2> QED
    BY <1>1, <2>1, StatusRow, RecordRow
<1> QED
  BY <1>1, <1>2, <1>3, <1>4

LEMMA RunnerKeepsJobInv ==
  ASSUME TypeInv, NEW j \in Jobs, JobInv(j),
         Submit(j) \/ RunnerStep(j) \/ RecordSaveThrows(j) \/ StoreThrows(j)
  PROVE  JobInv(j)'
<1>0. /\ cur[j] \in Nat /\ Stage \subseteq Nat /\ waits[j] \in 0..MaxAttempts
      /\ Gate \in Nat /\ GateControl(j) /\ Passed(j)
  BY ConfigAssumption
     DEF ConfigAssumption, TypeInv, TypeOK, Gates!TypeOK, Stage, JobInv
<1>1. NoLater(mem'[j], j) /\ NoLater(store'[j], j)
  BY RunnerRows DEF JobInv
<1>2. CASE AwaitDecision(j)
  <2>1. /\ pc[j] = "notified" /\ pc'[j] = "wait" /\ cur' = cur
        /\ waits'[j] = waits[j] + 1
    BY <1>2 DEF AwaitDecision, Go, Gates!WaitForApproval, TypeInv, TypeOK, Gates!TypeOK
  <2>2. cur[j] = Gate
    BY <1>0, <2>1 DEF GateControl
  <2>3. GateControl(j)' /\ Passed(j)'
    BY <1>0, <2>1, <2>2 DEF GateControl, Passed
  <2> QED
    BY <1>1, <2>1, <2>3 DEF JobInv, NoLater
<1>3. CASE ~AwaitDecision(j)
  <2>0. waits' = waits /\ Verdict(j)' = Verdict(j)
    <3>1. UNCHANGED gateVars
      BY <1>3, RunnerGate DEF Submit, runnerOnly
    <3> QED
      BY <3>1 DEF gateVars, Verdict
  <2>1. CASE SaveStageDone(j) \/ SaveResumed(j)
    <3>1. /\ pc'[j] \in {"finish", "check"}
          /\ \/ cur'[j] = cur[j]
             \/ /\ cur'[j] = cur[j] + 1
                /\ cur[j] # Gate \/ pc[j] = "resume"
      BY <2>1 DEF SaveStageDone, SaveResumed, Advance, Go, TypeInv, TypeOK
    <3>2. GateControl(j)'
      BY <3>1 DEF GateControl
    <3>3. Passed(j)'
      BY <1>0, <2>0, <3>1 DEF Passed, GateControl
    <3>4. ASSUME NEW k \in Stage, k > cur'[j]
          PROVE  k > cur[j]
      <4>1. k \in Nat /\ cur[j] \in Nat
        BY <1>0
      <4>2. cur'[j] = cur[j] \/ cur'[j] = cur[j] + 1
        BY <3>1
      <4> QED
        BY <3>4, <4>1, <4>2
    <3>5. NoLater(mem[j], j)' /\ NoLater(store[j], j)'
      BY <1>1, <3>4 DEF NoLater
    <3> QED
      BY <3>2, <3>3, <3>5 DEF JobInv
  <2>2. CASE ~SaveStageDone(j) /\ ~SaveResumed(j)
    <3>1. cur' = cur
      BY <1>3, <2>2
         DEF Submit, RunnerStep, RecordSaveThrows, StoreThrows, BeginAttempt, AttemptFails,
             SaveQueued, SaveStarted, StopCancelled, BeginStage, OpenGate, SaveAwaiting,
             SaveAttempt, StageReturns, StageThrows, BackoffOver, PostRequest, GateReturns,
             SaveGateDone, SaveExhausted, SaveFinal
    <3>2. GateControl(j)'
      <4>1. CASE GateReturns(j)
        BY <1>0, <2>0, <3>1, <4>1 DEF GateReturns, GateControl, Go, TypeInv, TypeOK
      <4>2. CASE SaveGateDone(j)
        BY <1>0, <2>0, <3>1, <4>2 DEF SaveGateDone, GateControl, Go, TypeInv, TypeOK
      <4>3. CASE SaveAttempt(j)
        BY <1>0, <2>0, <3>1, <4>3 DEF SaveAttempt, GateControl, Go, TypeInv, TypeOK
      <4>4. CASE OpenGate(j) \/ PostRequest(j) \/ StageReturns(j)
        BY <1>0, <2>0, <3>1, <4>4
           DEF OpenGate, PostRequest, StageReturns, GateControl, Go, TypeInv, TypeOK
      <4>5. CASE /\ ~GateReturns(j) /\ ~SaveGateDone(j) /\ ~SaveAttempt(j)
                 /\ ~OpenGate(j) /\ ~PostRequest(j) /\ ~StageReturns(j)
        <5>1. pc'[j] \in {"enqueue", "start", "check", "done", "attempt", "exhausted",
                          "backoff", "fail", "dead"}
          BY <1>3, <2>2, <4>5
             DEF Submit, RunnerStep, RecordSaveThrows, StoreThrows, Go, BeginAttempt,
                 AttemptFails, SaveQueued, SaveStarted, StopCancelled, BeginStage,
                 SaveAwaiting, StageThrows, BackoffOver, SaveExhausted, SaveFinal,
                 TypeInv, TypeOK
        <5> QED
          BY <5>1 DEF GateControl
      <4> QED
        BY <4>1, <4>2, <4>3, <4>4, <4>5
    <3>3. Passed(j)'
      BY <1>0, <2>0, <3>1 DEF Passed
    <3> QED
      BY <1>1, <3>1, <3>2, <3>3 DEF JobInv, NoLater
  <2> QED
    BY <2>1, <2>2
<1> QED
  BY <1>2, <1>3

(* Handlers carry rows that are no later than the job, and write them.     *)
LEMMA RequestKeepsRows ==
  ASSUME TypeInv, PassInv, NEW r \in Requests,
         ReceiveRequest(r) \/ RequestStep(r) \/ SaveRequestThrows(r)
  PROVE  /\ RequestRows'
         /\ \A j \in Jobs : NoLater(mem'[j], j) /\ NoLater(store'[j], j)
<1>0. /\ req \in [Requests -> Request] /\ req[r].job \in Jobs /\ req[r].row \in Job
      /\ store \in [Jobs -> Job] /\ mem \in [Jobs -> Job]
  BY DEF TypeInv, TypeOK, Request
<1>1. /\ \A i \in Requests : NoLater(req[i].row, req[i].job)
      /\ \A j \in Jobs : NoLater(mem[j], j) /\ NoLater(store[j], j)
  BY DEF PassInv, RequestRows, JobInv
<1>2. \A j \in Jobs : NoLater(Absent, j)
  BY DEF NoLater, Absent
<1>3. \A j \in Jobs : NoLater(View(j), j)
  BY <1>0, <1>1 DEF NoLater, View, Job
<1>4. cur' = cur
  BY DEF ReceiveRequest, RequestStep, SaveRequestThrows, RefuseRequest, AcceptApprove,
         AcceptReject, AcceptCancel, Accept, SaveRequest, NotifyRequest, requestOnly, runnerVars
<1>5. req' = [req EXCEPT ![r] = req'[r]]
  BY <1>0 DEF ReceiveRequest, RequestStep, SaveRequestThrows, RefuseRequest, AcceptApprove,
              AcceptReject, AcceptCancel, Accept, SaveRequest, NotifyRequest, Answer
<1>6. NoLater(req'[r].row, req'[r].job)
  <2>1. CASE ReceiveRequest(r)
    BY <1>0, <1>3, <2>1 DEF ReceiveRequest, Request
  <2>2. CASE AcceptApprove(r) \/ AcceptReject(r) \/ AcceptCancel(r)
    <3>1. req'[r].job = req[r].job /\ req'[r].row.recs = req[r].row.recs
      BY <1>0, <2>2 DEF AcceptApprove, AcceptReject, AcceptCancel, Accept, Request, Job
    <3> QED
      BY <1>1, <3>1 DEF NoLater
  <2>3. CASE RefuseRequest(r) \/ SaveRequest(r) \/ SaveRequestThrows(r) \/ NotifyRequest(r)
    <3>1. /\ req'[r].job = req[r].job
          /\ req'[r].row = Absent
      BY <1>0, <2>3 DEF RefuseRequest, SaveRequest, SaveRequestThrows, NotifyRequest, Answer,
                        Request
    <3> QED
      BY <1>0, <1>2, <3>1
  <2> QED
    BY <2>1, <2>2, <2>3 DEF RequestStep
<1>7. RequestRows'
  <2>1. \A i \in Requests \ {r} : req'[i] = req[i]
    BY <1>0, <1>5
  <2> QED
    BY <1>1, <1>4, <1>6, <2>1 DEF RequestRows, NoLater
<1>8. \A j \in Jobs : NoLater(store'[j], j)
  <2>1. WriteRow(r) \/ UNCHANGED store
    BY DEF ReceiveRequest, RequestStep, SaveRequestThrows, RefuseRequest, AcceptApprove,
           AcceptReject, AcceptCancel, Accept, SaveRequest, NotifyRequest
  <2> QED
    BY <1>0, <1>1, <2>1 DEF WriteRow
<1>9. \A j \in Jobs : NoLater(mem'[j], j)
  <2>0. mem' = mem \/ mem' = [mem EXCEPT ![req[r].job].approved = TRUE]
    BY DEF ReceiveRequest, RequestStep, SaveRequestThrows, RefuseRequest, AcceptApprove,
           AcceptReject, AcceptCancel, SaveRequest, NotifyRequest, requestOnly, runnerVars
  <2>1. \A j \in Jobs : mem'[j].recs = mem[j].recs
    <3>1. CASE mem' = [mem EXCEPT ![req[r].job].approved = TRUE]
      <4> SUFFICES ASSUME NEW j \in Jobs PROVE mem'[j].recs = mem[j].recs
        OBVIOUS
      <4>1. mem'[j] = mem[j] \/ mem'[j] = [mem[j] EXCEPT !.approved = TRUE]
        BY <1>0, <3>1
      <4>2. mem[j] \in Job
        BY <1>0
      <4> QED
        BY <4>1, <4>2 DEF Job
    <3> QED
      BY <2>0, <3>1
  <2> QED
    BY <1>1, <2>1 DEF NoLater
<1> QED
  BY <1>7, <1>8, <1>9

LEMMA SettleOnly ==
  ASSUME TypeOK, NEW j \in Jobs, NEW v, NEW result, Gates!Settle(j, v, result),
         NEW i \in Jobs, NEW w \in 1..MaxAttempts
  PROVE  outcome'[i][w] = outcome[i][w] \/ (i = j /\ w = v /\ outcome'[i][w] = result)
<1>1. outcome \in [Jobs -> [1..MaxAttempts -> Gates!Outcomes]]
  BY DEF TypeOK, Gates!TypeOK, Gates!Promise
<1> QED
  BY <1>1 DEF Gates!Settle

(* What notifyApproval is told is the decision of a person.                *)
LEMMA NotifiedIsHuman ==
  ASSUME TypeInv, NEW j \in Jobs, NEW decision \in Decisions,
         Gates!NotifyApproval(j, decision) \/ UNCHANGED gateVars,
         NEW i \in Jobs, NEW w \in 1..MaxAttempts, outcome'[i][w] = "approved"
  PROVE  outcome[i][w] = "approved" \/ (i = j /\ decision = "approved")
BY SettleOnly DEF Gates!NotifyApproval, gateVars, TypeInv

LEMMA OtherGateSteps ==
  ASSUME TypeInv, NEW i \in Jobs, NEW w \in 1..MaxAttempts, outcome'[i][w] = "approved",
         \/ UNCHANGED gateVars
         \/ \E j \in Jobs : AwaitDecision(j) \/ \E v \in 1..MaxAttempts : Timeout(j, v)
         \/ Crash
  PROVE  outcome[i][w] = "approved"
<1>1. CASE UNCHANGED gateVars
  BY <1>1 DEF gateVars
<1>2. ASSUME NEW j \in Jobs, AwaitDecision(j)
      PROVE  outcome[i][w] = "approved"
  BY <1>2 DEF AwaitDecision, Gates!WaitForApproval
<1>3. ASSUME NEW j \in Jobs, NEW v \in 1..MaxAttempts, Timeout(j, v)
      PROVE  outcome[i][w] = "approved"
  BY <1>3, SettleOnly DEF Timeout, Gates!TimeoutFires, TypeInv
<1>4. CASE Crash
  BY <1>4 DEF Crash, Gates!Restart, Gates!Promise
<1> QED
  BY <1>1, <1>2, <1>3, <1>4

LEMMA RequestKeepsHuman ==
  ASSUME TypeInv, PassInv, NEW r \in Requests,
         ReceiveRequest(r) \/ RequestStep(r) \/ SaveRequestThrows(r)
  PROVE  ApprovalIsHuman'
<1>0. /\ req \in [Requests -> Request] /\ req[r].job \in Jobs
      /\ human \in [Jobs -> SUBSET (Decisions \cup {"cancelled"})]
  BY DEF TypeInv, TypeOK, Request
<1>1. \A j \in Jobs : human[j] \subseteq human'[j]
  BY <1>0 DEF ReceiveRequest, RequestStep, SaveRequestThrows, RefuseRequest, AcceptApprove,
         AcceptReject, AcceptCancel, Accept, SaveRequest, NotifyRequest, requestOnly
<1>2. \A i \in Requests \ {r} : req'[i] = req[i]
  BY <1>0 DEF ReceiveRequest, RequestStep, SaveRequestThrows, RefuseRequest, AcceptApprove,
              AcceptReject, AcceptCancel, Accept, SaveRequest, NotifyRequest, Answer
<1>3. req'[r].pc \in {"save", "notify"} /\ req'[r].kind = "approve" =>
        "approved" \in human'[req'[r].job]
  <2>1. CASE AcceptApprove(r)
    BY <1>0, <2>1 DEF AcceptApprove, Accept, Request
  <2>2. CASE AcceptReject(r) \/ AcceptCancel(r)
    BY <1>0, <2>2 DEF AcceptReject, AcceptCancel, Accept, Request
  <2>3. CASE SaveRequest(r)
    <3>1. req[r].pc = "save"
      BY <2>3 DEF SaveRequest
    <3>2. \/ req'[r].pc = "done"
          \/ req'[r].kind = req[r].kind /\ req'[r].job = req[r].job
      BY <1>0, <2>3 DEF SaveRequest, Answer, Request
    <3> QED
      BY <1>0, <1>1, <3>1, <3>2 DEF PassInv, ApprovalIsHuman
  <2>4. CASE ReceiveRequest(r) \/ RefuseRequest(r) \/ SaveRequestThrows(r) \/ NotifyRequest(r)
    <3>1. req'[r].pc \in {"check", "done"}
      BY <1>0, <2>4 DEF ReceiveRequest, RefuseRequest, SaveRequestThrows, NotifyRequest,
                        Answer, Request
    <3> QED
      BY <3>1
  <2> QED
    BY <2>1, <2>2, <2>3, <2>4 DEF RequestStep
<1>4. ASSUME NEW j \in Jobs, NEW w \in 1..MaxAttempts, outcome'[j][w] = "approved"
      PROVE  "approved" \in human'[j]
  <2>1. CASE NotifyRequest(r) /\ req[r].kind = "approve"
    <3>1. "approved" \in human[req[r].job]
      BY <2>1 DEF NotifyRequest, PassInv, ApprovalIsHuman
    <3>2. Gates!NotifyApproval(req[r].job, "approved") \/ UNCHANGED gateVars
      BY <2>1 DEF NotifyRequest, Gates!NotifyOrIgnore, Gates!gateVars, gateVars
    <3>3. outcome[j][w] = "approved" \/ j = req[r].job
      BY <1>0, <1>4, <3>2, NotifiedIsHuman DEF Decisions
    <3> QED
      BY <1>0, <1>1, <3>1, <3>3 DEF PassInv, ApprovalIsHuman
  <2>2. CASE ~(NotifyRequest(r) /\ req[r].kind = "approve")
    <3>1. Gates!NotifyApproval(req[r].job, "rejected") \/ UNCHANGED gateVars
      BY <2>2 DEF ReceiveRequest, RequestStep, SaveRequestThrows, RefuseRequest, AcceptApprove,
                  AcceptReject, AcceptCancel, Accept, SaveRequest, NotifyRequest,
                  Gates!NotifyOrIgnore, Gates!gateVars, gateVars
    <3>2. outcome[j][w] = "approved"
      BY <1>0, <1>4, <3>1, NotifiedIsHuman DEF Decisions
    <3> QED
      BY <1>1, <3>2 DEF PassInv, ApprovalIsHuman
  <2> QED
    BY <2>1, <2>2
<1>5. \A i \in Requests : req[i].job \in Jobs
  BY <1>0 DEF Request
<1>6. ASSUME NEW i \in Requests, req'[i].pc \in {"save", "notify"}, req'[i].kind = "approve"
      PROVE  "approved" \in human'[req'[i].job]
  <2>1. CASE i = r
    BY <1>3, <1>6, <2>1
  <2>2. CASE i # r
    BY <1>1, <1>2, <1>5, <1>6, <2>2 DEF PassInv, ApprovalIsHuman
  <2> QED
    BY <2>1, <2>2
<1> QED
  BY <1>4, <1>6 DEF ApprovalIsHuman

LEMMA InitPassInv == Init => PassInv
<1> SUFFICES ASSUME Init PROVE PassInv
  OBVIOUS
<1>0. TypeOK
  BY InitTypeInv DEF TypeInv
<1>1. \A j \in Jobs : NoLater(Absent, j)
  BY DEF NoLater, Absent
<1>2. \A j \in Jobs : Passed(j)
  <2>1. \A j \in Jobs : Gate > 0 => ~(cur[j] > Gate)
    BY ConfigAssumption DEF Init, ConfigAssumption
  <2> QED
    BY <2>1 DEF Passed
<1>3. \A j \in Jobs : JobInv(j)
  BY <1>1, <1>2 DEF Init, JobInv, GateControl
<1>4. RequestRows
  BY <1>0, <1>1 DEF Init, RequestRows, TypeOK, Request
<1>5. ApprovalIsHuman
  <2>1. \A j \in Jobs, w \in 1..MaxAttempts : outcome[j][w] = "pending"
    BY DEF Init, Gates!Init, Gates!Promise
  <2>2. \A r \in Requests : req[r].pc = "idle"
    BY DEF Init
  <2> QED
    BY <2>1, <2>2 DEF ApprovalIsHuman
<1> QED
  BY <1>3, <1>4, <1>5 DEF PassInv

(* Steps of nobody's handler: approvals keep their person.                 *)
LEMMA HumanStutter ==
  ASSUME TypeInv, PassInv, UNCHANGED <<req, human>>,
         \A j \in Jobs, w \in 1..MaxAttempts :
           outcome'[j][w] = "approved" => outcome[j][w] = "approved"
  PROVE  ApprovalIsHuman'
BY DEF PassInv, ApprovalIsHuman

LEMMA PassStep == TypeInv /\ PassInv /\ [Next]_vars => PassInv'
<1> SUFFICES ASSUME TypeInv, PassInv, [Next]_vars
             PROVE  PassInv'
  OBVIOUS
<1>0. /\ \A j \in Jobs : JobInv(j)
      /\ \A j \in Jobs : NoLater(mem[j], j) /\ NoLater(store[j], j)
      /\ \A j \in Jobs : cur[j] \in Nat
      /\ \A r \in Requests : req[r].job \in Jobs
      /\ \A j \in Jobs : NoLater(Absent, j)
  BY DEF PassInv, JobInv, TypeInv, TypeOK, Stage, Request, NoLater, Absent
<1>1. ASSUME NEW j \in Jobs,
             Submit(j) \/ RunnerStep(j) \/ RecordSaveThrows(j) \/ StoreThrows(j)
      PROVE  PassInv'
  <2>1. \A i \in Jobs : JobInv(i)'
    <3>1. JobInv(j)'
      BY <1>0, <1>1, RunnerKeepsJobInv
    <3>2. ASSUME NEW i \in Jobs \ {j}
          PROVE  JobInv(i)'
      <4>1. /\ pc'[i] = pc[i] /\ cur'[i] = cur[i] /\ mem'[i] = mem[i]
            /\ store'[i] = store[i] /\ waits'[i] = waits[i]
        BY <1>1, RunnerIsLocal
      <4> QED
        BY <1>0, <4>1, JobStutter
    <3> QED
      BY <3>1, <3>2
  <2>2. UNCHANGED <<req, human>>
    BY <1>1 DEF Submit, RunnerStep, RecordSaveThrows, StoreThrows, runnerOnly, peopleVars,
           SaveQueued, SaveStarted, StopCancelled, BeginStage, OpenGate, SaveAwaiting,
           SaveAttempt, StageReturns, StageThrows, BackoffOver, PostRequest, AwaitDecision,
           GateReturns, SaveStageDone, SaveGateDone, SaveResumed, SaveExhausted, SaveFinal
  <2>3. RequestRows'
    <3>1. ASSUME NEW i \in Jobs, NEW k \in Stage, k > cur'[i]
          PROVE  k > cur[i]
      <4>1. k \in Nat /\ cur[i] \in Nat
        BY <1>0 DEF Stage
      <4>2. cur'[i] = cur[i] \/ cur'[i] = cur[i] + 1
        BY <1>1 DEF Submit, RunnerStep, RecordSaveThrows, StoreThrows, BeginAttempt,
             AttemptFails, Advance, SaveQueued, SaveStarted, StopCancelled, BeginStage,
             OpenGate, SaveAwaiting, SaveAttempt, StageReturns, StageThrows, BackoffOver,
             PostRequest, AwaitDecision, GateReturns, SaveStageDone, SaveGateDone,
             SaveResumed, SaveExhausted, SaveFinal, TypeInv, TypeOK
      <4> QED
        BY <3>1, <4>1, <4>2
    <3> QED
      BY <1>0, <2>2, <3>1 DEF PassInv, RequestRows, NoLater
  <2>4. ApprovalIsHuman'
    <3>1. UNCHANGED gateVars \/ AwaitDecision(j)
      BY <1>1, RunnerGate DEF Submit, runnerOnly
    <3> QED
      BY <2>2, <3>1, HumanStutter, OtherGateSteps
  <2> QED
    BY <2>1, <2>3, <2>4 DEF PassInv
<1>2. ASSUME NEW j \in Jobs, NEW decision \in Decisions, SlackClick(j, decision)
      PROVE  PassInv'
  <2>1. UNCHANGED <<pc, cur, attempt, mem, store, req, crashes>>
    BY <1>2 DEF SlackClick, runnerVars
  <2>2. Gates!NotifyApproval(j, decision) \/ UNCHANGED gateVars
    BY <1>2 DEF SlackClick, Gates!NotifyOrIgnore, Gates!gateVars, gateVars
  <2>3. waits' = waits
    BY <2>2 DEF Gates!NotifyApproval, gateVars
  <2>4. \A i \in Jobs : JobInv(i)'
    BY <1>0, <2>1, <2>3, JobStutter
  <2>5. /\ \A i \in Jobs : human[i] \subseteq human'[i]
        /\ decision \in human'[j]
    BY <1>2 DEF SlackClick, TypeInv, TypeOK
  <2>6. ApprovalIsHuman'
    BY <1>0, <2>1, <2>2, <2>5, NotifiedIsHuman DEF PassInv, ApprovalIsHuman
  <2> QED
    BY <2>1, <2>4, <2>6 DEF PassInv, RequestRows, NoLater
<1>3. ASSUME NEW j \in Jobs, NEW w \in 1..MaxAttempts, Timeout(j, w)
      PROVE  PassInv'
  <2>1. UNCHANGED <<pc, cur, mem, store, req, human, waits>>
    BY <1>3 DEF Timeout, Gates!TimeoutFires, runnerVars, peopleVars
  <2>2. \A i \in Jobs : JobInv(i)'
    BY <1>0, <2>1, JobStutter
  <2>3. ApprovalIsHuman'
    BY <1>3, <2>1, HumanStutter, OtherGateSteps
  <2> QED
    BY <2>1, <2>2, <2>3 DEF PassInv, RequestRows, NoLater
<1>4. ASSUME NEW r \in Requests, ReceiveRequest(r) \/ RequestStep(r) \/ SaveRequestThrows(r)
      PROVE  PassInv'
  <2>1. UNCHANGED <<pc, cur, waits>>
    <3>1. UNCHANGED <<pc, cur>>
      BY <1>4 DEF ReceiveRequest, RequestStep, SaveRequestThrows, RefuseRequest, AcceptApprove,
                  AcceptReject, AcceptCancel, Accept, SaveRequest, NotifyRequest, requestOnly,
                  runnerVars
    <3>2. waits' = waits
      BY <1>4, RequestGate DEF TypeInv, Gates!NotifyApproval, gateVars
    <3> QED
      BY <3>1, <3>2
  <2>2. \A i \in Jobs : JobInv(i)'
    BY <1>0, <1>4, <2>1, RequestKeepsRows, JobStutter
  <2> QED
    BY <1>4, <2>2, RequestKeepsRows, RequestKeepsHuman DEF PassInv
<1>5. CASE Crash
  <2>1. /\ UNCHANGED <<cur, waits, human>>
        /\ \A i \in Jobs : /\ pc'[i] \in {"none", "dead"}
                           /\ mem'[i] = Absent
                           /\ store'[i] \in {store[i], Absent}
    BY <1>5 DEF Crash, Gates!Restart, TypeInv, TypeOK
  <2>2. \A i \in Jobs : JobInv(i)'
    BY <1>0, <2>1, JobStutter
  <2>3. ASSUME NEW r \in Requests
        PROVE  /\ req'[r].job = req[r].job
               /\ req'[r].row \in {req[r].row, Absent}
               /\ req'[r].pc \notin {"save", "notify"}
    BY <1>5 DEF Crash, TypeInv, TypeOK, Request
  <2>4. RequestRows'
    BY <1>0, <2>1, <2>3 DEF PassInv, RequestRows, NoLater
  <2>5. ApprovalIsHuman'
    BY <1>5, <2>1, <2>3, OtherGateSteps DEF PassInv, ApprovalIsHuman
  <2> QED
    BY <2>2, <2>4, <2>5 DEF PassInv
<1>6. CASE UNCHANGED vars
  <2>1. UNCHANGED <<pc, cur, mem, store, req, human, waits, outcome>>
    BY <1>6 DEF vars, runnerVars, peopleVars, gateVars
  <2>2. \A i \in Jobs : JobInv(i)'
    BY <1>0, <2>1, JobStutter
  <2> QED
    BY <2>1, <2>2, HumanStutter DEF PassInv, RequestRows, NoLater
<1> QED
  BY <1>1, <1>2, <1>3, <1>4, <1>5, <1>6 DEF Next

(* The approval gate: no stage after it starts, and no row shows one that  *)
(* did, without a person's approval that settled the awaited promise.      *)
THEOREM GateHolds == Spec => []NothingRunsUnapproved
<1>1. Init => TypeInv /\ PassInv
  BY InitTypeInv, InitPassInv
<1>2. TypeInv /\ PassInv /\ [Next]_vars => (TypeInv /\ PassInv)'
  BY TypeStep, PassStep
<1>3. TypeInv /\ PassInv => NothingRunsUnapproved
  BY PassInvSuffices
<1> QED
  BY <1>1, <1>2, <1>3, PTL DEF Spec
=============================================================================
