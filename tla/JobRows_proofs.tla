--------------------------- MODULE JobRows_proofs ---------------------------
(***************************************************************************)
(* Proofs about the copies of a job: what the runner holds, what the store *)
(* has, and what a handler carries between its read and its write.         *)
(*                                                                         *)
(* MemInv says what the runner's own object looks like in each of its      *)
(* states; it holds for any workflow, store, handlers and crashes.  From   *)
(* it follow that every row is the picture of one moment (RowsCohere) and, *)
(* where nobody but the runner writes, what the stored row is at each      *)
(* state (StoreInv), hence that the daemon implements JobLifecycle.        *)
(* EndsHold adds what handlers carry: it says who may still write to the   *)
(* row of a job that has ended.                                            *)
(* WaitedOnce, that a gate is waited at once unless saves throw, gives the *)
(* properties of the gate's answers.                                       *)
(*                                                                         *)
(* The last part is about the store that shares its objects with the       *)
(* runner (MemoryJobStore). FlagInv says what a job's two copies may say   *)
(* at each point of its run, RequestInv what a handler that approves has   *)
(* achieved by then: it sets the flag on the runner's own object before it *)
(* resolves the gate, the runner never clears it, and the note is only     *)
(* written past the gate.                                                  *)
(***************************************************************************)
EXTENDS JobOrchestrator_proofs

(***************************************************************************)
(* The runner's object                                                     *)
(***************************************************************************)

Going(j) == pc[j] \notin {"done", "dead"}

(* What the record of the stage in hand may say in state p of a runner.    *)
Held(p) ==
  IF p \in {"none", "enqueue", "start", "check", "openGate"} THEN {"pending"}
  ELSE IF p \in {"attempt", "run", "notify", "notified", "wait"} THEN {"running"}
  ELSE IF p = "backoff" THEN {"running", "completed"}
  ELSE IF p \in {"record", "resume", "reject", "finish"} THEN {"completed"}
  ELSE {"failed"}

AtStage(k) == IF k = Gate THEN "awaiting_approval" ELSE "running"

MemStatus(p, k) ==
  IF p = "none" THEN "none"
  ELSE IF p = "enqueue" THEN "queued"
  ELSE IF p \in {"start", "check", "resume"} THEN "running"
  ELSE IF p = "openGate" THEN "awaiting_approval"
  ELSE IF p = "finish" THEN "completed"
  ELSE IF p = "fail" THEN "failed"
  ELSE IF p = "reject" THEN "rejected"
  ELSE AtStage(k)

MemError(p) == IF p = "fail" THEN "stage" ELSE IF p = "reject" THEN "rejected" ELSE "none"

(* Where in the workflow a runner in state p may be.                       *)
Place(p, k) ==
  /\ p \in {"none", "enqueue", "start"} => k = 1
  /\ p \in {"openGate", "notify", "notified", "wait", "resume", "reject"} => k = Gate
  /\ p = "run" => k # Gate
  /\ p = "finish" => k = NumStages

(* The stages before k are done, those after it have not begun.            *)
Picture(recs, k) ==
  /\ \A l \in Stage : l < k => recs[l] = "completed"
  /\ \A l \in Stage : l > k => recs[l] = "pending"

RunnerHolds(row, p, k) ==
  /\ Place(p, k)
  /\ Picture(row.recs, k)
  /\ row.recs[k] \in Held(p)
  /\ row.status = MemStatus(p, k)
  /\ row.error = MemError(p)

MemInv(j) == Going(j) => RunnerHolds(mem[j], pc[j], cur[j])

(* The helpers of the runner's actions, as they act on one object.         *)
LEMMA RecordEffect ==
  ASSUME TypeOK, NEW j \in Jobs, NEW status, SetRecord(j, status)
  PROVE  /\ mem'[j].recs[cur[j]] = status
         /\ \A l \in Stage : l # cur[j] => mem'[j].recs[l] = mem[j].recs[l]
         /\ mem'[j].status = mem[j].status /\ mem'[j].error = mem[j].error
BY DEF SetRecord, TypeOK, Job

LEMMA StatusEffect ==
  ASSUME TypeOK, NEW j \in Jobs, NEW status, SetStatus(j, status)
  PROVE  /\ mem'[j].recs = mem[j].recs
         /\ mem'[j].status = status /\ mem'[j].error = mem[j].error
BY DEF SetStatus, TypeOK, Job

LEMMA EndEffect ==
  ASSUME TypeOK, NEW j \in Jobs, NEW status, NEW error, EndWith(j, status, error)
  PROVE  /\ mem'[j].recs = mem[j].recs
         /\ mem'[j].status = status /\ mem'[j].error = error
BY DEF EndWith, TypeOK, Job

LEMMA RunnerKeepsMem ==
  ASSUME TypeInv, NEW j \in Jobs, MemInv(j),
         Submit(j) \/ RunnerStep(j) \/ RecordSaveThrows(j) \/ StoreThrows(j)
  PROVE  MemInv(j)'
<1> USE DEF MemInv, Going, RunnerHolds, Picture, Go
<1>0. /\ TypeOK /\ cur[j] \in Stage /\ Stage \subseteq Nat /\ pc \in [Jobs -> Control]
      /\ NumStages \in Nat /\ Gate \in Nat
      /\ mem[j] \in Job /\ mem \in [Jobs -> Job] /\ cur \in [Jobs -> Stage]
  BY ConfigAssumption DEF ConfigAssumption, TypeInv, TypeOK, Stage
<1>1. CASE Submit(j)
  <2>1. pc[j] = "none" /\ pc'[j] = "enqueue" /\ cur'[j] = cur[j]
    BY <1>0, <1>1 DEF Submit
  <2>2. mem'[j] = [Absent EXCEPT !.status = "queued"]
    BY <1>0, <1>1 DEF Submit
  <2>3. /\ \A l \in Stage : mem'[j].recs[l] = "pending"
        /\ mem'[j].status = "queued" /\ mem'[j].error = "none"
    BY <2>2 DEF Absent
  <2>4. cur[j] = 1
    BY <2>1 DEF Place
  <2> QED
    BY <1>0, <2>1, <2>3, <2>4 DEF Place, Held, MemStatus, MemError, Stage
<1>2. CASE SaveQueued(j)
  BY <1>0, <1>2, StatusEffect DEF SaveQueued, Place, Held, MemStatus, MemError
<1>3. CASE SaveStarted(j)
  BY <1>0, <1>3 DEF SaveStarted, Place, Held, MemStatus, MemError
<1>4. CASE StopCancelled(j) \/ SaveFinal(j) \/ StoreThrows(j)
  BY <1>0, <1>4 DEF StopCancelled, SaveFinal, StoreThrows
<1>5. CASE BeginStage(j)
  BY <1>0, <1>5, RecordEffect
     DEF BeginStage, BeginAttempt, Place, Held, MemStatus, MemError, AtStage
<1>6. CASE OpenGate(j)
  BY <1>0, <1>6, StatusEffect DEF OpenGate, Place, Held, MemStatus, MemError
<1>7. CASE SaveAwaiting(j)
  <2>1. /\ pc[j] = "openGate" /\ pc'[j] = "attempt" /\ cur'[j] = cur[j]
        /\ SetRecord(j, "running")
    BY <1>0, <1>7 DEF SaveAwaiting, BeginAttempt
  <2>2. /\ mem'[j].recs[cur[j]] = "running"
        /\ \A l \in Stage : l # cur[j] => mem'[j].recs[l] = mem[j].recs[l]
        /\ mem'[j].status = mem[j].status /\ mem'[j].error = mem[j].error
    BY <1>0, <2>1, RecordEffect
  <2>3. cur[j] = Gate /\ mem[j].status = "awaiting_approval" /\ mem[j].error = "none"
    BY <2>1 DEF Place, MemStatus, MemError
  <2> QED
    BY <1>0, <2>1, <2>2, <2>3 DEF Place, Held, MemStatus, MemError, AtStage
<1>8. CASE SaveAttempt(j)
  BY <1>0, <1>8 DEF SaveAttempt, Place, Held, MemStatus, MemError, AtStage
<1>9. CASE StageReturns(j)
  BY <1>0, <1>9 DEF StageReturns, Place, Held, MemStatus, MemError, AtStage, Job
<1>10. CASE StageThrows(j) \/ RecordSaveThrows(j)
  <2>1. /\ pc[j] \in {"run", "record"} /\ cur'[j] = cur[j]
        /\ \/ pc'[j] = "exhausted" /\ SetRecord(j, "failed")
           \/ pc'[j] = "backoff" /\ mem' = mem
    BY <1>0, <1>10 DEF StageThrows, RecordSaveThrows, AttemptFails
  <2>2. CASE pc'[j] = "exhausted" /\ SetRecord(j, "failed")
    <3>1. /\ mem'[j].recs[cur[j]] = "failed"
          /\ \A l \in Stage : l # cur[j] => mem'[j].recs[l] = mem[j].recs[l]
          /\ mem'[j].status = mem[j].status /\ mem'[j].error = mem[j].error
      BY <1>0, <2>2, RecordEffect
    <3> QED
      BY <1>0, <2>1, <2>2, <3>1 DEF Place, Held, MemStatus, MemError, AtStage
  <2>3. CASE pc'[j] = "backoff" /\ mem' = mem
    BY <1>0, <2>1, <2>3 DEF Place, Held, MemStatus, MemError, AtStage
  <2> QED
    BY <2>1, <2>2, <2>3
<1>11. CASE BackoffOver(j)
  BY <1>0, <1>11, RecordEffect
     DEF BackoffOver, BeginAttempt, Place, Held, MemStatus, MemError, AtStage
<1>12. CASE PostRequest(j) \/ AwaitDecision(j)
  BY <1>0, <1>12
     DEF PostRequest, AwaitDecision, Place, Held, MemStatus, MemError, AtStage
<1>13. CASE GateReturns(j)
  BY <1>0, <1>13, RecordEffect
     DEF GateReturns, Place, Held, MemStatus, MemError, AtStage
<1>14. CASE SaveStageDone(j)
  BY <1>0, <1>14, StatusEffect
     DEF SaveStageDone, Advance, Place, Held, MemStatus, MemError, AtStage, Stage
<1>15. CASE SaveGateDone(j)
  BY <1>0, <1>15, StatusEffect, EndEffect
     DEF SaveGateDone, Place, Held, MemStatus, MemError, AtStage
<1>16. CASE SaveResumed(j)
  BY <1>0, <1>16, StatusEffect
     DEF SaveResumed, Advance, Place, Held, MemStatus, MemError, AtStage, Stage
<1>17. CASE SaveExhausted(j)
  BY <1>0, <1>17, EndEffect
     DEF SaveExhausted, Place, Held, MemStatus, MemError, AtStage
<1> QED
  BY <1>1, <1>2, <1>3, <1>4, <1>5, <1>6, <1>7, <1>8, <1>9, <1>10, <1>11, <1>12, <1>13,
     <1>14, <1>15, <1>16, <1>17 DEF RunnerStep

(* Handlers, clicks, timers and crashes leave it so.                       *)
LEMMA MemKept ==
  ASSUME NEW j \in Jobs, MemInv(j), cur'[j] = cur[j],
         \/ /\ pc'[j] = pc[j]
            /\ mem'[j].recs = mem[j].recs
            /\ mem'[j].status = mem[j].status /\ mem'[j].error = mem[j].error
         \/ pc'[j] = "dead"
         \/ pc[j] = "none" /\ pc'[j] = "none" /\ mem'[j] = Absent
  PROVE  MemInv(j)'
<1>1. CASE pc'[j] = "dead"
  BY <1>1 DEF MemInv, Going
<1>2. CASE /\ pc'[j] = pc[j] /\ mem'[j].recs = mem[j].recs
           /\ mem'[j].status = mem[j].status /\ mem'[j].error = mem[j].error
  BY <1>2 DEF MemInv, Going, RunnerHolds, Picture
<1>3. CASE pc[j] = "none" /\ pc'[j] = "none" /\ mem'[j] = Absent
  <2>1. cur[j] = 1
    BY <1>3 DEF MemInv, Going, RunnerHolds, Place
  <2>2. /\ \A l \in Stage : mem'[j].recs[l] = "pending"
        /\ mem'[j].status = "none" /\ mem'[j].error = "none"
    BY <1>3 DEF Absent
  <2>3. 1 \in Stage /\ Stage \subseteq Nat
    BY ConfigAssumption DEF ConfigAssumption, Stage
  <2>4. RunnerHolds(mem[j], pc[j], cur[j])'
    BY <1>3, <2>1, <2>2, <2>3
       DEF RunnerHolds, Place, Picture, Held, MemStatus, MemError, Stage
  <2> QED
    BY <2>4 DEF MemInv
<1> QED
  BY <1>1, <1>2, <1>3

LEMMA RequestKeepsMem ==
  ASSUME TypeInv, NEW r \in Requests,
         ReceiveRequest(r) \/ RequestStep(r) \/ SaveRequestThrows(r),
         NEW j \in Jobs
  PROVE  /\ pc'[j] = pc[j] /\ cur'[j] = cur[j]
         /\ mem'[j].recs = mem[j].recs
         /\ mem'[j].status = mem[j].status /\ mem'[j].error = mem[j].error
<1>0. mem \in [Jobs -> Job] /\ mem[j] \in Job
  BY DEF TypeInv, TypeOK
<1>1. pc' = pc /\ cur' = cur
  BY DEF ReceiveRequest, RequestStep, SaveRequestThrows, RefuseRequest, AcceptApprove,
         AcceptReject, AcceptCancel, Accept, SaveRequest, NotifyRequest, requestOnly, runnerVars
<1>2. mem' = mem \/ mem' = [mem EXCEPT ![req[r].job].approved = TRUE]
  BY DEF ReceiveRequest, RequestStep, SaveRequestThrows, RefuseRequest, AcceptApprove,
         AcceptReject, AcceptCancel, SaveRequest, NotifyRequest, requestOnly, runnerVars
<1>3. mem'[j] = mem[j] \/ mem'[j] = [mem[j] EXCEPT !.approved = TRUE]
  BY <1>0, <1>2
<1> QED
  BY <1>0, <1>1, <1>3 DEF Job

MemsHold == \A j \in Jobs : MemInv(j)

LEMMA InitMems == Init => MemsHold
<1> SUFFICES ASSUME Init, NEW j \in Jobs PROVE MemInv(j)
  BY DEF MemsHold
<1>1. pc[j] = "none" /\ cur[j] = 1 /\ mem[j] = Absent
  BY DEF Init
<1>2. 1 \in Stage /\ Stage \subseteq Nat
  BY ConfigAssumption DEF ConfigAssumption, Stage
<1>3. /\ \A l \in Stage : mem[j].recs[l] = "pending"
      /\ mem[j].status = "none" /\ mem[j].error = "none"
  BY <1>1 DEF Absent
<1> QED
  BY <1>1, <1>2, <1>3
     DEF MemInv, RunnerHolds, Place, Picture, Held, MemStatus, MemError, Stage

LEMMA MemStep == TypeInv /\ MemsHold /\ [Next]_vars => MemsHold'
<1> SUFFICES ASSUME TypeInv, MemsHold, [Next]_vars, NEW i \in Jobs
             PROVE  MemInv(i)'
  BY DEF MemsHold
<1>0. MemInv(i)
  BY DEF MemsHold
<1>1. ASSUME NEW j \in Jobs,
             Submit(j) \/ RunnerStep(j) \/ RecordSaveThrows(j) \/ StoreThrows(j)
      PROVE  MemInv(i)'
  <2>1. CASE i = j
    BY <1>0, <1>1, <2>1, RunnerKeepsMem
  <2>2. CASE i # j
    BY <1>0, <1>1, <2>2, RunnerIsLocal, MemKept
  <2> QED
    BY <2>1, <2>2
<1>2. ASSUME NEW j \in Jobs,
             \/ \E decision \in Decisions : SlackClick(j, decision)
             \/ \E w \in 1..MaxAttempts : Timeout(j, w)
      PROVE  MemInv(i)'
  <2>1. UNCHANGED <<pc, cur, mem>>
    BY <1>2 DEF SlackClick, Timeout, runnerVars
  <2> QED
    BY <1>0, <2>1, MemKept
<1>3. ASSUME NEW r \in Requests, ReceiveRequest(r) \/ RequestStep(r) \/ SaveRequestThrows(r)
      PROVE  MemInv(i)'
  BY <1>0, <1>3, RequestKeepsMem, MemKept
<1>4. CASE Crash
  <2>1. /\ cur'[i] = cur[i] /\ mem'[i] = Absent
        /\ pc'[i] = (IF pc[i] = "none" THEN "none" ELSE "dead")
    BY <1>4 DEF Crash
  <2> QED
    BY <1>0, <2>1, MemKept
<1>5. CASE UNCHANGED vars
  BY <1>0, <1>5, MemKept DEF vars, runnerVars
<1> QED
  BY <1>1, <1>2, <1>3, <1>4, <1>5 DEF Next

LEMMA MemsAlwaysHold == Spec => [](TypeInv /\ MemsHold)
<1>1. Init => TypeInv /\ MemsHold
  BY InitTypeInv, InitMems
<1>2. TypeInv /\ MemsHold /\ [Next]_vars => (TypeInv /\ MemsHold)'
  BY TypeStep, MemStep
<1> QED
  BY <1>1, <1>2, PTL DEF Spec

(***************************************************************************)
(* Every row is the picture of one moment                                  *)
(***************************************************************************)

RowOK(row) ==
  /\ row.status \in {"none", "queued"} => \A k \in Stage : row.recs[k] = "pending"
  /\ row.status = "awaiting_approval" => Gate \in Stage /\ Picture(row.recs, Gate)
  /\ row.status = "rejected" => /\ Gate \in Stage /\ row.recs[Gate] = "completed"
                                /\ Picture(row.recs, Gate)
  /\ row.status = "completed" => \A k \in Stage : row.recs[k] = "completed"
  /\ row.error = "stage" => /\ row.status = "failed"
                            /\ \E k \in Stage : row.recs[k] = "failed" /\ Picture(row.recs, k)

(* What the runner may save is coherent at any time.                       *)
LEMMA MemRowOK ==
  ASSUME TypeInv, NEW j \in Jobs, MemInv(j), Going(j)
  PROVE  RowOK(mem[j])
<1>1. RunnerHolds(mem[j], pc[j], cur[j])
  BY DEF MemInv
<1>2. /\ cur[j] \in Stage /\ Stage = 1..NumStages /\ NumStages \in Nat
      /\ pc[j] \in Control
  BY ConfigAssumption DEF ConfigAssumption, TypeInv, TypeOK, Stage
<1>3. mem[j].status = "awaiting_approval" => cur[j] = Gate
  BY <1>1 DEF RunnerHolds, MemStatus, AtStage, Place
<1>4. mem[j].status = "rejected" => pc[j] = "reject" /\ cur[j] = Gate /\ mem[j].recs[Gate] = "completed"
  BY <1>1 DEF RunnerHolds, MemStatus, AtStage, Place, Held
<1>5. mem[j].error = "stage" => mem[j].status = "failed" /\ mem[j].recs[cur[j]] = "failed"
  BY <1>1 DEF RunnerHolds, MemStatus, MemError, Held
<1>6. mem[j].status \in {"none", "queued"} =>
        cur[j] = 1 /\ mem[j].recs[cur[j]] = "pending"
  BY <1>1 DEF RunnerHolds, MemStatus, AtStage, Place, Held
<1>7. mem[j].status = "completed" =>
        cur[j] = NumStages /\ mem[j].recs[cur[j]] = "completed"
  BY <1>1 DEF RunnerHolds, MemStatus, AtStage, Place, Held
<1>8. Picture(mem[j].recs, cur[j])
  BY <1>1 DEF RunnerHolds
<1>9. mem[j].status \in {"none", "queued"} => \A k \in Stage : mem[j].recs[k] = "pending"
  BY <1>2, <1>6, <1>8 DEF Picture
<1>10. mem[j].status = "completed" => \A k \in Stage : mem[j].recs[k] = "completed"
  BY <1>2, <1>7, <1>8 DEF Picture
<1> QED
  BY <1>2, <1>3, <1>4, <1>5, <1>8, <1>9, <1>10 DEF RowOK

LEMMA AbsentRowOK == RowOK(Absent)
BY DEF RowOK, Absent

RowsOK ==
  /\ \A j \in Jobs : RowOK(store[j])
  /\ \A r \in Requests : RowOK(req[r].row)

LEMMA RunnerSaves ==
  ASSUME NEW j \in Jobs,
         Submit(j) \/ RunnerStep(j) \/ RecordSaveThrows(j) \/ StoreThrows(j)
  PROVE  /\ UNCHANGED store \/ (Persist(j) /\ pc[j] \in AtSave)
         /\ UNCHANGED <<req, human>>
<1>1. UNCHANGED store \/ (Persist(j) /\ pc[j] \in AtSave)
  <2>0. \A from, to : Go(j, from, to) => pc[j] = from
    BY DEF Go
  <2>1. CASE \/ SaveQueued(j) \/ SaveStarted(j) \/ SaveAwaiting(j) \/ SaveAttempt(j)
             \/ SaveGateDone(j) \/ SaveExhausted(j) \/ SaveFinal(j)
    BY <2>0, <2>1 DEF AtSave, BeginAttempt, SaveQueued, SaveStarted, SaveAwaiting,
                      SaveAttempt, SaveGateDone, SaveExhausted, SaveFinal
  <2>2. CASE SaveStageDone(j) \/ SaveResumed(j)
    BY <2>0, <2>2 DEF AtSave, Advance, SaveStageDone, SaveResumed
  <2>3. CASE RecordSaveThrows(j)
    BY <2>0, <2>3 DEF AtSave, AttemptFails, PersistOrNot, RecordSaveThrows
  <2>4. CASE StoreThrows(j)
    BY <2>4 DEF PersistOrNot, StoreThrows
  <2>5. CASE \/ Submit(j) \/ StopCancelled(j) \/ BeginStage(j) \/ OpenGate(j)
             \/ StageReturns(j) \/ StageThrows(j) \/ BackoffOver(j) \/ PostRequest(j)
             \/ AwaitDecision(j) \/ GateReturns(j)
    BY <2>5 DEF Submit, StopCancelled, BeginStage, OpenGate, StageReturns, StageThrows,
                BackoffOver, PostRequest, AwaitDecision, GateReturns
  <2> QED
    BY <2>1, <2>2, <2>3, <2>4, <2>5 DEF RunnerStep
<1>2. UNCHANGED <<req, human>>
  BY DEF Submit, RunnerStep, RecordSaveThrows, StoreThrows, runnerOnly, peopleVars,
         SaveQueued, SaveStarted, StopCancelled, BeginStage, OpenGate, SaveAwaiting,
         SaveAttempt, StageReturns, StageThrows, BackoffOver, PostRequest, AwaitDecision,
         GateReturns, SaveStageDone, SaveGateDone, SaveResumed, SaveExhausted, SaveFinal
<1> QED
  BY <1>1, <1>2

(* A handler's row is one it read, edited in one of two ways, or none.     *)
LEMMA RequestKeepsRowsOK ==
  ASSUME TypeInv, ~SharedNested, RowsOK, NEW r \in Requests,
         ReceiveRequest(r) \/ RequestStep(r) \/ SaveRequestThrows(r)
  PROVE  RowsOK'
<1>0. /\ req \in [Requests -> Request] /\ req[r].job \in Jobs /\ req[r].row \in Job
      /\ store \in [Jobs -> Job]
  BY DEF TypeInv, TypeOK, Request
<1>1. \A j \in Jobs : RowOK(View(j))
  BY DEF RowsOK, View
<1>2. req' = [req EXCEPT ![r] = req'[r]]
  BY <1>0 DEF ReceiveRequest, RequestStep, SaveRequestThrows, RefuseRequest, AcceptApprove,
              AcceptReject, AcceptCancel, Accept, SaveRequest, NotifyRequest, Answer
<1>3. RowOK(req'[r].row)
  <2>1. CASE ReceiveRequest(r)
    BY <1>0, <1>1, <2>1 DEF ReceiveRequest, Request
  <2>2. CASE AcceptApprove(r) \/ AcceptReject(r)
    <3>1. /\ req'[r].row.recs = req[r].row.recs
          /\ req'[r].row.status = req[r].row.status /\ req'[r].row.error = req[r].row.error
      BY <1>0, <2>2 DEF AcceptApprove, AcceptReject, Accept, Request, Job
    <3> QED
      BY <3>1 DEF RowsOK, RowOK, Picture
  <2>3. CASE AcceptCancel(r)
    <3>1. req'[r].row.status = "failed" /\ req'[r].row.error = "cancelled"
      BY <1>0, <2>3 DEF AcceptCancel, Accept, Request, Job
    <3> QED
      BY <3>1 DEF RowOK
  <2>4. CASE RefuseRequest(r) \/ SaveRequest(r) \/ SaveRequestThrows(r) \/ NotifyRequest(r)
    <3>1. req'[r].row = Absent
      BY <1>0, <2>4 DEF RefuseRequest, SaveRequest, SaveRequestThrows, NotifyRequest, Answer,
                        Request
    <3> QED
      BY <3>1, AbsentRowOK
  <2> QED
    BY <2>1, <2>2, <2>3, <2>4 DEF RequestStep
<1>4. \A j \in Jobs : RowOK(store'[j])
  <2>1. WriteRow(r) \/ UNCHANGED store
    BY DEF ReceiveRequest, RequestStep, SaveRequestThrows, RefuseRequest, AcceptApprove,
           AcceptReject, AcceptCancel, Accept, SaveRequest, NotifyRequest
  <2> QED
    BY <1>0, <2>1 DEF WriteRow, RowsOK
<1>5. \A i \in Requests : RowOK(req'[i].row)
  <2>1. \A i \in Requests \ {r} : req'[i] = req[i]
    BY <1>0, <1>2
  <2> QED
    BY <1>3, <2>1 DEF RowsOK
<1> QED
  BY <1>4, <1>5 DEF RowsOK

LEMMA RowsStep ==
  ASSUME TypeInv, ~SharedNested, MemsHold, RowsOK, [Next]_vars
  PROVE  RowsOK'
<1>1. ASSUME NEW j \in Jobs,
             Submit(j) \/ RunnerStep(j) \/ RecordSaveThrows(j) \/ StoreThrows(j)
      PROVE  RowsOK'
  <2>1. UNCHANGED req /\ (UNCHANGED store \/ (Persist(j) /\ pc[j] \in AtSave))
    BY <1>1, RunnerSaves
  <2>2. pc[j] \in AtSave => RowOK(mem[j])
    BY MemRowOK DEF MemsHold, Going, AtSave
  <2>3. \A i \in Jobs : RowOK(store'[i])
    BY <2>1, <2>2 DEF Persist, RowsOK, TypeInv, TypeOK
  <2> QED
    BY <2>1, <2>3 DEF RowsOK
<1>2. ASSUME NEW j \in Jobs,
             \/ \E decision \in Decisions : SlackClick(j, decision)
             \/ \E w \in 1..MaxAttempts : Timeout(j, w)
      PROVE  RowsOK'
  BY <1>2 DEF SlackClick, Timeout, peopleVars, RowsOK
<1>3. ASSUME NEW r \in Requests, ReceiveRequest(r) \/ RequestStep(r) \/ SaveRequestThrows(r)
      PROVE  RowsOK'
  BY <1>3, RequestKeepsRowsOK
<1>4. CASE Crash
  <2>1. store' = store
    BY <1>4 DEF Crash
  <2>2. ASSUME NEW r \in Requests PROVE req'[r].row \in {req[r].row, Absent}
    BY <1>4 DEF Crash, TypeInv, TypeOK, Request
  <2> QED
    BY <2>1, <2>2, AbsentRowOK DEF RowsOK
<1>5. CASE UNCHANGED vars
  BY <1>5 DEF vars, peopleVars, RowsOK
<1> QED
  BY <1>1, <1>2, <1>3, <1>4, <1>5 DEF Next

LEMMA InitRows == Init => RowsOK
BY AbsentRowOK DEF Init, RowsOK

LEMMA RowsOKSuffices ==
  ASSUME ~SharedNested, RowsOK PROVE RowIsCoherent
<1>0. NumStages \in Nat \ {0} /\ Gate \in Nat /\ Stage = 1..NumStages /\ Stage \subseteq Nat
  BY ConfigAssumption DEF ConfigAssumption, Stage
<1> SUFFICES ASSUME NEW row, RowOK(row) PROVE Coherent(row)
  BY DEF RowIsCoherent, RowsOK, View
<1>1. ASSUME NEW k \in Stage, Picture(row.recs, k)
      PROVE  /\ \A l \in 1..(k - 1) : row.recs[l] = "completed"
             /\ \A l \in (k + 1)..NumStages : row.recs[l] = "pending"
             /\ row.recs[k] = "completed" =>
                  \A l \in 1..((k + 1) - 1) : row.recs[l] = "completed"
  BY <1>0, <1>1 DEF Picture
<1>2. CASE row.status \in {"none", "queued"}
  BY <1>0, <1>2 DEF RowOK, Coherent
<1>3. CASE row.status = "awaiting_approval"
  BY <1>0, <1>1, <1>3 DEF RowOK, Coherent
<1>4. CASE row.status = "rejected"
  BY <1>0, <1>1, <1>4 DEF RowOK, Coherent
<1>5. CASE row.status = "completed"
  BY <1>0, <1>5 DEF RowOK, Coherent
<1>6. CASE /\ row.status \notin {"none", "queued", "awaiting_approval", "rejected", "completed"}
           /\ row.error = "stage"
  BY <1>0, <1>1, <1>6 DEF RowOK, Coherent
<1>7. CASE /\ row.status \notin {"none", "queued", "awaiting_approval", "rejected", "completed"}
           /\ row.error # "stage"
  BY <1>7 DEF Coherent
<1> QED
  BY <1>2, <1>3, <1>4, <1>5, <1>6, <1>7

(* Every stored row is the picture of one moment of its run, although      *)
(* runners and handlers write whole rows they read at different times: for *)
(* a store that copies what it is given (the file store, Supabase).        *)
THEOREM RowsCohere == ~SharedNested => (Spec => []RowIsCoherent)
<1> SUFFICES ASSUME ~SharedNested PROVE Spec => []RowIsCoherent
  OBVIOUS
<1>1. Init => TypeInv /\ MemsHold /\ RowsOK
  BY InitTypeInv, InitMems, InitRows
<1>2. TypeInv /\ MemsHold /\ RowsOK /\ [Next]_vars => (TypeInv /\ MemsHold /\ RowsOK)'
  BY TypeStep, MemStep, RowsStep
<1>3. RowsOK => RowIsCoherent
  BY RowsOKSuffices
<1> QED
  BY <1>1, <1>2, <1>3, PTL DEF Spec

(***************************************************************************)
(* The daemon implements JobLifecycle                                      *)
(***************************************************************************)

(* Where nobody but the runner writes, its position tells what is stored.  *)
StoredStatus(p, k) ==
  IF p \in {"none", "enqueue"} THEN "none"
  ELSE IF p = "start" THEN "queued"
  ELSE IF p \in {"check", "openGate", "finish"} THEN "running"
  ELSE IF p \in {"resume", "reject"} THEN "awaiting_approval"
  ELSE AtStage(k)

PassedRow(row) ==
  /\ Gate > 0
  /\ row.recs[Gate] = "completed"
  /\ row.status \in {"running", "completed", "failed"}

StoreInv(j) ==
  Going(j) =>
    /\ store[j].status = StoredStatus(pc[j], cur[j])
    /\ PassedRow(store[j]) <=> Gate > 0 /\ (cur[j] > Gate \/ pc[j] = "finish")

StoresHold == \A j \in Jobs : StoreInv(j)

(* A row that is saved is past the gate once the gate stage is completed   *)
(* and the status is no longer awaiting_approval.                          *)
LEMMA SavedRow ==
  ASSUME TypeInv, NEW j \in Jobs, MemInv(j), pc[j] \in AtSave
  PROVE  /\ mem[j].status = MemStatus(pc[j], cur[j])
         /\ PassedRow(mem[j]) <=>
              Gate > 0 /\ (cur[j] > Gate \/ pc[j] \in {"resume", "finish"})
<1>1. RunnerHolds(mem[j], pc[j], cur[j])
  BY DEF MemInv, Going, AtSave
<1>2. /\ cur[j] \in 1..NumStages /\ Stage = 1..NumStages /\ NumStages \in Nat
      /\ Gate \in 0..NumStages
  BY ConfigAssumption DEF ConfigAssumption, TypeInv, TypeOK, Stage
<1>3. Gate > 0 => Gate \in Stage
  BY <1>2
<1>4. CASE cur[j] > Gate
  <2>1. Gate > 0 => mem[j].recs[Gate] = "completed"
    BY <1>1, <1>2, <1>3, <1>4 DEF RunnerHolds, Picture
  <2>2. mem[j].status \in {"running", "completed", "failed"} \/ pc[j] = "enqueue"
    BY <1>1, <1>2, <1>4 DEF RunnerHolds, MemStatus, AtStage, Place, AtSave
  <2>3. pc[j] = "enqueue" => Gate = 0
    BY <1>1, <1>2, <1>4 DEF RunnerHolds, Place
  <2> QED
    BY <1>1, <1>2, <1>4, <2>1, <2>2, <2>3 DEF RunnerHolds, PassedRow
<1>5. CASE cur[j] < Gate
  BY <1>1, <1>2, <1>3, <1>5 DEF RunnerHolds, Picture, Place, PassedRow
<1>6. CASE cur[j] = Gate
  BY <1>1, <1>2, <1>6 DEF RunnerHolds, MemStatus, AtStage, Place, Held, PassedRow, AtSave
<1> QED
  BY <1>2, <1>4, <1>5, <1>6

LEMMA RunnerKeepsStore ==
  ASSUME TypeInv, NEW j \in Jobs, MemInv(j), StoreInv(j),
         Submit(j) \/ RunnerStep(j) \/ RecordSaveThrows(j) \/ StoreThrows(j)
  PROVE  StoreInv(j)'
<1> USE DEF StoreInv, Going, Go, StoredStatus, AtStage
<1>0. /\ cur[j] \in Nat /\ Gate \in Nat /\ NumStages \in Nat /\ cur[j] <= NumStages
      /\ Gate <= NumStages
      /\ pc \in [Jobs -> Control] /\ store \in [Jobs -> Job] /\ cur \in [Jobs -> Stage]
  BY ConfigAssumption DEF ConfigAssumption, TypeInv, TypeOK, Stage
<1>1. pc[j] \in AtSave =>
        /\ Place(pc[j], cur[j])
        /\ mem[j].status = MemStatus(pc[j], cur[j])
        /\ PassedRow(mem[j]) <=>
             Gate > 0 /\ (cur[j] > Gate \/ pc[j] \in {"resume", "finish"})
  BY SavedRow DEF MemInv, RunnerHolds, AtSave
<1>2. Persist(j) => store'[j] = mem[j]
  BY <1>0 DEF Persist
<1>3. CASE \/ Submit(j) \/ BeginStage(j) \/ OpenGate(j) \/ BackoffOver(j)
           \/ StageReturns(j) \/ StageThrows(j) \/ PostRequest(j) \/ AwaitDecision(j)
           \/ GateReturns(j) \/ StopCancelled(j)
  <2>1. /\ store' = store /\ cur' = cur
        /\ \/ pc[j] = "none" /\ pc'[j] = "enqueue"
           \/ pc[j] = "check" /\ pc'[j] = "attempt" /\ cur[j] # Gate
           \/ pc[j] = "check" /\ pc'[j] = "openGate"
           \/ pc[j] = "backoff" /\ pc'[j] = "attempt"
           \/ pc[j] = "run" /\ pc'[j] \in {"record", "exhausted", "backoff"}
           \/ pc[j] = "notify" /\ pc'[j] = "notified"
           \/ pc[j] = "notified" /\ pc'[j] = "wait"
           \/ pc[j] = "wait" /\ pc'[j] = "record"
           \/ pc'[j] = "done"
    BY <1>0, <1>3
       DEF Submit, BeginStage, OpenGate, BackoffOver, StageReturns, StageThrows,
           PostRequest, AwaitDecision, GateReturns, StopCancelled, BeginAttempt, AttemptFails
  <2> QED
    BY <2>1 DEF PassedRow
<1>4. CASE SaveQueued(j) \/ SaveStarted(j) \/ SaveAwaiting(j) \/ SaveAttempt(j)
  <2>1. /\ Persist(j) /\ cur' = cur
        /\ \/ pc[j] = "enqueue" /\ pc'[j] = "start"
           \/ pc[j] = "start" /\ pc'[j] = "check"
           \/ pc[j] = "openGate" /\ pc'[j] = "attempt"
           \/ pc[j] = "attempt" /\ pc'[j] \in {"notify", "run"}
    BY <1>0, <1>4 DEF SaveQueued, SaveStarted, SaveAwaiting, SaveAttempt, BeginAttempt
  <2> QED
    BY <1>1, <1>2, <2>1 DEF AtSave, Place, MemStatus, PassedRow
<1>5. CASE SaveStageDone(j) \/ SaveResumed(j)
  <2>1. /\ Persist(j)
        /\ pc[j] = "resume" \/ (pc[j] = "record" /\ cur[j] # Gate)
        /\ \/ cur[j] = NumStages /\ cur'[j] = cur[j] /\ pc'[j] = "finish"
           \/ cur'[j] = cur[j] + 1 /\ pc'[j] = "check"
    BY <1>0, <1>5 DEF SaveStageDone, SaveResumed, Advance
  <2>2. store'[j].status = StoredStatus(pc'[j], cur'[j])
    BY <1>1, <1>2, <2>1 DEF AtSave, Place, MemStatus
  <2>3. PassedRow(store'[j]) <=> Gate > 0 /\ (cur'[j] > Gate \/ pc'[j] = "finish")
    BY <1>0, <1>1, <1>2, <2>1 DEF AtSave, Place
  <2> QED
    BY <2>2, <2>3 DEF PassedRow
<1>6. CASE SaveGateDone(j) \/ SaveExhausted(j) \/ SaveFinal(j)
  <2>1. /\ Persist(j) /\ cur' = cur
        /\ \/ pc[j] = "record" /\ cur[j] = Gate /\ pc'[j] \in {"resume", "reject"}
           \/ pc[j] = "exhausted" /\ pc'[j] = "fail"
           \/ pc'[j] = "done"
    BY <1>0, <1>6 DEF SaveGateDone, SaveExhausted, SaveFinal
  <2> QED
    BY <1>0, <1>1, <1>2, <2>1 DEF AtSave, Place, MemStatus, PassedRow
<1>7. CASE RecordSaveThrows(j) \/ StoreThrows(j)
  <2>1. /\ cur' = cur
        /\ \/ pc[j] = "record" /\ pc'[j] \in {"exhausted", "backoff"}
              /\ (store' = store \/ Persist(j))
           \/ pc'[j] = "dead"
    BY <1>0, <1>7 DEF RecordSaveThrows, StoreThrows, AttemptFails, PersistOrNot
  <2> QED
    BY <1>0, <1>1, <1>2, <2>1 DEF AtSave, MemStatus, PassedRow
<1> QED
  BY <1>3, <1>4, <1>5, <1>6, <1>7 DEF RunnerStep

(* The variables of JobLifecycle, as the refinement mapping gives them.    *)
LifeStatus == [i \in Jobs |-> View(i).status]

LifePassed == [i \in Jobs |-> /\ Gate > 0
                              /\ View(i).recs[Gate] = "completed"
                              /\ View(i).status \in {"running", "completed", "failed"}]

LEMMA StoreView ==
  ASSUME ~SharedNested
  PROVE  /\ LifeStatus = [i \in Jobs |-> store[i].status]
         /\ LifePassed = [i \in Jobs |-> PassedRow(store[i])]
         /\ LifeStatus' = [i \in Jobs |-> store'[i].status]
         /\ LifePassed' = [i \in Jobs |-> PassedRow(store'[i])]
BY DEF LifeStatus, LifePassed, View, PassedRow

LEMMA SaveMoves ==
  ASSUME TypeInv, ~SharedNested, NEW j \in Jobs, Persist(j)
  PROVE  /\ LifeStatus' = [LifeStatus EXCEPT ![j] = mem[j].status]
         /\ LifePassed' = [LifePassed EXCEPT ![j] = PassedRow(mem[j])]
<1>1. store' = [store EXCEPT ![j] = mem[j]] /\ store \in [Jobs -> Job]
  BY DEF Persist, TypeInv, TypeOK
<1> QED
  BY <1>1, StoreView

(* A save is a move of the life cycle, or changes nothing a reader sees.   *)
LEMMA SaveIsMove ==
  ASSUME TypeInv, ~SharedNested, NEW j \in Jobs, MemInv(j), StoreInv(j),
         pc[j] \in AtSave, Persist(j)
  PROVE  [Lifecycle!Next]_(Lifecycle!lifecycleVars)
<1> DEFINE was    == LifeStatus[j]
           is     == mem[j].status
           wasIn  == LifePassed[j]
           isIn   == PassedRow(mem[j])
<1>0. /\ LifeStatus' = [LifeStatus EXCEPT ![j] = is]
      /\ LifePassed' = [LifePassed EXCEPT ![j] = isIn]
      /\ LifeStatus = [LifeStatus EXCEPT ![j] = was]
      /\ LifePassed = [LifePassed EXCEPT ![j] = wasIn]
  BY SaveMoves DEF LifeStatus, LifePassed
<1>1. /\ was = StoredStatus(pc[j], cur[j])
      /\ wasIn <=> Gate > 0 /\ (cur[j] > Gate \/ pc[j] = "finish")
      /\ is = MemStatus(pc[j], cur[j])
      /\ isIn <=> Gate > 0 /\ (cur[j] > Gate \/ pc[j] \in {"resume", "finish"})
      /\ Place(pc[j], cur[j])
  <2>1. was = store[j].status /\ wasIn = PassedRow(store[j])
    BY StoreView
  <2> QED
    BY <2>1, SavedRow DEF StoreInv, MemInv, RunnerHolds, Going, AtSave
<1>2. wasIn \in BOOLEAN /\ isIn \in BOOLEAN
  BY DEF LifePassed, PassedRow
<1>3. Gate \in Nat /\ cur[j] \in Nat /\ cur[j] > 0
  BY ConfigAssumption DEF ConfigAssumption, TypeInv, TypeOK, Stage
<1> HIDE DEF was, is, wasIn, isIn
<1>4. \/ is = was /\ isIn = wasIn
      \/ was = "none" /\ is = "queued" /\ isIn = wasIn
      \/ was = "queued" /\ is = "running" /\ isIn = wasIn
      \/ Gate > 0 /\ wasIn = FALSE /\ was = "running" /\ is = "awaiting_approval" /\ isIn = wasIn
      \/ was = "awaiting_approval" /\ is = "running" /\ isIn = TRUE
      \/ was = "awaiting_approval" /\ is = "rejected" /\ isIn = wasIn
      \/ was \in {"running", "awaiting_approval"} /\ is = "failed" /\ isIn = wasIn
      \/ (Gate > 0 => wasIn = TRUE) /\ was = "running" /\ is = "completed" /\ isIn = wasIn
  BY <1>1, <1>2, <1>3 DEF StoredStatus, MemStatus, AtStage, Place, AtSave
<1>5. was = LifeStatus[j] /\ wasIn = LifePassed[j]
  BY DEF was, wasIn
<1> USE DEF LifeStatus, LifePassed, Lifecycle!Move
<1>6. CASE is = was /\ isIn = wasIn
  BY <1>0, <1>6 DEF Lifecycle!lifecycleVars
<1>7. CASE was = "none" /\ is = "queued" /\ isIn = wasIn
  BY <1>0, <1>5, <1>7 DEF Lifecycle!Next, Lifecycle!Submit
<1>8. CASE was = "queued" /\ is = "running" /\ isIn = wasIn
  BY <1>0, <1>5, <1>8 DEF Lifecycle!Next, Lifecycle!Start
<1>9. CASE /\ Gate > 0 /\ wasIn = FALSE /\ was = "running" /\ is = "awaiting_approval"
           /\ isIn = wasIn
  BY <1>0, <1>5, <1>9 DEF Lifecycle!Next, Lifecycle!AskApproval
<1>10. CASE was = "awaiting_approval" /\ is = "running" /\ isIn = TRUE
  BY <1>0, <1>5, <1>10 DEF Lifecycle!Next, Lifecycle!Approve
<1>11. CASE was = "awaiting_approval" /\ is = "rejected" /\ isIn = wasIn
  BY <1>0, <1>5, <1>11 DEF Lifecycle!Next, Lifecycle!Reject
<1>12. CASE was \in {"running", "awaiting_approval"} /\ is = "failed" /\ isIn = wasIn
  BY <1>0, <1>5, <1>12 DEF Lifecycle!Next, Lifecycle!Fail
<1>13. CASE /\ (Gate > 0 => wasIn = TRUE) /\ was = "running" /\ is = "completed"
            /\ isIn = wasIn
  BY <1>0, <1>5, <1>13 DEF Lifecycle!Next, Lifecycle!Complete
<1> QED
  BY <1>4, <1>6, <1>7, <1>8, <1>9, <1>10, <1>11, <1>12, <1>13

LEMMA LifeStutter ==
  ASSUME ~SharedNested, store' = store
  PROVE  UNCHANGED Lifecycle!lifecycleVars
BY DEF View, Lifecycle!lifecycleVars

(* Steps of others than the runners leave the rows alone; a crash only     *)
(* ends the runners.                                                       *)
LEMMA OthersKeepStores ==
  ASSUME ~SharedNested, Requests = {}, StoresHold, [Next]_vars,
         ~ \E j \in Jobs :
             Submit(j) \/ RunnerStep(j) \/ RecordSaveThrows(j) \/ StoreThrows(j)
  PROVE  StoresHold' /\ store' = store
<1>1. /\ store' = store /\ cur' = cur
      /\ \A j \in Jobs : pc'[j] = pc[j] \/ pc'[j] = "dead"
  <2>1. CASE Crash
    BY <2>1 DEF Crash
  <2>2. CASE \E j \in Jobs : \/ \E decision \in Decisions : SlackClick(j, decision)
                             \/ \E w \in 1..MaxAttempts : Timeout(j, w)
    BY <2>2 DEF SlackClick, Timeout, runnerVars
  <2>3. CASE UNCHANGED vars
    BY <2>3 DEF vars, runnerVars
  <2> QED
    BY <2>1, <2>2, <2>3 DEF Next
<1> QED
  BY <1>1 DEF StoresHold, StoreInv, Going, PassedRow

LEMMA LifeStep ==
  ASSUME ~SharedNested, Requests = {}, TypeInv, MemsHold, StoresHold, [Next]_vars
  PROVE  StoresHold' /\ [Lifecycle!Next]_(Lifecycle!lifecycleVars)
<1>1. ASSUME NEW j \in Jobs,
             Submit(j) \/ RunnerStep(j) \/ RecordSaveThrows(j) \/ StoreThrows(j)
      PROVE  StoresHold' /\ [Lifecycle!Next]_(Lifecycle!lifecycleVars)
  <2>1. MemInv(j) /\ StoreInv(j)
    BY DEF MemsHold, StoresHold
  <2>2. StoreInv(j)'
    BY <1>1, <2>1, RunnerKeepsStore
  <2>3. ASSUME NEW i \in Jobs \ {j} PROVE StoreInv(i)'
    <3>1. pc'[i] = pc[i] /\ cur'[i] = cur[i] /\ store'[i] = store[i]
      BY <1>1, RunnerIsLocal
    <3> QED
      BY <3>1 DEF StoresHold, StoreInv, Going, PassedRow
  <2>4. UNCHANGED store \/ (Persist(j) /\ pc[j] \in AtSave)
    BY <1>1, RunnerSaves
  <2>5. [Lifecycle!Next]_(Lifecycle!lifecycleVars)
    BY <2>1, <2>4, SaveIsMove, LifeStutter
  <2> QED
    BY <2>2, <2>3, <2>5 DEF StoresHold
<1>2. CASE ~ \E j \in Jobs :
               Submit(j) \/ RunnerStep(j) \/ RecordSaveThrows(j) \/ StoreThrows(j)
  BY <1>2, OthersKeepStores, LifeStutter
<1> QED
  BY <1>1, <1>2

(* With a store that copies and no handler writing to it, the stored       *)
(* status of every job moves as JobLifecycle allows: in particular a job   *)
(* with a gate completes only after awaiting_approval and running again.   *)
THEOREM FollowsLifecycle ==
  ~SharedNested /\ Requests = {} => (Spec => ImplementsLifecycle)
<1> SUFFICES ASSUME ~SharedNested, Requests = {} PROVE Spec => Lifecycle!Spec
  BY DEF ImplementsLifecycle
<1>1. Init => StoresHold
  BY ConfigAssumption
     DEF Init, StoresHold, StoreInv, Absent, StoredStatus, PassedRow, ConfigAssumption
<1>2. Init => Lifecycle!Init
  BY DEF Init, Lifecycle!Init, View, Absent
<1>3. TypeInv /\ MemsHold /\ StoresHold /\ [Next]_vars =>
        StoresHold' /\ [Lifecycle!Next]_(Lifecycle!lifecycleVars)
  BY LifeStep
<1> QED
  BY <1>1, <1>2, <1>3, MemsAlwaysHold, PTL DEF Spec, Lifecycle!Spec

(***************************************************************************)
(* What has ended                                                          *)
(***************************************************************************)

(* An ended row whose runner still goes shows a cancellation, and so does  *)
(* an ended row that a handler is about to write.                          *)
EndedRow(j) == Going(j) /\ store[j].status \in Terminal => store[j].error = "cancelled"

EndedCopy(r) ==
  req[r].pc = "save" /\ req[r].row.status \in Terminal => req[r].row.error = "cancelled"

EndsHold == (\A j \in Jobs : EndedRow(j)) /\ (\A r \in Requests : EndedCopy(r))

(* What a runner saves before its last save shows no end.                  *)
LEMMA EndIsSavedLast ==
  ASSUME NEW j \in Jobs, MemInv(j), pc[j] \in AtSave, Going(j)',
         Submit(j) \/ RunnerStep(j) \/ RecordSaveThrows(j) \/ StoreThrows(j),
         TypeInv, Persist(j)
  PROVE  store'[j].status \notin Terminal
<1>0. pc \in [Jobs -> Control] /\ store \in [Jobs -> Job]
  BY DEF TypeInv, TypeOK
<1>1. pc[j] \notin {"finish", "fail", "reject"}
  BY <1>0
     DEF Submit, RunnerStep, RecordSaveThrows, StoreThrows, Go, BeginAttempt,
         AttemptFails, Advance, SaveQueued, SaveStarted, StopCancelled, BeginStage, OpenGate,
         SaveAwaiting, SaveAttempt, StageReturns, StageThrows, BackoffOver, PostRequest,
         AwaitDecision, GateReturns, SaveStageDone, SaveGateDone, SaveResumed, SaveExhausted,
         SaveFinal, Going
<1>2. mem[j].status = MemStatus(pc[j], cur[j])
  BY DEF MemInv, Going, AtSave, RunnerHolds
<1>3. mem[j].status \notin Terminal
  BY <1>1, <1>2 DEF AtSave, MemStatus, AtStage, Terminal
<1> QED
  BY <1>0, <1>3 DEF Persist

LEMMA RunnerKeepsGoing ==
  ASSUME TypeInv, NEW j \in Jobs,
         Submit(j) \/ RunnerStep(j) \/ RecordSaveThrows(j) \/ StoreThrows(j)
  PROVE  Going(j)
BY DEF TypeInv, TypeOK, Submit, RunnerStep, RecordSaveThrows, StoreThrows, Go, BeginAttempt,
       AttemptFails, Advance, SaveQueued, SaveStarted, StopCancelled, BeginStage, OpenGate,
       SaveAwaiting, SaveAttempt, StageReturns, StageThrows, BackoffOver, PostRequest,
       AwaitDecision, GateReturns, SaveStageDone, SaveGateDone, SaveResumed, SaveExhausted,
       SaveFinal, Going, AtSave

(* A handler's copy shows an end only when the handler made it one.        *)
LEMMA RequestKeepsEnds ==
  ASSUME TypeInv, EndsHold, NEW r \in Requests,
         ReceiveRequest(r) \/ RequestStep(r) \/ SaveRequestThrows(r)
  PROVE  /\ EndsHold'
         /\ UNCHANGED store \/ (WriteRow(r) /\ req[r].pc = "save")
<1>0. /\ req \in [Requests -> Request] /\ req[r].job \in Jobs /\ req[r].row \in Job
      /\ store \in [Jobs -> Job]
  BY DEF TypeInv, TypeOK, Request
<1>1. UNCHANGED store \/ (WriteRow(r) /\ req[r].pc = "save")
  BY DEF ReceiveRequest, RequestStep, SaveRequestThrows, RefuseRequest, AcceptApprove,
         AcceptReject, AcceptCancel, Accept, SaveRequest, NotifyRequest
<1>2. req' = [req EXCEPT ![r] = req'[r]]
  BY <1>0 DEF ReceiveRequest, RequestStep, SaveRequestThrows, RefuseRequest, AcceptApprove,
              AcceptReject, AcceptCancel, Accept, SaveRequest, NotifyRequest, Answer
<1>3. EndedCopy(r)'
  <2>1. CASE AcceptApprove(r) \/ AcceptReject(r)
    <3>1. /\ req'[r].row.status = req[r].row.status
          /\ req[r].row.status = "awaiting_approval"
      BY <1>0, <2>1 DEF AcceptApprove, AcceptReject, Accept, Refused, Request, Job
    <3> QED
      BY <3>1 DEF EndedCopy, Terminal
  <2>2. CASE AcceptCancel(r)
    <3>1. req'[r].row.error = "cancelled"
      BY <1>0, <2>2 DEF AcceptCancel, Accept, Request, Job
    <3> QED
      BY <3>1 DEF EndedCopy
  <2>3. CASE \/ ReceiveRequest(r) \/ RefuseRequest(r) \/ SaveRequest(r)
             \/ NotifyRequest(r) \/ SaveRequestThrows(r)
    <3>1. req'[r].pc # "save"
      BY <1>0, <2>3 DEF ReceiveRequest, RefuseRequest, SaveRequest, NotifyRequest,
                        SaveRequestThrows, Answer, Request
    <3> QED
      BY <3>1 DEF EndedCopy
  <2> QED
    BY <2>1, <2>2, <2>3 DEF RequestStep
<1>4. \A i \in Requests : EndedCopy(i)'
  <2>1. \A i \in Requests \ {r} : req'[i] = req[i]
    BY <1>0, <1>2
  <2> QED
    BY <1>3, <2>1 DEF EndsHold, EndedCopy
<1>5. \A j \in Jobs : EndedRow(j)'
  <2>1. pc' = pc
    BY DEF ReceiveRequest, RequestStep, SaveRequestThrows, RefuseRequest, AcceptApprove,
           AcceptReject, AcceptCancel, Accept, SaveRequest, NotifyRequest, requestOnly,
           runnerVars
  <2>2. EndedCopy(r)
    BY DEF EndsHold
  <2> QED
    BY <1>0, <1>1, <2>1, <2>2 DEF EndsHold, EndedRow, EndedCopy, WriteRow, Going
<1> QED
  BY <1>1, <1>4, <1>5 DEF EndsHold

LEMMA EndsStep ==
  ASSUME TypeInv, ~SharedNested, MemsHold, EndsHold, [Next]_vars
  PROVE  /\ EndsHold'
         /\ \A j \in Jobs :
              View(j).status \in Terminal /\ View(j)'.status # View(j).status =>
                \/ View(j).error = "cancelled"
                \/ \E r \in Requests : req[r].job = j /\ req[r].pc = "save"
<1>0. store \in [Jobs -> Job] /\ req \in [Requests -> Request]
  BY DEF TypeInv, TypeOK
<1>1. \A j \in Jobs : View(j) = store[j] /\ View(j)' = store'[j]
  BY DEF View
<1> DEFINE Excused(j) == \/ store[j].error = "cancelled"
                         \/ \E r \in Requests : req[r].job = j /\ req[r].pc = "save"
<1> SUFFICES /\ EndsHold'
             /\ \A j \in Jobs : store[j].status \in Terminal /\ store'[j] # store[j] => Excused(j)
  BY <1>1
<1>2. ASSUME NEW j \in Jobs,
             Submit(j) \/ RunnerStep(j) \/ RecordSaveThrows(j) \/ StoreThrows(j)
      PROVE  /\ EndsHold'
             /\ \A i \in Jobs : store[i].status \in Terminal /\ store'[i] # store[i] => Excused(i)
  <2>1. UNCHANGED req /\ (UNCHANGED store \/ (Persist(j) /\ pc[j] \in AtSave))
    BY <1>2, RunnerSaves
  <2>2. Going(j)
    BY <1>2, RunnerKeepsGoing
  <2>3. \A i \in Jobs \ {j} : store'[i] = store[i] /\ pc'[i] = pc[i]
    BY <1>2, RunnerIsLocal
  <2>4. EndedRow(j)'
    <3>1. CASE UNCHANGED store
      BY <2>2, <3>1 DEF EndsHold, EndedRow
    <3>2. CASE Persist(j) /\ pc[j] \in AtSave
      BY <1>2, <3>2, EndIsSavedLast DEF MemsHold, EndedRow
    <3> QED
      BY <2>1, <3>1, <3>2
  <2>5. EndsHold'
    BY <2>1, <2>3, <2>4 DEF EndsHold, EndedRow, EndedCopy, Going
  <2>6. store[j].status \in Terminal => Excused(j)
    BY <2>2 DEF EndsHold, EndedRow
  <2> QED
    BY <2>3, <2>5, <2>6
<1>3. ASSUME NEW r \in Requests, ReceiveRequest(r) \/ RequestStep(r) \/ SaveRequestThrows(r)
      PROVE  /\ EndsHold'
             /\ \A i \in Jobs : store[i].status \in Terminal /\ store'[i] # store[i] => Excused(i)
  <2>1. EndsHold' /\ (UNCHANGED store \/ (WriteRow(r) /\ req[r].pc = "save"))
    BY <1>3, RequestKeepsEnds
  <2>2. \A i \in Jobs : store'[i] # store[i] => req[r].job = i /\ req[r].pc = "save"
    BY <1>0, <2>1 DEF WriteRow
  <2> QED
    BY <2>1, <2>2
<1>4. CASE Crash
  <2>1. store' = store
    BY <1>4 DEF Crash
  <2>2. \A j \in Jobs : Going(j)' => Going(j)
    BY <1>4 DEF Crash, Going
  <2>3. \A r \in Requests : req'[r].pc = "save" => FALSE
    BY <1>0, <1>4 DEF Crash, Request
  <2> QED
    BY <2>1, <2>2, <2>3 DEF EndsHold, EndedRow, EndedCopy
<1>5. CASE \/ UNCHANGED vars
           \/ \E j \in Jobs : \/ \E decision \in Decisions : SlackClick(j, decision)
                             \/ \E w \in 1..MaxAttempts : Timeout(j, w)
  <2>1. UNCHANGED <<pc, store, req>>
    BY <1>5 DEF vars, SlackClick, Timeout, runnerVars, peopleVars
  <2> QED
    BY <2>1 DEF EndsHold, EndedRow, EndedCopy, Going
<1> QED
  BY <1>2, <1>3, <1>4, <1>5 DEF Next

(* What readers of the store rely on: a job that is shown completed,       *)
(* failed or rejected stays what it is, for any number of jobs, handlers,  *)
(* throwing saves and crashes, but for a cancellation its runner has not   *)
(* seen and a handler that checked the row before it ended                 *)
(* (orchestrator.ts, completeJob, failJob, rejectJob, cancelJob).          *)
THEOREM EndedRowsStay == ~SharedNested => (Spec => EndedJobsStay)
<1> SUFFICES ASSUME ~SharedNested PROVE Spec => EndedJobsStay
  OBVIOUS
<1>1. Init => EndsHold
  BY DEF Init, EndsHold, EndedRow, EndedCopy, Absent, Terminal
<1>2. Init => TypeInv /\ MemsHold
  BY InitTypeInv, InitMems
<1>3. TypeInv /\ MemsHold /\ EndsHold /\ [Next]_vars => (TypeInv /\ MemsHold /\ EndsHold)'
  BY TypeStep, MemStep, EndsStep
<1>4. TypeInv /\ MemsHold /\ EndsHold /\ [Next]_vars =>
        [\A j \in Jobs :
           View(j).status \in Terminal /\ View(j)'.status # View(j).status =>
             \/ View(j).error = "cancelled"
             \/ \E r \in Requests : req[r].job = j /\ req[r].pc = "save"]_vars
  BY EndsStep
<1> QED
  BY <1>1, <1>2, <1>3, <1>4, PTL DEF Spec, EndedJobsStay

(***************************************************************************)
(* The answers at the gate                                                 *)
(***************************************************************************)

(* Unless saves throw, a job waits at its gate once.  From then on its     *)
(* runner is past the wait, and as long as it is in it the promise can be  *)
(* answered by a person and by its timer.                                  *)
Waiting(j) == cur[j] = Gate /\ pc[j] \in {"wait", "record", "resume", "reject", "finish"}

WaitedOnce(j) ==
  /\ waits[j] <= 1
  /\ Going(j) /\ waits[j] > 0 => cur[j] > Gate \/ Waiting(j)
  /\ pc[j] = "wait" /\ Verdict(j) = "pending" =>
       callbacks[j] = waits[j] /\ waits[j] \in timers[j]

WaitsHold == \A j \in Jobs : WaitedOnce(j)

LEMMA RunnerKeepsWait ==
  ASSUME TypeInv, PassInv, ~StoreFaults, NEW j \in Jobs, WaitedOnce(j),
         Submit(j) \/ RunnerStep(j) \/ RecordSaveThrows(j) \/ StoreThrows(j)
  PROVE  WaitedOnce(j)'
<1>0. /\ cur[j] \in Nat /\ Gate \in Nat /\ waits[j] \in 0..MaxAttempts /\ MaxAttempts \in Nat
      /\ pc \in [Jobs -> Control] /\ cur \in [Jobs -> Stage]
      /\ GateControl(j)
  BY ConfigAssumption
     DEF ConfigAssumption, TypeInv, TypeOK, Gates!TypeOK, Stage, PassInv, JobInv
<1>1. CASE AwaitDecision(j)
  <2>1. /\ pc[j] = "notified" /\ pc'[j] = "wait" /\ cur' = cur
    BY <1>0, <1>1 DEF AwaitDecision, Go
  <2>2. cur[j] = Gate /\ waits[j] = 0
    BY <1>0, <2>1 DEF GateControl, WaitedOnce, Going, Waiting
  <2>3. waits'[j] = 1 /\ callbacks'[j] = 1 /\ 1 \in timers'[j]
    BY <1>1, <2>2 DEF AwaitDecision, Gates!WaitForApproval, TypeInv, TypeOK, Gates!TypeOK
  <2> QED
    BY <1>0, <2>1, <2>2, <2>3 DEF WaitedOnce, Waiting
<1>2. CASE ~AwaitDecision(j)
  <2>1. UNCHANGED gateVars
    BY <1>2, RunnerGate DEF Submit, runnerOnly
  <2>2. pc'[j] # "wait"
    BY <1>0, <1>2
       DEF Submit, RunnerStep, RecordSaveThrows, StoreThrows, Go, BeginAttempt,
           AttemptFails, Advance, SaveQueued, SaveStarted, StopCancelled, BeginStage, OpenGate,
           SaveAwaiting, SaveAttempt, StageReturns, StageThrows, BackoffOver, PostRequest,
           GateReturns, SaveStageDone, SaveGateDone, SaveResumed, SaveExhausted, SaveFinal
  <2>3. ASSUME cur[j] > Gate
        PROVE  cur'[j] > Gate
    <3>1. cur'[j] = cur[j] \/ cur'[j] = cur[j] + 1
      BY <1>0, <1>2
         DEF Submit, RunnerStep, RecordSaveThrows, StoreThrows, BeginAttempt, AttemptFails,
             Advance, SaveQueued, SaveStarted, StopCancelled, BeginStage, OpenGate,
             SaveAwaiting, SaveAttempt, StageReturns, StageThrows, BackoffOver, PostRequest,
             GateReturns, SaveStageDone, SaveGateDone, SaveResumed, SaveExhausted, SaveFinal
    <3> QED
      BY <1>0, <2>3, <3>1
  <2>4. ASSUME Waiting(j)
        PROVE  ~Going(j)' \/ cur'[j] > Gate \/ Waiting(j)'
    <3>1. CASE GateReturns(j) \/ SaveGateDone(j)
      BY <1>0, <2>4, <3>1 DEF GateReturns, SaveGateDone, Go, Waiting
    <3>2. CASE SaveResumed(j)
      BY <1>0, <2>4, <3>2 DEF SaveResumed, Advance, Go, Waiting
    <3>3. CASE SaveFinal(j) \/ StopCancelled(j)
      BY <1>0, <3>3 DEF SaveFinal, StopCancelled, Go, Going
    <3>4. CASE SaveStageDone(j) \/ RecordSaveThrows(j) \/ StoreThrows(j)
      BY <2>4, <3>4 DEF SaveStageDone, RecordSaveThrows, StoreThrows, Waiting
    <3>5. CASE \/ Submit(j) \/ SaveQueued(j) \/ SaveStarted(j) \/ BeginStage(j) \/ OpenGate(j)
               \/ SaveAwaiting(j) \/ SaveAttempt(j) \/ StageReturns(j) \/ StageThrows(j)
               \/ BackoffOver(j) \/ PostRequest(j) \/ SaveExhausted(j)
      BY <2>4, <3>5
         DEF Submit, SaveQueued, SaveStarted, BeginStage, OpenGate, SaveAwaiting, SaveAttempt,
             StageReturns, StageThrows, BackoffOver, PostRequest, SaveExhausted,
             BeginAttempt, AttemptFails, Go, Waiting
    <3> QED
      BY <1>2, <3>1, <3>2, <3>3, <3>4, <3>5 DEF RunnerStep
  <2>5. Going(j)' => Going(j)
    BY <1>0, <1>2
       DEF Submit, RunnerStep, RecordSaveThrows, StoreThrows, Go, BeginAttempt,
           AttemptFails, Advance, SaveQueued, SaveStarted, StopCancelled, BeginStage, OpenGate,
           SaveAwaiting, SaveAttempt, StageReturns, StageThrows, BackoffOver, PostRequest,
           GateReturns, SaveStageDone, SaveGateDone, SaveResumed, SaveExhausted, SaveFinal,
           Going, AtSave
  <2> QED
    BY <2>1, <2>2, <2>3, <2>4, <2>5 DEF WaitedOnce, gateVars
<1> QED
  BY <1>1, <1>2

(* The waits of a job that takes no runner step: notifications and timers  *)
(* of any job.                                                             *)
LEMMA AnswersKeepWait ==
  ASSUME TypeInv, PassInv, NEW i \in Jobs, WaitedOnce(i), pc'[i] = pc[i], cur'[i] = cur[i],
         \/ UNCHANGED <<callbacks[i], waits[i], timers[i], outcome[i]>>
         \/ \E j \in Jobs, decision \in Decisions : Gates!NotifyApproval(j, decision)
         \/ \E j \in Jobs, w \in 1..MaxAttempts : Gates!TimeoutFires(j, w)
  PROVE  WaitedOnce(i)'
<1>0. /\ TypeOK /\ Gates!TypeOK /\ GP!TimersArePast
      /\ waits[i] \in 0..MaxAttempts /\ MaxAttempts \in Nat \ {0} /\ 1 \in 1..MaxAttempts
  BY ConfigAssumption DEF TypeInv, TypeOK, GP!GateInv, Gates!TypeOK, ConfigAssumption
<1> SUFFICES /\ waits'[i] = waits[i]
             /\ pc[i] = "wait" /\ waits[i] = 1 /\ outcome'[i][1] = "pending" =>
                  /\ outcome[i][1] = "pending"
                  /\ callbacks[i] = 1 /\ 1 \in timers[i] =>
                       callbacks'[i] = 1 /\ 1 \in timers'[i]
  <2>1. pc[i] = "wait" => waits[i] = 1
    BY <1>0 DEF WaitedOnce, PassInv, JobInv, GateControl
  <2> QED
    BY <2>1 DEF WaitedOnce, Going, Waiting, Verdict
<1>1. CASE UNCHANGED <<callbacks[i], waits[i], timers[i], outcome[i]>>
  BY <1>1
<1>2. ASSUME NEW j \in Jobs, NEW v, NEW result, result # "pending", Gates!Settle(j, v, result)
      PROVE  /\ outcome'[i][1] = "pending" => outcome[i][1] = "pending" /\ (i # j \/ v # 1)
  <2>1. outcome \in [Jobs -> [1..MaxAttempts -> Gates!Outcomes]]
    BY <1>0 DEF Gates!TypeOK, Gates!Promise
  <2>2. i = j /\ v = 1 => outcome'[i][1] # "pending"
    BY <1>0, <1>2, <2>1 DEF Gates!Settle
  <2>3. outcome'[i][1] = outcome[i][1] \/ (i = j /\ v = 1)
    BY <1>0, <1>2, SettleOnly
  <2> QED
    BY <2>2, <2>3
<1>3. ASSUME NEW j \in Jobs, NEW decision \in Decisions, Gates!NotifyApproval(j, decision)
      PROVE  /\ UNCHANGED <<waits, timers>>
             /\ i # j => callbacks'[i] = callbacks[i]
             /\ outcome'[i][1] = "pending" =>
                  outcome[i][1] = "pending" /\ (i # j \/ callbacks[i] # 1)
  BY <1>0, <1>2, <1>3 DEF Gates!NotifyApproval, Gates!TypeOK, Decisions
<1>4. ASSUME NEW j \in Jobs, NEW w \in 1..MaxAttempts, Gates!TimeoutFires(j, w)
      PROVE  /\ waits' = waits
             /\ i # j => callbacks'[i] = callbacks[i] /\ timers'[i] = timers[i]
             /\ outcome'[i][1] = "pending" =>
                  outcome[i][1] = "pending" /\ (i # j \/ w # 1 \/ callbacks[i] = 0)
             /\ i = j /\ waits[i] = 1 => w = 1
  <2>1. i = j /\ waits[i] = 1 => w = 1
    BY <1>0, <1>4 DEF Gates!TimeoutFires, GP!TimersArePast, GP!Promise
  <2>2. outcome'[i][1] = "pending" =>
          outcome[i][1] = "pending" /\ (i # j \/ w # 1 \/ callbacks[i] = 0)
    BY <1>0, <1>2, <1>4 DEF Gates!TimeoutFires, Gates!HasPending, Gates!TypeOK
  <2>3. /\ waits' = waits
        /\ i # j => callbacks'[i] = callbacks[i] /\ timers'[i] = timers[i]
    BY <1>0, <1>4 DEF Gates!TimeoutFires, Gates!TypeOK
  <2> QED
    BY <2>1, <2>2, <2>3
<1> QED
  BY <1>0, <1>1, <1>3, <1>4

LEMMA WaitsStep ==
  ASSUME ~StoreFaults, TypeInv, PassInv, WaitsHold, [Next]_vars
  PROVE  WaitsHold'
<1> SUFFICES ASSUME NEW i \in Jobs PROVE WaitedOnce(i)'
  BY DEF WaitsHold
<1>0. WaitedOnce(i) /\ TypeOK /\ Gates!TypeOK
  BY DEF WaitsHold, TypeInv, TypeOK
<1>1. ASSUME NEW j \in Jobs,
             Submit(j) \/ RunnerStep(j) \/ RecordSaveThrows(j) \/ StoreThrows(j)
      PROVE  WaitedOnce(i)'
  <2>1. CASE i = j
    BY <1>0, <1>1, <2>1, RunnerKeepsWait
  <2>2. CASE i # j
    <3>1. pc'[i] = pc[i] /\ cur'[i] = cur[i]
      BY <1>1, <2>2, RunnerIsLocal
    <3>2. UNCHANGED <<callbacks[i], waits[i], timers[i], outcome[i]>>
      <4>1. UNCHANGED gateVars \/ AwaitDecision(j)
        BY <1>1, RunnerGate DEF Submit, runnerOnly
      <4> QED
        BY <1>0, <2>2, <4>1 DEF gateVars, AwaitDecision, Gates!WaitForApproval, Gates!TypeOK
    <3> QED
      BY <1>0, <3>1, <3>2, AnswersKeepWait
  <2> QED
    BY <2>1, <2>2
<1>2. ASSUME NEW j \in Jobs, NEW decision \in Decisions, SlackClick(j, decision)
      PROVE  WaitedOnce(i)'
  <2>1. UNCHANGED <<pc, cur>>
    BY <1>2 DEF SlackClick, runnerVars
  <2>2. Gates!NotifyApproval(j, decision) \/ UNCHANGED gateVars
    BY <1>2 DEF SlackClick, Gates!NotifyOrIgnore, Gates!gateVars, gateVars
  <2> QED
    BY <1>0, <2>1, <2>2, AnswersKeepWait DEF gateVars
<1>3. ASSUME NEW j \in Jobs, NEW w \in 1..MaxAttempts, Timeout(j, w)
      PROVE  WaitedOnce(i)'
  BY <1>0, <1>3, AnswersKeepWait DEF Timeout, runnerVars
<1>4. ASSUME NEW r \in Requests, ReceiveRequest(r) \/ RequestStep(r) \/ SaveRequestThrows(r)
      PROVE  WaitedOnce(i)'
  <2>1. pc'[i] = pc[i] /\ cur'[i] = cur[i]
    BY <1>4, RequestKeepsMem
  <2>2. \/ UNCHANGED gateVars
        \/ \E j \in Jobs, decision \in Decisions : Gates!NotifyApproval(j, decision)
    BY <1>0, <1>4, RequestGate
  <2> QED
    BY <1>0, <2>1, <2>2, AnswersKeepWait DEF gateVars
<1>5. CASE Crash
  <2>1. UNCHANGED <<cur, waits>> /\ pc'[i] \in {"none", "dead"} /\ (pc'[i] = "none" => pc[i] = "none")
    BY <1>5 DEF Crash, Gates!Restart
  <2> QED
    BY <1>0, <2>1 DEF WaitedOnce, Going, Waiting
<1>6. CASE UNCHANGED vars
  BY <1>0, <1>6, AnswersKeepWait DEF vars, runnerVars, gateVars
<1> QED
  BY <1>1, <1>2, <1>3, <1>4, <1>5, <1>6 DEF Next

LEMMA WaitsAlwaysHold ==
  ASSUME ~StoreFaults
  PROVE  Spec => [](TypeInv /\ PassInv /\ WaitsHold)
<1>1. Init => TypeInv /\ PassInv /\ WaitsHold
  BY InitTypeInv, InitPassInv DEF Init, Gates!Init, WaitsHold, WaitedOnce, Going
<1>2. TypeInv /\ PassInv /\ WaitsHold /\ [Next]_vars => (TypeInv /\ PassInv /\ WaitsHold)'
  BY TypeStep, PassStep, WaitsStep
<1> QED
  BY <1>1, <1>2, PTL DEF Spec

(* While a job waits at an open gate somebody can still answer it, and its *)
(* timer is armed: the reason no gate hangs, unless a save throws between  *)
(* two waits (run gate_hangs).                                             *)
THEOREM OpenGatesAreAnswerable == ~StoreFaults => (Spec => []GateHasResolver)
<1> SUFFICES ASSUME ~StoreFaults PROVE Spec => []GateHasResolver
  OBVIOUS
<1>1. WaitsHold => GateHasResolver
  BY DEF WaitsHold, WaitedOnce, GateHasResolver
<1> QED
  BY <1>1, WaitsAlwaysHold, PTL

(* A rejection that was acknowledged stops the workflow: whoever else      *)
(* approves, clicks or retries, no stage after the gate is come to.        *)
THEOREM RejectionsStop == ~StoreFaults => (Spec => []RejectionIsFinal)
<1> SUFFICES ASSUME ~StoreFaults PROVE Spec => []RejectionIsFinal
  OBVIOUS
<1>1. ASSUME TypeInv, PassInv, WaitsHold
      PROVE  RejectionIsFinal
  <2> SUFFICES ASSUME NEW j \in Jobs, NEW w \in 1..MaxAttempts, Gate > 0,
                      "rejected" \in acked[j][w], ~(cur[j] <= Gate)
               PROVE  FALSE
    BY DEF RejectionIsFinal
  <2>0. /\ cur[j] \in Nat /\ Gate \in Nat /\ waits[j] \in 0..MaxAttempts
        /\ MaxAttempts \in Nat
    BY <1>1, ConfigAssumption DEF ConfigAssumption, TypeInv, TypeOK, Gates!TypeOK, Stage
  <2>1. outcome[j][w] = "rejected"
    BY <1>1 DEF TypeInv, GP!GateInv, GP!AckedDecisionWins, GP!Promise
  <2>2. w <= waits[j]
    BY <1>1, <2>0, <2>1 DEF TypeInv, GP!GateInv, GP!FutureIsOpen, GP!Promise
  <2>3. waits[j] = 1 /\ w = 1
    BY <1>1, <2>0, <2>2 DEF WaitsHold, WaitedOnce
  <2>4. outcome[j][1] = "approved"
    BY <1>1, <2>0, <2>3 DEF PassInv, JobInv, Passed, Verdict
  <2> QED
    BY <2>1, <2>3, <2>4
<1> QED
  BY <1>1, WaitsAlwaysHold, PTL

(***************************************************************************)
(* The approval flag and the note of the publish stage                     *)
(***************************************************************************)

FlagInv(j) ==
  /\ mem[j].note # "none" => Gate > 0 /\ cur[j] > Gate
  /\ pc[j] = "none" => store[j].status = "none"
  /\ store[j].status = "none" => store[j].approved = FALSE /\ store[j].note = "none"
  /\ pc[j] = "dead" => mem[j].note = "none"

Flagged(j) == pc[j] = "dead" \/ mem[j].approved = TRUE

RequestInv(r) ==
  /\ req[r].pc # "idle" => pc[req[r].job] # "none"
  /\ req[r].pc # "done" => req[r].answer = "none"
  /\ req[r].pc \in {"check", "save"} => req[r].row.status # "none"
  /\ req[r].kind = "approve" /\ (req[r].pc \in {"save", "notify"} \/ req[r].answer = "resolved") =>
       Flagged(req[r].job)
  /\ req[r].kind = "approve" /\ req[r].answer = "resolved" =>
       mem[req[r].job].note # "blocked"

FlagsHold ==
  /\ \A j \in Jobs : FlagInv(j)
  /\ \A r \in Requests : RequestInv(r)

(* What a runner does to the flag and to the note.                         *)
LEMMA RunnerFlags ==
  ASSUME TypeInv, ~StoreFaults, NEW j \in Jobs, RunnerStep(j)
  PROVE  /\ mem'[j].approved = mem[j].approved
         /\ mem'[j].note = mem[j].note \/ (StageReturns(j) /\ mem'[j].note = NoteOf(j))
         /\ pc[j] \notin {"none", "dead"} /\ pc'[j] \notin {"none", "dead"}
<1>0. mem \in [Jobs -> Job] /\ mem[j] \in Job /\ pc \in [Jobs -> Control]
  BY DEF TypeInv, TypeOK
<1>1. /\ mem'[j].approved = mem[j].approved
      /\ mem'[j].note = mem[j].note \/ (StageReturns(j) /\ mem'[j].note = NoteOf(j))
  <2>1. CASE StageReturns(j)
    BY <1>0, <2>1 DEF StageReturns, Job
  <2>2. CASE ~StageReturns(j)
    <3>1. \/ \E status, error : SetStatus(j, status) \/ EndWith(j, status, error)
          \/ \E status : SetRecord(j, status)
          \/ UNCHANGED mem
      BY <2>2
         DEF RunnerStep, BeginAttempt, AttemptFails, Advance,
             SaveQueued, SaveStarted, StopCancelled, BeginStage, OpenGate, SaveAwaiting,
             SaveAttempt, StageThrows, BackoffOver, PostRequest, AwaitDecision, GateReturns,
             SaveStageDone, SaveGateDone, SaveResumed, SaveExhausted, SaveFinal
    <3>2. ASSUME NEW status, NEW error, SetStatus(j, status) \/ EndWith(j, status, error)
          PROVE  mem'[j].approved = mem[j].approved /\ mem'[j].note = mem[j].note
      BY <1>0, <3>2 DEF SetStatus, EndWith, Job
    <3>3. ASSUME NEW status, SetRecord(j, status)
          PROVE  mem'[j].approved = mem[j].approved /\ mem'[j].note = mem[j].note
      BY <1>0, <3>3 DEF SetRecord, Job
    <3> QED
      BY <3>1, <3>2, <3>3
  <2> QED
    BY <2>1, <2>2
<1>2. pc[j] \notin {"none", "dead"} /\ pc'[j] \notin {"none", "dead"}
  BY <1>0
     DEF RunnerStep, Go, BeginAttempt, AttemptFails, Advance,
         SaveQueued, SaveStarted, StopCancelled, BeginStage, OpenGate, SaveAwaiting,
         SaveAttempt, StageReturns, StageThrows, BackoffOver, PostRequest, AwaitDecision,
         GateReturns, SaveStageDone, SaveGateDone, SaveResumed, SaveExhausted, SaveFinal
<1> QED
  BY <1>1, <1>2

LEMMA RunnerKeepsFlags ==
  ASSUME TypeInv, MemsHold, ~StoreFaults, FlagsHold, NEW j \in Jobs, RunnerStep(j)
  PROVE  FlagsHold'
<1>0. /\ mem \in [Jobs -> Job] /\ store \in [Jobs -> Job] /\ cur[j] \in Nat /\ cur'[j] \in Nat
      /\ Gate \in Nat /\ FlagInv(j)
      /\ \A r \in Requests : RequestInv(r) /\ req[r].job \in Jobs
  <2>1. TypeOK'
    BY TypeStep DEF TypeInv, Next
  <2> QED
    BY <2>1, ConfigAssumption DEF ConfigAssumption, TypeInv, TypeOK, Stage, FlagsHold, Request
<1>1. /\ mem'[j].approved = mem[j].approved
      /\ mem'[j].note = mem[j].note \/ (StageReturns(j) /\ mem'[j].note = NoteOf(j))
      /\ pc[j] \notin {"none", "dead"} /\ pc'[j] \notin {"none", "dead"}
  BY RunnerFlags
<1>2. cur'[j] = cur[j] \/ cur'[j] = cur[j] + 1
  BY DEF TypeInv, TypeOK, RunnerStep, BeginAttempt, AttemptFails,
         Advance, SaveQueued, SaveStarted, StopCancelled, BeginStage, OpenGate,
         SaveAwaiting, SaveAttempt, StageReturns, StageThrows, BackoffOver, PostRequest,
         AwaitDecision, GateReturns, SaveStageDone, SaveGateDone, SaveResumed, SaveExhausted,
         SaveFinal
<1>3. mem'[j].note # "none" => Gate > 0 /\ cur'[j] > Gate
  <2>1. CASE mem'[j].note = mem[j].note
    BY <1>0, <1>2, <2>1 DEF FlagInv
  <2>2. CASE StageReturns(j) /\ mem'[j].note = NoteOf(j)
    <3>1. cur' = cur
      BY <2>2 DEF StageReturns
    <3> QED
      BY <1>0, <2>2, <3>1 DEF NoteOf, FlagInv
  <2> QED
    BY <1>1, <2>1, <2>2
<1>4. store'[j].status = "none" => store'[j].approved = FALSE /\ store'[j].note = "none"
  <2>1. UNCHANGED store \/ (Persist(j) /\ pc[j] \in AtSave)
    BY RunnerSaves
  <2>2. pc[j] \in AtSave => mem[j].status # "none"
    BY DEF MemsHold, MemInv, Going, RunnerHolds, MemStatus, AtStage, AtSave
  <2> QED
    BY <1>0, <2>1, <2>2 DEF FlagInv, Persist
<1>5. \A i \in Jobs : FlagInv(i)'
  <2>1. FlagInv(j)'
    BY <1>1, <1>3, <1>4 DEF FlagInv
  <2>2. ASSUME NEW i \in Jobs \ {j} PROVE FlagInv(i)'
    BY RunnerIsLocal DEF FlagsHold, FlagInv
  <2> QED
    BY <2>1, <2>2
<1>6. ASSUME NEW r \in Requests PROVE RequestInv(r)'
  <2>0. req' = req /\ RequestInv(r) /\ req[r].job \in Jobs
    BY <1>0, RunnerSaves
  <2>1. CASE req[r].job # j
    <3>1. pc'[req[r].job] = pc[req[r].job] /\ mem'[req[r].job] = mem[req[r].job]
      BY <2>0, <2>1, RunnerIsLocal
    <3> QED
      BY <2>0, <3>1 DEF RequestInv, Flagged
  <2>2. CASE req[r].job = j
    <3>1. Flagged(j) => Flagged(j)'
      BY <1>1 DEF Flagged
    <3>2. Flagged(j) /\ mem[j].note # "blocked" => mem'[j].note # "blocked"
      BY <1>1 DEF Flagged, NoteOf
    <3> QED
      BY <1>1, <2>0, <2>2, <3>1, <3>2 DEF RequestInv
  <2> QED
    BY <2>1, <2>2
<1> QED
  BY <1>5, <1>6 DEF FlagsHold

LEMMA SubmitKeepsFlags ==
  ASSUME TypeInv, FlagsHold, NEW j \in Jobs, Submit(j)
  PROVE  FlagsHold'
<1>0. \A r \in Requests : RequestInv(r) /\ req[r].job \in Jobs
  BY DEF TypeInv, TypeOK, FlagsHold, Request
<1>1. /\ pc[j] = "none" /\ pc'[j] = "enqueue" /\ UNCHANGED <<store, cur, req>>
      /\ mem'[j].note = "none"
  BY DEF Submit, Go, TypeInv, TypeOK, Absent, runnerOnly, peopleVars
<1>2. \A i \in Jobs \ {j} : pc'[i] = pc[i] /\ mem'[i] = mem[i]
  BY RunnerIsLocal
<1>3. \A i \in Jobs : FlagInv(i)'
  BY <1>1, <1>2 DEF FlagsHold, FlagInv
<1>4. ASSUME NEW r \in Requests PROVE RequestInv(r)'
  <2>1. CASE req[r].job = j
    <3>1. req[r].pc = "idle" /\ req[r].answer = "none"
      BY <1>0, <1>1, <2>1 DEF RequestInv
    <3> QED
      BY <1>1, <3>1 DEF RequestInv
  <2>2. CASE req[r].job # j
    BY <1>0, <1>1, <1>2, <2>2 DEF RequestInv, Flagged
  <2> QED
    BY <2>1, <2>2
<1> QED
  BY <1>3, <1>4 DEF FlagsHold

(* A handler writes rows of jobs that exist; approving, it flags the       *)
(* runner's object, and a promise it resolves is that of a job still at    *)
(* its gate, whose note is not written yet.                                *)
LEMMA RequestMem ==
  ASSUME TypeInv, SharedNested, NEW r \in Requests, RequestStep(r) \/ ReceiveRequest(r)
  PROVE  /\ \A j \in Jobs : /\ mem'[j].note = mem[j].note
                            /\ mem[j].approved = TRUE => mem'[j].approved = TRUE
         /\ AcceptApprove(r) => mem'[req[r].job].approved = TRUE
         /\ pc' = pc /\ cur' = cur
<1>0. mem \in [Jobs -> Job] /\ req[r].job \in Jobs
  BY DEF TypeInv, TypeOK, Request
<1>1. pc' = pc /\ cur' = cur
  BY DEF ReceiveRequest, RequestStep, RefuseRequest, AcceptApprove,
         AcceptReject, AcceptCancel, Accept, SaveRequest, NotifyRequest, requestOnly, runnerVars
<1>2. CASE AcceptApprove(r)
  <2>1. mem' = [mem EXCEPT ![req[r].job].approved = TRUE]
    BY <1>2 DEF AcceptApprove
  <2>2. ASSUME NEW j \in Jobs
        PROVE  /\ mem'[j].note = mem[j].note
               /\ mem[j].approved = TRUE => mem'[j].approved = TRUE
               /\ j = req[r].job => mem'[j].approved = TRUE
    <3>1. mem'[j] = IF j = req[r].job THEN [mem[j] EXCEPT !.approved = TRUE] ELSE mem[j]
      BY <1>0, <2>1
    <3>2. mem[j] \in Job
      BY <1>0
    <3> QED
      BY <3>1, <3>2 DEF Job
  <2> QED
    BY <1>0, <1>1, <2>2
<1>3. CASE ~AcceptApprove(r)
  <2>1. mem' = mem
    BY <1>3 DEF ReceiveRequest, RequestStep, RefuseRequest, AcceptReject, AcceptCancel,
                SaveRequest, NotifyRequest, requestOnly, runnerVars
  <2> QED
    BY <1>1, <1>3, <2>1
<1> QED
  BY <1>2, <1>3

LEMMA RequestKeepsFlags ==
  ASSUME TypeInv, PassInv, SharedNested, FlagsHold, NEW r \in Requests,
         RequestStep(r) \/ ReceiveRequest(r)
  PROVE  FlagsHold'
<1>0. /\ req \in [Requests -> Request] /\ store \in [Jobs -> Job] /\ req[r].row \in Job
      /\ \A i \in Requests : req[i].job \in Jobs /\ RequestInv(i)
      /\ \A j \in Jobs : FlagInv(j) /\ store[j] \in Job
  BY DEF TypeInv, TypeOK, FlagsHold, Request
<1>1. /\ \A j \in Jobs : /\ mem'[j].note = mem[j].note
                         /\ mem[j].approved = TRUE => mem'[j].approved = TRUE
      /\ AcceptApprove(r) => mem'[req[r].job].approved = TRUE
      /\ pc' = pc /\ cur' = cur
  BY RequestMem
<1>2. UNCHANGED store \/ (WriteRow(r) /\ req[r].pc = "save")
  BY DEF ReceiveRequest, RequestStep, RefuseRequest, AcceptApprove,
         AcceptReject, AcceptCancel, Accept, SaveRequest, NotifyRequest
<1>3. ASSUME NEW j \in Jobs PROVE FlagInv(j)'
  <2>1. store'[j] = store[j] \/
          (j = req[r].job /\ store'[j] = req[r].row /\ req[r].pc = "save")
    BY <1>0, <1>2 DEF WriteRow
  <2>2. CASE store'[j] = store[j]
    BY <1>0, <1>1, <2>2 DEF FlagInv
  <2>3. CASE j = req[r].job /\ store'[j] = req[r].row /\ req[r].pc = "save"
    <3>1. pc[j] # "none" /\ req[r].row.status # "none"
      BY <1>0, <2>3 DEF RequestInv
    <3> QED
      BY <1>0, <1>1, <2>3, <3>1 DEF FlagInv
  <2> QED
    BY <2>1, <2>2, <2>3
<1>4. req' = [req EXCEPT ![r] = req'[r]]
  BY <1>0 DEF ReceiveRequest, RequestStep, RefuseRequest, AcceptApprove,
              AcceptReject, AcceptCancel, Accept, SaveRequest, NotifyRequest, Answer
<1>5. ASSUME NEW i \in Requests \ {r} PROVE RequestInv(i)'
  <2>1. req'[i] = req[i]
    BY <1>0, <1>4
  <2> QED
    BY <1>0, <1>1, <2>1 DEF RequestInv, Flagged
<1>6. RequestInv(r)'
  <2>0. RequestInv(r) /\ req[r] \in Request
    BY <1>0
  <2>1. CASE ReceiveRequest(r)
    <3>1. PICK kind \in {"approve", "reject", "cancel"}, j \in Jobs :
            /\ View(j).status # "none"
            /\ req' = [req EXCEPT ![r] = [@ EXCEPT !.pc = "check", !.kind = kind,
                                                  !.job = j, !.row = View(j)]]
      BY <2>1 DEF ReceiveRequest
    <3>2. req'[r] = [req[r] EXCEPT !.pc = "check", !.kind = kind, !.job = j, !.row = View(j)]
      BY <1>0, <3>1
    <3>3. /\ req[r].pc = "idle" /\ req'[r].pc = "check" /\ req'[r].answer = req[r].answer
          /\ req'[r].job = j /\ req'[r].row.status = View(j).status
      BY <2>0, <2>1, <3>2 DEF ReceiveRequest, Request
    <3>4. View(j).status = store[j].status
      BY <1>0 DEF View, Job
    <3>5. pc'[j] # "none"
      BY <1>0, <1>1, <3>1, <3>4 DEF FlagInv
    <3> QED
      BY <2>0, <3>1, <3>3, <3>5 DEF RequestInv
  <2>2. CASE RefuseRequest(r)
    <3>1. /\ req[r].pc = "check" /\ req'[r].pc = "done" /\ req'[r].answer = "refused"
          /\ req'[r].job = req[r].job
      BY <1>0, <2>2 DEF RefuseRequest, Answer, Request
    <3> QED
      BY <1>1, <2>0, <3>1 DEF RequestInv
  <2>3. CASE AcceptApprove(r) \/ AcceptReject(r) \/ AcceptCancel(r)
    <3>1. /\ req[r].pc = "check" /\ req'[r].pc = "save" /\ req'[r].answer = req[r].answer
          /\ req'[r].job = req[r].job /\ req'[r].kind = req[r].kind
          /\ req'[r].row.status \in {req[r].row.status, "failed"}
          /\ req[r].kind = "approve" => AcceptApprove(r)
      <4>0. req[r].row \in Job
        BY <1>0
      <4>1. CASE AcceptApprove(r)
        BY <1>0, <4>0, <4>1 DEF AcceptApprove, Accept, Request, Job
      <4>2. CASE AcceptReject(r)
        BY <1>0, <4>0, <4>2 DEF AcceptReject, Accept, Request, Job
      <4>3. CASE AcceptCancel(r)
        BY <1>0, <4>0, <4>3 DEF AcceptCancel, Accept, Request, Job
      <4> QED
        BY <2>3, <4>1, <4>2, <4>3
    <3> QED
      BY <1>1, <2>0, <3>1 DEF RequestInv, Flagged
  <2>4. CASE SaveRequest(r)
    <3>1. /\ req[r].pc = "save" /\ req'[r].pc \in {"notify", "done"}
          /\ req'[r].answer \in {req[r].answer, "cancelled"}
          /\ req'[r].pc = "notify" => req'[r].answer = req[r].answer
          /\ req'[r].job = req[r].job /\ req'[r].kind = req[r].kind
      BY <1>0, <2>4 DEF SaveRequest, Answer, Request
    <3>2. \A j \in Jobs : Flagged(j) => Flagged(j)'
      BY <1>1 DEF Flagged
    <3> QED
      BY <1>0, <1>1, <2>0, <3>1, <3>2 DEF RequestInv
  <2>5. CASE NotifyRequest(r)
    <3>1. /\ req[r].pc = "notify" /\ req'[r].pc = "done"
          /\ req'[r].answer = "resolved" => Gates!HasPending(req[r].job)
          /\ req'[r].job = req[r].job /\ req'[r].kind = req[r].kind
      BY <1>0, <2>5 DEF NotifyRequest, Answer, Request
    <3>2. \A j \in Jobs : Flagged(j) => Flagged(j)'
      BY <1>1 DEF Flagged
    <3>3. Gates!HasPending(req[r].job) => mem[req[r].job].note = "none"
      <4> DEFINE j == req[r].job
      <4> SUFFICES ASSUME Gates!HasPending(j), mem[j].note # "none" PROVE FALSE
        OBVIOUS
      <4>1. callbacks[j] = waits[j] /\ outcome[j][waits[j]] = "pending"
        BY <1>0 DEF TypeInv, GP!GateInv, GP!EntryIsOpen, GP!HasPending, Gates!HasPending
      <4>2. Gate > 0 /\ cur[j] > Gate
        BY <1>0 DEF FlagInv
      <4> QED
        BY <1>0, <4>1, <4>2 DEF PassInv, JobInv, Passed, Verdict
    <3> QED
      BY <1>0, <1>1, <2>0, <3>1, <3>2, <3>3 DEF RequestInv, Flagged
  <2> QED
    BY <2>1, <2>2, <2>3, <2>4, <2>5 DEF RequestStep
<1> QED
  BY <1>3, <1>5, <1>6 DEF FlagsHold

LEMMA FlagsStep ==
  ASSUME SharedNested, TypeInv, PassInv, MemsHold, FlagsHold, [Next]_vars
  PROVE  FlagsHold'
<1>0. ~StoreFaults
  BY ConfigAssumption DEF ConfigAssumption
<1>1. ASSUME NEW j \in Jobs, Submit(j) PROVE FlagsHold'
  BY <1>1, SubmitKeepsFlags
<1>2. ASSUME NEW j \in Jobs, RunnerStep(j) PROVE FlagsHold'
  BY <1>0, <1>2, RunnerKeepsFlags
<1>3. ASSUME UNCHANGED <<runnerVars, store, req>> PROVE FlagsHold'
  BY <1>3 DEF runnerVars, FlagsHold, FlagInv, RequestInv, Flagged
<1>4. ASSUME NEW r \in Requests, RequestStep(r) \/ ReceiveRequest(r) PROVE FlagsHold'
  BY <1>4, RequestKeepsFlags
<1>5. CASE Crash
  <2>1. \A j \in Jobs : /\ pc'[j] = (IF pc[j] = "none" THEN "none" ELSE "dead")
                        /\ mem'[j] = Absent /\ store'[j] = Absent
    BY <1>5 DEF Crash
  <2>2. Absent.status = "none" /\ Absent.approved = FALSE /\ Absent.note = "none"
    BY DEF Absent
  <2>3. ASSUME NEW r \in Requests
        PROVE  /\ \/ req'[r].pc = req[r].pc /\ req[r].pc \in {"idle", "done"}
                  \/ req'[r].pc = "done"
               /\ req'[r].pc # "idle" => req[r].pc # "idle"
               /\ req'[r].job = req[r].job /\ req'[r].kind = req[r].kind
               /\ req'[r].answer = req[r].answer
               /\ req[r].job \in Jobs
    BY <1>5 DEF Crash, TypeInv, TypeOK, Request
  <2>4. \A j \in Jobs : FlagInv(j)'
    BY <2>1, <2>2 DEF FlagInv
  <2>5. ASSUME NEW r \in Requests PROVE RequestInv(r)'
    <3>1. RequestInv(r)
      BY DEF FlagsHold
    <3> DEFINE j == req[r].job
    <3>2. j \in Jobs /\ req'[r].job = j /\ mem'[j].note = "none"
      BY <2>1, <2>2, <2>3
    <3>3. req[r].pc # "idle" => pc'[j] = "dead"
      BY <2>1, <3>1, <3>2 DEF RequestInv
    <3>4. req[r].pc = "idle" => req'[r].pc = "idle" /\ req'[r].answer = "none"
      BY <1>5, <3>1 DEF Crash, RequestInv, TypeInv, TypeOK, Request
    <3> HIDE DEF j
    <3> QED
      BY <2>3, <3>2, <3>3, <3>4 DEF RequestInv, Flagged
  <2> QED
    BY <2>4, <2>5 DEF FlagsHold
<1> QED
  BY <1>0, <1>1, <1>2, <1>3, <1>4, <1>5
     DEF Next, vars, peopleVars, SlackClick, Timeout, RecordSaveThrows, StoreThrows,
         SaveRequestThrows

LEMMA FlagsAlwaysHold ==
  ASSUME SharedNested
  PROVE  Spec => [](TypeInv /\ PassInv /\ MemsHold /\ FlagsHold)
<1>1. Init => FlagsHold
  <2> SUFFICES ASSUME Init PROVE FlagsHold
    OBVIOUS
  <2>1. Absent.status = "none" /\ Absent.approved = FALSE /\ Absent.note = "none"
    BY DEF Absent
  <2>2. \A r \in Requests : req[r].pc = "idle" /\ req[r].answer = "none" /\ req[r].kind = "cancel"
    BY DEF Init
  <2> QED
    BY <2>1, <2>2 DEF Init, FlagsHold, FlagInv, RequestInv
<1>2. Init => TypeInv /\ PassInv /\ MemsHold /\ FlagsHold
  BY <1>1, InitTypeInv, InitPassInv, InitMems
<1>3. TypeInv /\ PassInv /\ MemsHold /\ FlagsHold /\ [Next]_vars =>
        (TypeInv /\ PassInv /\ MemsHold /\ FlagsHold)'
  BY TypeStep, PassStep, MemStep, FlagsStep
<1> QED
  BY <1>2, <1>3, PTL DEF Spec

(* A job whose approval through the API was answered with resolved is not  *)
(* published as unapproved: the handler's flag reaches the publish stage.  *)
THEOREM ApiApprovalReachesPublish == SharedNested => (Spec => []PublishSeesApiApproval)
<1> SUFFICES ASSUME SharedNested PROVE Spec => []PublishSeesApiApproval
  OBVIOUS
<1>1. ASSUME TypeInv, FlagsHold PROVE PublishSeesApiApproval
  <2> SUFFICES ASSUME NEW r \in Requests, req[r].kind = "approve", req[r].answer = "resolved"
               PROVE  View(req[r].job).note # "blocked"
    BY DEF PublishSeesApiApproval
  <2> DEFINE j == req[r].job
  <2>1. j \in Jobs /\ store[j] \in Job
    BY <1>1 DEF TypeInv, TypeOK, Request
  <2>2. mem[j].note # "blocked" /\ (store[j].status = "none" => store[j].note = "none")
    BY <1>1, <2>1 DEF FlagsHold, RequestInv, FlagInv
  <2> HIDE DEF j
  <2>3. View(j).note # "blocked"
    BY <2>1, <2>2 DEF View, Job
  <2> QED
    BY <2>3 DEF j
<1> QED
  BY <1>1, FlagsAlwaysHold, PTL
=============================================================================
