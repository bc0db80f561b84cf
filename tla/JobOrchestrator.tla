-------------------------- MODULE JobOrchestrator --------------------------
(***************************************************************************)
(* The life of jobs in the daemon: the workflow runner                     *)
(* (src/core/orchestrator.ts), the job stores it saves to                  *)
(* (src/core/job-store.ts, supabase-job-store.ts), the approval gate       *)
(* (module ApprovalStore, with src/workflows/blog/stages/07 and 08), and   *)
(* the HTTP and Slack handlers that act on a job while its runner works on *)
(* it (src/api/server.ts).                                                 *)
(*                                                                         *)
(* One action is the code between two awaits.  A save writes the whole job *)
(* object that its caller holds: the runner holds `mem`, a handler holds   *)
(* the row it read earlier, so saves of different callers can overwrite    *)
(* each other.                                                             *)
(***************************************************************************)
EXTENDS Naturals, FiniteSets

CONSTANTS
  Jobs,           \* job ids
  Requests,       \* HTTP requests to approve, reject or cancel; each is made once
  NumStages,      \* number of stages of the workflow
  Gate,           \* index of the approval_notify stage, 0 if there is none
  MaxAttempts,    \* config.orchestrator.maxStageRetries + 1
  SharedNested,   \* TRUE: MemoryJobStore; FALSE: a store that copies (file, Supabase)
  StoreFaults,    \* whether a store call may throw
  MaxCrashes      \* bound: process deaths

ASSUME ConfigAssumption ==
  /\ NumStages \in Nat \ {0}
  /\ Gate \in 0..NumStages
  /\ MaxAttempts \in Nat \ {0}
  /\ SharedNested \in BOOLEAN
  /\ StoreFaults \in BOOLEAN
  /\ SharedNested => ~StoreFaults  \* a Map does not throw
  /\ MaxCrashes \in Nat

VARIABLES
  (* the runner of each job, runJob and runStageWithRetry                  *)
  pc,        \* pc[j]: where the runner of j is; see Control
  cur,       \* cur[j]: index of the stage in hand
  attempt,   \* attempt[j]: the attempt in hand
  mem,       \* mem[j]: the Job object the runner holds
  (* what the process shares                                               *)
  store,     \* store[j]: the row of j in the job store
  callbacks, waits, timers, outcome, acked,   \* module ApprovalStore
  (* people and the handlers that serve them                               *)
  slackMsg,  \* slackMsg[j]: the approval message in Slack, by what it shows
  req,       \* req[r]: state of request r
  human,     \* history: human[j], the decisions people made about j
  crashes    \* number of process deaths so far

Stage       == 1..NumStages
StageStatus == {"pending", "running", "completed", "failed"}
JobStatus   == {"none", "queued", "running", "awaiting_approval",
                "completed", "failed", "rejected"}
Terminal    == {"completed", "failed", "rejected"}
Decisions   == {"approved", "rejected"}

(* A Job, as far as its life cycle goes: `recs` is the status of each      *)
(* stage record, `approved` is approval.approved, `note` says which of its *)
(* two notes the publish stage recorded, `error` why the job ended.        *)
Job == [status   : JobStatus,
        recs     : [Stage -> StageStatus],
        approved : BOOLEAN,
        note     : {"none", "ready", "blocked"},
        error    : {"none", "stage", "rejected", "cancelled"}]

Absent == [status |-> "none", recs |-> [k \in Stage |-> "pending"],
           approved |-> FALSE, note |-> "none", error |-> "none"]

(* Where a runner can be.  Those of AtSave await a save of mem.            *)
AtSave  == {"enqueue", "start", "openGate", "attempt", "record", "resume",
            "exhausted", "finish", "fail", "reject"}
Control == AtSave \cup {"none", "check", "run", "notify", "notified", "wait",
                        "backoff", "done", "dead"}
Active  == Control \ {"none", "done", "dead"}

Request == [pc     : {"idle", "check", "save", "notify", "done"},
            kind   : {"approve", "reject", "cancel"},
            job    : Jobs,
            row    : Job,    \* what the handler read, then its edited copy
            answer : {"none", "refused", "cancelled",
                      "resolved", "unresolved", "error"}]  \* the HTTP reply

runnerVars == <<pc, cur, attempt, mem>>
gateVars   == <<callbacks, waits, timers, outcome, acked>>
peopleVars == <<slackMsg, req, human>>
vars       == <<runnerVars, store, gateVars, peopleVars, crashes>>

Gates == INSTANCE ApprovalStore WITH MaxWaits <- MaxAttempts

TypeOK ==
  /\ pc \in [Jobs -> Control]
  /\ cur \in [Jobs -> Stage]
  /\ attempt \in [Jobs -> 1..MaxAttempts]
  /\ mem \in [Jobs -> Job]
  /\ store \in [Jobs -> Job]
  /\ Gates!TypeOK
  /\ slackMsg \in [Jobs -> {"none", "open"} \cup Decisions]
  /\ req \in [Requests -> Request]
  /\ human \in [Jobs -> SUBSET (Decisions \cup {"cancelled"})]
  /\ crashes \in 0..MaxCrashes

Init ==
  /\ pc = [j \in Jobs |-> "none"]
  /\ cur = [j \in Jobs |-> 1]
  /\ attempt = [j \in Jobs |-> 1]
  /\ mem = [j \in Jobs |-> Absent]
  /\ store = [j \in Jobs |-> Absent]
  /\ Gates!Init
  /\ slackMsg = [j \in Jobs |-> "none"]
  /\ \E anyJob \in Jobs :
       req = [r \in Requests |-> [pc |-> "idle", kind |-> "cancel",
                                  job |-> anyJob, row |-> Absent, answer |-> "none"]]
  /\ human = [j \in Jobs |-> {}]
  /\ crashes = 0

(***************************************************************************)
(* The job store                                                           *)
(***************************************************************************)

(* The row a reader gets.  MemoryJobStore.save copies one level only, so   *)
(* the stage records and the approval object of its rows are those of the  *)
(* runner's own Job, up to date at every moment.                           *)
View(j) ==
  IF SharedNested /\ store[j].status # "none"
  THEN [store[j] EXCEPT !.recs = mem[j].recs, !.approved = mem[j].approved,
                        !.note = mem[j].note]
  ELSE store[j]

Persist(j) == store' = [store EXCEPT ![j] = mem[j]]

(* A save that throws may still have reached the database.                 *)
PersistOrNot(j) == Persist(j) \/ UNCHANGED store

(***************************************************************************)
(* The runner.  Go(j, from, to) is the control step; what the code does to *)
(* its Job object right after one await and before the next one is in the  *)
(* same action as the await that ends.                                     *)
(***************************************************************************)

Go(j, from, to) ==
  /\ pc[j] = from
  /\ pc' = [pc EXCEPT ![j] = to]

SetStatus(j, status) == mem' = [mem EXCEPT ![j].status = status]

EndWith(j, status, error) ==
  mem' = [mem EXCEPT ![j].status = status, ![j].error = error]

SetRecord(j, status) == mem' = [mem EXCEPT ![j].recs[cur[j]] = status]

runnerOnly == <<gateVars, peopleVars, crashes>>   \* what a plain runner step leaves alone

(* submitJob / fetchAndEnqueue: createJob, then the first save.            *)
Submit(j) ==
  /\ Go(j, "none", "enqueue")
  /\ mem' = [mem EXCEPT ![j] = [Absent EXCEPT !.status = "queued"]]
  /\ UNCHANGED <<cur, attempt, store, runnerOnly>>

SaveQueued(j) ==
  /\ Go(j, "enqueue", "start")
  /\ Persist(j)
  /\ SetStatus(j, "running")
  /\ UNCHANGED <<cur, attempt, runnerOnly>>

SaveStarted(j) ==
  /\ Go(j, "start", "check")
  /\ Persist(j)
  /\ UNCHANGED <<cur, attempt, mem, runnerOnly>>

(* The guard at the top of the stage loop re-reads the status.             *)
CancelledInStore(j) == View(j).status \in {"failed", "rejected"}

StopCancelled(j) ==
  /\ CancelledInStore(j)
  /\ Go(j, "check", "done")
  /\ UNCHANGED <<cur, attempt, mem, store, runnerOnly>>

(* The next attempt at stage k: attempt counter and record, then the save. *)
BeginAttempt(j, from, n) ==
  /\ Go(j, from, "attempt")
  /\ attempt' = [attempt EXCEPT ![j] = n]
  /\ SetRecord(j, "running")
  /\ UNCHANGED cur

BeginStage(j) ==
  /\ ~CancelledInStore(j)
  /\ cur[j] # Gate
  /\ BeginAttempt(j, "check", 1)
  /\ UNCHANGED <<store, runnerOnly>>

OpenGate(j) ==
  /\ ~CancelledInStore(j)
  /\ cur[j] = Gate
  /\ Go(j, "check", "openGate")
  /\ SetStatus(j, "awaiting_approval")
  /\ UNCHANGED <<cur, attempt, store, runnerOnly>>

SaveAwaiting(j) ==
  /\ BeginAttempt(j, "openGate", 1)
  /\ Persist(j)
  /\ UNCHANGED runnerOnly

SaveAttempt(j) ==
  /\ Go(j, "attempt", IF cur[j] = Gate THEN "notify" ELSE "run")
  /\ Persist(j)
  /\ UNCHANGED <<cur, attempt, mem, runnerOnly>>

(* Stages other than the gate.  The publish stage only looks at            *)
(* job.approval.approved to word its note.                                 *)
NoteOf(j) ==
  IF Gate = 0 \/ cur[j] # Gate + 1 THEN mem[j].note
  ELSE IF mem[j].approved THEN "ready" ELSE "blocked"

StageReturns(j) ==
  /\ Go(j, "run", "record")
  /\ mem' = [mem EXCEPT ![j].recs[cur[j]] = "completed", ![j].note = NoteOf(j)]
  /\ UNCHANGED <<cur, attempt, store, runnerOnly>>

(* Seeded fault: one attempt too many.                                     *)
AttemptFailsLate(j, from) ==
  /\ IF attempt[j] > MaxAttempts
     THEN Go(j, from, "exhausted") /\ SetRecord(j, "failed")
     ELSE Go(j, from, "backoff") /\ UNCHANGED mem
  /\ UNCHANGED <<cur, attempt>>

(* catch: mark the record failed when no attempt is left, else back off.   *)
AttemptFails(j, from) ==
  /\ IF attempt[j] >= MaxAttempts
     THEN Go(j, from, "exhausted") /\ SetRecord(j, "failed")
     ELSE Go(j, from, "backoff") /\ UNCHANGED mem
  /\ UNCHANGED <<cur, attempt>>

StageThrows(j) ==
  /\ AttemptFails(j, "run")
  /\ UNCHANGED <<store, runnerOnly>>

BackoffOver(j) ==
  /\ BeginAttempt(j, "backoff", attempt[j] + 1)
  /\ UNCHANGED <<store, runnerOnly>>

(* The gate stage.  Its notifiers run in parallel; Slack's message may be  *)
(* up, or have failed, while another notifier is still busy.  Only when    *)
(* all are through does the stage call waitForApproval.                    *)
PostRequest(j) ==
  /\ Go(j, "notify", "notified")
  /\ \/ slackMsg' = [slackMsg EXCEPT ![j] = "open"]
     \/ UNCHANGED slackMsg
  /\ UNCHANGED <<cur, attempt, mem, store, gateVars, req, human, crashes>>

AwaitDecision(j) ==
  /\ Go(j, "notified", "wait")
  /\ Gates!WaitForApproval(j)
  /\ UNCHANGED <<cur, attempt, mem, store, peopleVars, crashes>>

Verdict(j) == outcome[j][waits[j]]   \* of the promise the stage awaits

GateReturns(j) ==
  /\ Go(j, "wait", "record")
  /\ Verdict(j) # "pending"
  /\ SetRecord(j, "completed")
  /\ UNCHANGED <<cur, attempt, store, runnerOnly>>

(* After the last stage the job is completed, else the loop goes on.       *)
Advance(j, from) ==
  IF cur[j] = NumStages
  THEN /\ Go(j, from, "finish")
       /\ SetStatus(j, "completed")
       /\ UNCHANGED <<cur, attempt>>
  ELSE /\ Go(j, from, "check")
       /\ cur' = [cur EXCEPT ![j] = @ + 1]
       /\ UNCHANGED <<attempt, mem>>

(* The save inside the try block, after stage.run returned.                *)
SaveStageDone(j) ==
  /\ cur[j] # Gate
  /\ Advance(j, "record")
  /\ Persist(j)
  /\ UNCHANGED runnerOnly

(* Seeded faults: anything but a rejection counts as an approval; the      *)
(* status is not set back to running after one.                            *)
SaveGateDoneLenient(j) ==
  /\ pc[j] = "record" /\ cur[j] = Gate
  /\ IF Verdict(j) # "rejected"
     THEN Go(j, "record", "resume") /\ SetStatus(j, "running")
     ELSE Go(j, "record", "reject") /\ EndWith(j, "rejected", "rejected")
  /\ Persist(j)
  /\ UNCHANGED <<cur, attempt, runnerOnly>>

SaveGateDoneNoResume(j) ==
  /\ pc[j] = "record" /\ cur[j] = Gate
  /\ IF Verdict(j) = "approved"
     THEN Go(j, "record", "resume") /\ UNCHANGED mem
     ELSE Go(j, "record", "reject") /\ EndWith(j, "rejected", "rejected")
  /\ Persist(j)
  /\ UNCHANGED <<cur, attempt, runnerOnly>>

SaveGateDone(j) ==
  /\ pc[j] = "record" /\ cur[j] = Gate
  /\ IF Verdict(j) = "approved"
     THEN Go(j, "record", "resume") /\ SetStatus(j, "running")
     ELSE Go(j, "record", "reject") /\ EndWith(j, "rejected", "rejected")
  /\ Persist(j)
  /\ UNCHANGED <<cur, attempt, runnerOnly>>

SaveResumed(j) ==
  /\ Advance(j, "resume")
  /\ Persist(j)
  /\ UNCHANGED runnerOnly

(* Seeded fault: runJob returns without failJob.                           *)
SaveExhaustedOnly(j) ==
  /\ Go(j, "exhausted", "done")
  /\ Persist(j)
  /\ UNCHANGED <<cur, attempt, mem, runnerOnly>>

SaveExhausted(j) ==
  /\ Go(j, "exhausted", "fail")
  /\ Persist(j)
  /\ EndWith(j, "failed", "stage")
  /\ UNCHANGED <<cur, attempt, runnerOnly>>

(* The last save of completion, failJob and rejectJob.                     *)
SaveFinal(j) ==
  /\ \E last \in {"finish", "fail", "reject"} : Go(j, last, "done")
  /\ Persist(j)
  /\ UNCHANGED <<cur, attempt, mem, runnerOnly>>

(* A throwing save inside the try block counts as a failed attempt and the *)
(* stage, which has already run, runs again; any other throw ends runJob.  *)
RecordSaveThrows(j) ==
  /\ StoreFaults
  /\ AttemptFails(j, "record")
  /\ PersistOrNot(j)
  /\ UNCHANGED runnerOnly

(* Seeded fault: whatever ends runJob marks the job failed.                *)
StoreThrowsFailsJob(j) ==
  /\ StoreFaults
  /\ \/ pc[j] \in AtSave \ {"record", "fail"} /\ PersistOrNot(j)
     \/ pc[j] = "check" /\ UNCHANGED store
  /\ pc' = [pc EXCEPT ![j] = "fail"]
  /\ EndWith(j, "failed", "stage")
  /\ UNCHANGED <<cur, attempt, runnerOnly>>

StoreThrows(j) ==
  /\ StoreFaults
  /\ \/ pc[j] \in AtSave \ {"record"} /\ PersistOrNot(j)
     \/ pc[j] = "check" /\ UNCHANGED store
  /\ pc' = [pc EXCEPT ![j] = "dead"]
  /\ UNCHANGED <<cur, attempt, mem, runnerOnly>>

(***************************************************************************)
(* The HTTP handlers approveJob, rejectJob and cancelJob.  Each reads the  *)
(* row, checks its status, edits its copy and writes the whole copy back.  *)
(* With the memory and the file store the write follows the edit without   *)
(* an await; with Supabase the runner may save in between.                 *)
(***************************************************************************)

requestOnly == <<runnerVars, slackMsg, crashes>>  \* what a handler step leaves alone

ReceiveRequest(r) ==
  /\ req[r].pc = "idle"
  /\ \E kind \in {"approve", "reject", "cancel"}, j \in Jobs :
       /\ View(j).status # "none"
       /\ req' = [req EXCEPT ![r] = [@ EXCEPT !.pc = "check", !.kind = kind,
                                             !.job = j, !.row = View(j)]]
  /\ UNCHANGED <<store, gateVars, human, requestOnly>>

Answer(r, answer) ==
  req' = [req EXCEPT ![r] = [@ EXCEPT !.pc = "done", !.row = Absent, !.answer = answer]]

(* 409: not awaiting approval, or already ended.                           *)
Refused(r) ==
  IF req[r].kind = "cancel" THEN req[r].row.status \in Terminal
                            ELSE req[r].row.status # "awaiting_approval"

RefuseRequest(r) ==
  /\ req[r].pc = "check"
  /\ Refused(r)
  /\ Answer(r, "refused")
  /\ UNCHANGED <<store, gateVars, human, requestOnly>>

Accept(r, kind, decision, edited) ==
  /\ req[r].pc = "check"
  /\ req[r].kind = kind
  /\ ~Refused(r)
  /\ human' = [human EXCEPT ![req[r].job] = @ \cup {decision}]
  /\ req' = [req EXCEPT ![r].pc = "save", ![r].row = edited]
  /\ UNCHANGED <<pc, cur, attempt, slackMsg, crashes, store>>

(* Seeded fault: the handler approves a copy of the approval object.       *)
AcceptApproveCopy(r) ==
  /\ Accept(r, "approve", "approved", [req[r].row EXCEPT !.approved = TRUE])
  /\ UNCHANGED <<mem, gateVars>>

(* The approval object of a memory-store row is the runner's own.          *)
AcceptApprove(r) ==
  LET j == req[r].job IN
  /\ Accept(r, "approve", "approved", [req[r].row EXCEPT !.approved = TRUE])
  /\ IF SharedNested THEN mem' = [mem EXCEPT ![j].approved = TRUE]
                     ELSE UNCHANGED mem
  /\ UNCHANGED gateVars

AcceptReject(r) ==
  /\ Accept(r, "reject", "rejected", req[r].row)
  /\ UNCHANGED <<mem, gateVars>>

(* A job read as awaiting approval has its gate resolved first.            *)
AcceptCancel(r) ==
  /\ Accept(r, "cancel", "cancelled",
            [req[r].row EXCEPT !.status = "failed", !.error = "cancelled"])
  /\ IF req[r].row.status = "awaiting_approval"
     THEN Gates!NotifyOrIgnore(req[r].job, "rejected")
     ELSE UNCHANGED gateVars
  /\ UNCHANGED mem

(* Seeded fault: only the edited columns are written.                      *)
WriteColumns(r) ==
  store' = [store EXCEPT ![req[r].job].status = req[r].row.status,
                         ![req[r].job].error = req[r].row.error]

WriteRow(r) == store' = [store EXCEPT ![req[r].job] = req[r].row]

SaveRequest(r) ==
  /\ req[r].pc = "save"
  /\ WriteRow(r)
  /\ IF req[r].kind = "cancel"
     THEN Answer(r, "cancelled")
     ELSE req' = [req EXCEPT ![r] = [@ EXCEPT !.pc = "notify", !.row = Absent]]
  /\ UNCHANGED <<gateVars, human, requestOnly>>

NotifyRequest(r) ==
  LET j == req[r].job
      decision == IF req[r].kind = "approve" THEN "approved" ELSE "rejected"
  IN
  /\ req[r].pc = "notify"
  /\ Gates!NotifyOrIgnore(j, decision)
  /\ Answer(r, IF Gates!HasPending(j) THEN "resolved" ELSE "unresolved")
  /\ UNCHANGED <<store, human, requestOnly>>

SaveRequestThrows(r) ==
  /\ StoreFaults
  /\ req[r].pc = "save"
  /\ WriteRow(r) \/ UNCHANGED store
  /\ Answer(r, "error")
  /\ UNCHANGED <<gateVars, human, requestOnly>>

(***************************************************************************)
(* A click on the Slack message, handleSlackInteraction: the gate is       *)
(* notified, then the message is replaced by one without buttons, whether  *)
(* or not anything was waiting.  The replacement itself may fail.          *)
(***************************************************************************)

SlackClick(j, decision) ==
  /\ slackMsg[j] = "open"
  /\ human' = [human EXCEPT ![j] = @ \cup {decision}]
  /\ Gates!NotifyOrIgnore(j, decision)
  /\ \/ slackMsg' = [slackMsg EXCEPT ![j] = decision]
     \/ UNCHANGED slackMsg
  /\ UNCHANGED <<runnerVars, store, req, crashes>>

Timeout(j, w) ==
  /\ Gates!TimeoutFires(j, w)
  /\ UNCHANGED <<runnerVars, store, peopleVars, crashes>>

(* The daemon dies and is started again: src/index.ts neither resumes jobs *)
(* nor re-opens gates.  A memory store dies with it.                       *)
Crash ==
  /\ crashes < MaxCrashes
  /\ crashes' = crashes + 1
  /\ pc' = [j \in Jobs |-> IF pc[j] = "none" THEN "none" ELSE "dead"]
  /\ mem' = [j \in Jobs |-> Absent]
  /\ store' = IF SharedNested THEN [j \in Jobs |-> Absent] ELSE store
  /\ Gates!Restart
  /\ req' = [r \in Requests |->
               IF req[r].pc \in {"check", "save", "notify"}
               THEN [req[r] EXCEPT !.pc = "done", !.row = Absent] ELSE req[r]]
  /\ UNCHANGED <<cur, attempt, slackMsg, human>>

RunnerStep(j) ==
  \/ SaveQueued(j)    \/ SaveStarted(j)   \/ StopCancelled(j)
  \/ BeginStage(j)    \/ OpenGate(j)      \/ SaveAwaiting(j)
  \/ SaveAttempt(j)   \/ StageReturns(j)  \/ StageThrows(j)
  \/ BackoffOver(j)   \/ PostRequest(j)   \/ AwaitDecision(j)
  \/ GateReturns(j)   \/ SaveStageDone(j) \/ SaveGateDone(j)
  \/ SaveResumed(j)   \/ SaveExhausted(j) \/ SaveFinal(j)

RequestStep(r) ==
  \/ RefuseRequest(r) \/ AcceptApprove(r) \/ AcceptReject(r)
  \/ AcceptCancel(r)  \/ SaveRequest(r)   \/ NotifyRequest(r)

Next ==
  \/ \E j \in Jobs :
       \/ Submit(j)
       \/ RunnerStep(j)
       \/ RecordSaveThrows(j)
       \/ StoreThrows(j)
       \/ \E decision \in Decisions : SlackClick(j, decision)
       \/ \E w \in 1..MaxAttempts : Timeout(j, w)
  \/ \E r \in Requests :
       \/ ReceiveRequest(r)
       \/ RequestStep(r)
       \/ SaveRequestThrows(r)
  \/ Crash

Spec == Init /\ [][Next]_vars

(* The event loop keeps running what is runnable: an await ends, a timer   *)
(* fires, a handler is served.  Nobody is bound to submit a job, click or  *)
(* call the API.                                                           *)
Fairness ==
  /\ \A j \in Jobs : WF_vars(RunnerStep(j))
  /\ \A j \in Jobs : WF_vars(\E w \in 1..MaxAttempts : Timeout(j, w))
  /\ \A r \in Requests : WF_vars(RequestStep(r))

FairSpec == Spec /\ Fairness

=============================================================================
