# Verification of ElevarusOS

ElevarusOS is a daemon that runs AI workflows ("jobs") made of stages: it takes requests from
polled inboxes, an HTTP API and a scheduler, runs their stages with retries, stops at a human
approval gate, and keeps the job in a store that a dashboard and the API read. Beside the jobs
it keeps several smaller state machines: chat sessions of an agent builder, workers that mirror
calls, leads and advertising figures into a warehouse, a Slack bot that answers questions with
tools, and shared in-process caches and counters.

This directory holds TLA+ models of that code, the TLC runs that check them on small instances,
and TLAPS proofs of the properties that matter most. Line references are to the repository.

## Inventory

| Component (source) | State it keeps | Operations | What must be right |
|---|---|---|---|
| Workflow runner (`src/core/orchestrator.ts`) | one `Job` object per running job, held for the whole run | submit, stage loop, retry with backoff, gate decision, complete, fail, reject, cancel | no stage past the gate without approval; rows coherent; every runner returns; a cancelled job stays so |
| Job stores (`src/core/job-store.ts`, `supabase-job-store.ts`) | one row per job | whole-row `save`, `get`, `list` | writers that hold stale copies must not undo each other |
| Approval gate (`src/core/approval-store.ts`, stage 07) | `Map` job → resolve function, one 24 h timer per wait | `waitForApproval`, `notifyApproval`, timer | one decision per wait, the first one; an open gate can be resolved; never hangs |
| Publish handoff (stage 08) | the job's publish record | `run` | sees the approval |
| HTTP API (`src/api/server.ts`) | none of its own | approve, reject, cancel, submit, instances, webhooks | acts on rows it read before an await |
| Slack buttons (`src/adapters/slack/notify.adapter.ts`, `handleSlackInteraction`) | the message in Slack | post, click, replace | what the message shows is what happens |
| Job notices (`notify.adapter.ts`, `adapters/notify/email.adapter.ts`) | job → thread, the Graph token | started, approval, failure, completion | notices of interleaved jobs do not mix |
| Agent builder (`src/core/agent-builder/*`, its routes, Slack tools and wizard page) | sessions and answers in Supabase, the page's own state | start/resume, answer, abandon, idle sweep, finalize, digest | answers in order; tickets complete; one open session per thread; page and server agree |
| Sync workers (`src/integrations/ringba`, `leadsprosper`, `google-ads`, their scripts) | marks, run log, tables | tick, fetch, upsert, advance mark, backfill, coverage | nothing behind a mark is missing; a covered report misses no call; the log is true |
| Intake (`src/adapters/intake`, `Orchestrator.poll`) | file of processed ids, read flags, queue | poll, mark, enqueue | a request becomes exactly one job |
| Scheduler and reports (`src/core/scheduler.ts`, the reporting workflows, the weather notice) | cron tasks, running jobs, workspace files | fire, collect, analyse, summarise, publish | posted once, never better than the business was |
| Token accounting (`src/core/claude-client.ts`) | one module-level counter | add, take and reset | a job is billed what it used |
| Thumbtack import (`src/workflows/hvac-thumbtack-import`) | a table by day, a run log | read the sheet, upsert | imported days stay |
| Mission Control worker (`src/core/mc-worker.ts`, no longer started) | running tasks, approvals | poll, execute, approve, close | nothing ungated; a finished task runs again only when its updates failed |
| Slack conversations (`adapters/slack/events.ts`, `image-ingest.ts`, `core/claude-converse.ts`) | none | event, context, images, tool loop, post | answered once, and answered; bounded work |
| Assistant tools (`core/qa-tools.ts`, `adapters/slack/data-tools.ts`, `integrations/*/live-tools.ts` and their clients) | a helper cache | page, cut, flag, write, audit | cut answers are flagged, writes reported as they were |
| Date ranges (`core/date-time.ts`) | none | period to dates, dates to instants | boundaries |
| Dashboard, instance scaffolding, scripts, deployment | none or files | I/O | not modelled |

Interaction: the API, Slack and the runner share the process-wide `approvalStore` (by calls) and
the job store (by whole-row reads and writes); all jobs share the token counter and the notice
adapters; intake and mail notices share the Graph token; a sync worker and its backfill script
are two processes that share a row. Everything in the daemon runs in one Node process, so code
between two awaits is atomic; everything else interleaves.

The hard behaviours are therefore: rows read before an await and written after it; three ways of
answering one gate racing with its timer; failures that a client swallows and its caller takes
for an empty answer; a save that throws after the stage it records has run; a crash with gates
open, with a mark half moved or with a queue that is already marked as taken. `PROJECT.json`
lists each of them as a hazard at its line.

## Modules

| Module | Models | Role |
|---|---|---|
| `ApprovalStore` | `approval-store.ts` | the gate by itself; instantiated by the daemon |
| `JobLifecycle` | the documented life of a stored job status | abstract specification |
| `JobOrchestrator` | runner + store + gate + HTTP handlers + Slack buttons + crash | the composed core |
| `JobProperties`, `MCJobs` | — | its properties and refinement mapping; symmetry for TLC |
| `ApprovalStore_proofs`, `JobOrchestrator_proofs` | — | TLAPS proofs: the gate, the types, the approvals of the daemon |
| `JobRows_proofs` | — | TLAPS proofs: the copies of a job, the life cycle, the publish stage |
| `SessionLifecycle` | the life of an agent-builder session | abstract specification |
| `AgentBuilder`, `MCBuilder` | sessions from Slack and from the wizard, tickets, digest | checked to implement it |
| `AgentBuilder_proofs` | — | TLAPS proofs |
| `SyncWindow` | windows, overlap and marks that two sync workers share | extended by both |
| `RingbaSync`, `LeadsProsperSync`, `GoogleAdsSync` | the three workers, two with a backfill | |
| `DataSync`, `MCSync` | — | the three side by side |
| `DataSync_proofs` | — | TLAPS proofs |
| `MissionControl` | the Mission Control worker and client | |
| `BotTools` | all tools, their clients, the audit log | |
| `SlackConversation` | the bot's way from an event to a post | |
| `Assistant`, `MCAssistant` | — | these three side by side |
| `Assistant_proofs` | — | TLAPS proofs |
| `ScheduledReports` | scheduler, report and weather jobs, token counter | |
| `ThumbtackImport` | the sheet import | |
| `GraphToken`, `Notifiers`, `Intake` | the shared token and its two users | |
| `PacificDates` | the date ranges | pure operators, checked against their meaning |
| `PacificDates_proofs` | — | TLAPS proofs: the calendar, the clock, every period |
| `Operations`, `MCOperations` | — | these side by side |
| `Operations_proofs` | — | TLAPS proofs |

Operators whose comment begins with "Seeded fault" are plausible mistakes in the code (a missing
deletion, a lenient test, a swapped order). No specification uses them; they show that each
property notices the fault it is there for.

`DataSync`, `Assistant` and `Operations` each hold parts that share no state (or only what each
part lets change freely: the clock, the Graph token). A full product of them would multiply
states and add no behaviour of any part, so the variable `focus` names the part that moves. Every
property speaks of one part only and is checked in every state of that part. `Intake` and
`Notifiers` do share the Graph token: each has the steps by which the other refreshes or clears
it (`OthersUseToken`).

### ApprovalStore

`callbacks[j]` is the Map entry: the number of the promise whose `resolve` it holds, or 0.
`waits[j]` counts the promises made, `timers[j]` are those with an armed timer, `outcome[j][w]`
is what promise `w` settled with. `acked` is history: the decisions `notifyApproval` returned
true for. `WaitForApproval`, `NotifyApproval`, `TimeoutFires` are the three pieces of code;
`Restart` is the loss of the process. The timer's quirk is kept: it looks for an entry of the
*job* and settles its *own* promise. All timers last 24 hours, so those of a job fire in the
order they were armed.

### JobOrchestrator

An action is the code between two awaits. `pc[j]` says which await the runner of `j` is in:
`enqueue`, `start`, `openGate`, `attempt`, `record`, `resume`, `exhausted`, `finish`, `fail`,
`reject` await a save; `check` awaits the read at the top of the stage loop; `run`, `notify`,
`notified`, `wait` are inside a stage; `backoff` is the pause before a retry; `dead` is a runner
whose save threw outside the try block (`void this.runJob`) or whose process died. `mem[j]` is
the runner's `Job`, `store[j]` the row. A `Job` keeps what the properties tell apart: status,
status of each stage record, the approval flag, which note the publish stage wrote, and why the
job ended. Text, timestamps, usage and outputs are left out.

A request `req[r]` is one HTTP call to approve, reject or cancel: `check` holds the row it read,
`save` its edited copy, `notify` the call of `notifyApproval`. `View(j)` is the row as a reader
gets it: with `MemoryJobStore`, whose save copies one level only, the stage records and the
approval object of a row are the runner's own (`SharedNested`). With the memory and file stores
the write follows the edit without an await; the model lets the runner in between for every
store, which only adds behaviours and is real with Supabase. A handler with a throwing save may
or may not have written (`PersistOrNot`).

The gate stage posts its notifications in parallel and then calls `waitForApproval`: `PostRequest`
is the moment Slack's message may be up, `AwaitDecision` the registration; a click in between is
possible. `SlackClick` notifies the gate and replaces the message whatever the gate said.
`Crash` keeps only what is stored: `src/index.ts` resumes no job and re-opens no gate.

Left out of the runner: the bridge (`src/index.ts` never sets one), the notices
(`Promise.allSettled`, modelled in `Notifiers`), dropped jobs of unknown workflow type, and stages
without a record. Stages other than the gate return or throw; what the report stages do is in
`ScheduledReports`.

### AgentBuilder

`row[s]` is a session's row, `call[c]` what the server does for a caller between two awaits (what
it read, what it will write), `wiz[w]` what the wizard's page remembers. A Slack message looks the
thread's session up and inserts one when there is none, in two steps; `submitAnswer` reads a row and
updates it only if the question index is still the one it read; finalizing creates the ticket and
then marks the session. ClickUp's client repeats its POST after an error, whether or not ClickUp did
what it was asked, and may give up with a ticket made (`CreateTask`, `CreateUnseen`, `CreateRetried`,
`CreateFails`: one attempt each); `unheard` is history, the tickets about which an answer was lost.
Replies to the page may get lost and the user may press again. The weekly
worker sweeps idle sessions, then queries closed and open ones, then posts. `SessionLifecycle`
promises what a row may go through; it allows what the code allows, an answer to a session already
closed and an abandonment after submission included.

### The sync workers

`SyncWindow` has time in steps of a clock and the arithmetic of windows: a tick pulls from the mark
less an overlap, widened to whole days. A service keeps editing a record for a while (`Settles`),
so that a copy is settled or provisional. `RingbaSync` has the mirror, the two marks, the worker
and the backfill script that writes the same row without a lock, and the reader who decides by
`hasCoverage` whether the mirror will do. `LeadsProsperSync` pulls campaign after campaign under
one mark. `GoogleAdsSync` has two callers, accounts that fail on their own, and the log row.
Failures that a client or a repository hides are possible wherever the code hides them; a history
variable (`lapse`, `leadLapse`) records the first, and the properties claim nothing after it:
what they show is that nothing *else* (order, crash, late edit, slow tick, parallel script) loses
data. The overlap must be as long as an edit and a slow tick together (`OverlapAssumption`);
`ringba/sync.ts:37` says so of its 90 minutes; the services give no guarantee.

### Assistant

`MissionControl`: the queue's answer is read later than it was given, updates may get lost, with or
without having been taken, a webhook may arrive for an earlier wait, the worker may die. Histories
say of a completed task what went wrong with its end: it was left unclosed (`unclosed`), its resolution
was lost or late (`unresolved`), or an answer given while it ran was read after (`crossed`). `BotTools` describes each tool by a
plan: how many pages it asks for, when it calls its answer truncated, what a failed request looks
like to it, whether it writes and whether it is audited; a handful of actions carries plans out.
`SlackConversation` follows each delivery of a message through acknowledgement, context, images,
the tool loop and the post; Slack delivers again what it saw no acknowledgement of.

### Operations

`ScheduledReports`: a job's `at` says whether it waits for an attempt (`ready`), is in a stage
(`inside`) or has ended. Of a report only the headline of its two windows is kept, and every source
is worth one unit a day, so that a figure too good is a number too large. A source answers with
nothing, with less, or with everything, as its client allows: Ringba's, whose pages may end early,
with any part. `shared` marks the jobs whose stage
overlapped a Claude call of another. `ThumbtackImport`: a cell is a version number, so that a day
lost or set back is a smaller number; an emptied cell parses as zero and is a version like any other. `Notifiers`: the thread of a job is known after an await, or
never. `Intake`: an adapter marks what it returns, then the loop enqueues it; a mark that was not
kept is recorded in `lapsed`, a request lost from the queue in `dropped`. `PacificDates`: instants
are hours, dates are day numbers, the clock of Los Angeles is the runtime's.

## Runs

| Run | Shows |
|---|---|
| `faults` | job core with copying store, one request, two attempts, throwing saves, one crash: `NothingRunsUnapproved`, `RowIsCoherent`, `AckedDecisionWins`, `EntryIsOpen`, `EndedJobsStay`, types |
| `liveness` | memory store, one request, fairness: `RunnersReturn`, `JobsSettle`, `GateHasResolver`, `RejectionIsFinal`, `PublishSeesApiApproval` |
| `lifecycle` | no requests, throwing saves, one crash: `JobOrchestrator` implements `JobLifecycle` |
| `cancel_lost`, `click_lost`, `gate_hangs` | **violated**: see below |
| `sessions` | `AnswersInOrder`, `TicketsAreComplete`, `OneOpenPerThread`, `WizardInStep`, `SweptNotOpen`, and `AgentBuilder` implements `SessionLifecycle` |
| `sync` | `MarksAreTrue`, `ReportsMissNoCall`, `LeadsAreMirrored`, `RunLogIsTrue` |
| `coverage_hole` | **violated**: see below |
| `assistant` | `McNothingUngated`, `McRerunsAreOwed`, `AnswersAreWholeOrFlagged`, `WritesAreReported`, `CallsAreAuditedOnce`, `AnsweredOnce`, `AckedIsAnswered`, `ImagesFit`, `AnswersEnd` |
| `operations` | `PostedOnce`, `FiguresAreNotOverstated`, `TokensAreBookedOnce`, `ImportedDaysStay`, `NoticesStayInTheirThread`, `RequestsAreTakenOnce`, `PeriodsHoldTheirDates` |
| `hvac_month` | **violated**: see below |

The type invariants of `Assistant` and `Operations` belong to no run: the runs spend their time on the
other properties; they are proved (`AssistantTypes`, `OperationsTypes`). They say more than types where
the code has a limit: they bound attempts, turns of the tool loop, posts and the number of jobs a
request may become.

Bounds, and why they are enough:

* *Job core.* One job: jobs share nothing with each other there. Three stages with the gate second
  give one stage before, the gate, and one after. Two attempts are the least with a retry; they
  bound the waits of a job, and two waits are what a stale timer needs. One request races with the
  runner, the clicks and the timers. Which store it is changes only what a reader sees inside a row,
  never a status or a guard, so that `liveness` covers both. After one crash nothing runs except
  handlers. The proofs remove all of these bounds for the theorems, several requests included.
* *Sessions.* Two sessions, two Slack messages of one thread, one wizard, two questions, three
  answers, two tickets, two attempts of a POST: two racing callers are what every race here needs, and
  a second ticket is what a lost reply or a repeated POST makes. Constraints leave out digests that
  swept nothing, behaviours in which both front ends are used, and those in which both sessions have
  answers: the two front ends own different rows, and sessions meet only by being open in one thread.
* *Sync.* A day of two clock steps, an overlap of two, edits and slow ticks of one each, the smallest
  values that satisfy `OverlapAssumption` and let a window cross a day; two records, two campaigns,
  two accounts, two runs. The backfill runs once per behaviour, and a month is a day to it.
* *Assistant.* One task through a gate with a stage before and after, two attempts; one tool call at
  a time over a page of one, a cap of two and a source of up to four rows; two deliveries of one
  message out of five kinds, an echo of the bot, one restart, one round of tools, two images. What
  a limit does shows at the limit and one beyond it.
* *Operations.* Two jobs fired; those of one agent may overlap, the others run alone, because what a
  job's company changes is the token counter and the agents' jobs use it alike. One save that
  throws, two attempts, the first and the second day of the month (the month to yesterday is empty
  on the first). One life of the process: no job survives it. Two days, two imports, two edits; two
  jobs with notices; two tasks, two mails, pages of one and one poll whose marks are not kept; the
  hours around the end of a leap February, both changes of the clock, a month's end and a new year.

`CHECK_DEADLOCK FALSE` everywhere: when everything submitted, asked or delivered has been dealt with
the system rightly stops, and bounded clocks and counters stop the rest.

Fairness. In `liveness` (`FairSpec`) it is weak fairness of each runner's steps, of each job's timers
and of each handler's steps: the event loop runs what is ready and `setTimeout` fires. It assumes
that a stage call ends, which its HTTP clients' timeouts have to provide. In `assistant` it is weak
fairness of the handling of some message: every request to Claude and Slack returns or times out.
Nobody is bound to submit, click, ask or call.

The refinement `ImplementsLifecycle` maps `status` to the row's status and `passed` to "the row
shows the gate stage completed and a status it can only have afterwards". It is checked without
HTTP requests because with them it does not hold: a handler writes back the row it read, and the
stored status may step back.

## Disagreements between the code and what is written about it

With a run (`PROJECT.json`, findings):

* **A cancellation can be lost** (`orchestrator.ts:204`, `cancel_lost`). The runner
  holds its own `Job`; its next save restores `running` before the guard reads the row: the save at the
  start (182) in the shortest trace, and likewise those at the start and the end of a stage.
* **A confirmed click can be lost** (`server.ts:913`, `click_lost`). The message is up before
  `waitForApproval` is called, and the handler ignores `notifyApproval`'s answer.
* **The gate can hang** (`approval-store.ts:39`, `gate_hangs`). A throwing save after the gate
  (`orchestrator.ts:294`) re-runs the gate stage; the first wait's timer was never cleared and
  removes the second wait's entry while settling its own promise.
* **Coverage that nobody pulled** (`backfill-ringba.ts:129`, `coverage_hole`). A backfill moves the
  marks without looking whether its months join what they cover.
* **HVAC's month runs a day ahead** (`01-data-collection.stage.ts:94`, `hvac_month`). The stage says it
  forces the end to yesterday "so both sources line up" (91); Ringba's window ends today, in Pacific
  time, the others yesterday, in UTC: revenue is shown without the spend it took.

Seen while modelling, without a run of their own. About jobs:

* `cancelJob` refuses a completed job (`orchestrator.ts:363`), but one that completes between its
  read and its save is overwritten with `failed`.
* `approveJob` says its flag is "persisted even if the daemon restarts" (`server.ts:600`). With a
  copying store the runner's next save of its own `Job`, which has no flag, takes it back while the
  daemon still runs (`supabase-job-store.ts:86`).
* Stage 08 says it "will not proceed if the job has not been explicitly approved"
  (`08-publish-placeholder.stage.ts:9`); it always proceeds, and for a job approved in Slack,
  where the flag is never set, it records that publishing is blocked.
* `docs/architecture.md:204` says a gate timeout ends the job as `failed`; it is `rejected`
  (`orchestrator.ts:234`).
* Nothing in `src/index.ts` calls `Orchestrator.start`: the daemon never polls ClickUp or the mailbox.
  `--once` without `--bot` asks for `elevarus-blog`, a type the registry does not have.
* A save that throws after `slack-publish` (`orchestrator.ts:294`) posts the report again; `PostedOnce`
  counts such saves out. A failed attempt's tokens stay on the counter and may be booked on another
  job, although `claude-client.ts:14-17` promises no double counting for a stage.
* The notices say "Blog workflow started" for every workflow (`notify.adapter.ts:29`).

About data:

* `date-time.ts:140-142` says its probe is safe on the days the clock changes. It is taken at noon
  UTC, after the change: on these two days midnight gets the offset of the afternoon and the day
  begins an hour early or late (`PeriodsHoldTheirDates` excepts them).
* On the first of a month the month of the HVAC report is empty for the table and for Meta, and so its
  profit is left out.
* A scheduled report job carries sample figures in its brief (`index.ts:237`); the collection stage
  parses them into `rawData`, where they stay beside the figures it pulls.
* `combineRevenue` "never zero-fills", but Ringba's client reads a failure as the end of the data, so
  a failed read is a revenue of 0, or of the pages before it.
* `leadsprosper/sync.ts:22` says the mark does not advance on error; the client and the repository
  hide errors, and it does.
* Meta's insights for chosen campaigns are filtered by a `campaign_id` that the request does not ask
  for (`meta/client.ts:123-141`): the spend is that of the whole account.
* A doubled day in the Thumbtack sheet fails the whole upsert, and an import that could read nothing
  is logged as ok. An emptied cell is not a broken one: its zero is written over the day.

About the bot: a direct message with a file carries a subtype and is dropped although the code means
to allow it (`events.ts:235-238`); nothing recognises an event delivered twice; the duplicate test of
`clickup_trigger_agent` looks at a field no job has (`live-tools.ts:971`); a write to ClickUp is
repeated after a reply that got lost (`client.ts:371`). About the intake: a torn file of processed
tasks makes every open task new, and mails whose marks keep failing can hold the page of the oldest
twenty. About the Mission Control worker: a decision between the update to "review" and
`waitForApproval` is dropped, and a lost update of a failed task runs it again;
and an answer of the queue that was given while a task ran, but is read after, starts the task again
(`mc-worker.ts:232`), which the comment on `runningTaskIds` (72) says it prevents: the case `crossed` of
`McRerunsAreOwed`.

## Proofs

Every theorem holds for every value of the constants that the assumptions of the modules allow.
These are the assumptions, and why the code justifies them:

* `ConfigAssumption`, `BuilderAssumption`, `McAssumption`, `ToolSizes`, `SlackLimits`, `AdsAssumption`,
  `IntakeAssumption` (its second half), `ScheduledAssumption` (attempts), `MalformedAssumption` (edits):
  the limits are numbers, and a page, a cap or a number of attempts is not zero; the stages of a
  workflow are a sequence; the script has fewer questions than its marker for "ready" (99).
* `IntakeAssumption`, `BuilderAssumption`: ids of two sources differ. `MalformedAssumption`, `Absent`
  in `ScheduledAssumption`: a missing figure is not a figure. `SlackEvents`, `MonthsAssumption`,
  `RangesAssumption`, `DaysOfMonth`: the inputs have the type they have.
* `OverlapAssumption`: the overlap is at least an edit and a slow tick together (see the sync workers).
* `ScheduledAssumption` also says that the jobs are finitely many (`MaxFirings \in Nat`): what was
  booked on all of them is a sum.
* `DatesAssumption`: instants are integers; the years are of this century, in which every fourth year
  is a leap year (2021 to 2099); the calendar has the year of every instant and the year before it,
  as "last month" may lie there. It bounds no hour and no offset: the instants may be any in these years.

Some theorems have a hypothesis on a constant that says which store or which part of the code is
meant: `~SharedNested` is a store that copies what it is given (file, Supabase), `SharedNested` the
memory store, which never throws; `~StoreFaults` that saves do not throw; `Requests = {}` that no
HTTP handler writes; `MaxCrashes = 0` that the process does not end. Each is the setting of the run
that checks the property, and where the property fails without it the section above says how.

### The gate and the job core

* `ApprovalStore_proofs!GateSafety`: acknowledged decisions win and Map entries are open. The
  inductive invariant `GateInv` adds to the two properties that timers belong to promises that
  exist and that promises not yet made are pending; without these a timer could settle a promise
  before it is made.
* `JobOrchestrator_proofs!RefinesApprovalStore`: each step of the daemon is one operation of the
  store or leaves it alone. So `AckedDecisionsWin` and `EntriesAreOpen` follow from the store's own
  invariant and are not proved again.
* `TypeCorrect`: needs `AttemptsLeft` (a runner in backoff has an attempt left).
* `GateHolds` (`NothingRunsUnapproved`): the invariant `PassInv` says, per job, which states of the
  runner are before, at and after the gate and what the awaited promise's verdict is there
  (`GateControl`, `Passed`); that no copy of the job, in memory, in the store or in a handler's
  hands, shows a stage the runner has not reached (`NoLater`), which is what keeps stale writes
  harmless; and that an approval, settled or on its way, has a person behind it
  (`ApprovalIsHuman`). One lemma per group of actions shows it is kept.
* `JobRows_proofs!RowsCohere`: `MemInv` gives the shape of the runner's object at each of its awaits
  (which records are completed, running, pending). Every save writes an object of such a shape, and
  every handler writes a row it read or an edit of one, so rows stay coherent although the row a
  handler writes may be old. `FollowsLifecycle` adds `StoreInv`, which row the store has at each
  await when nobody else writes, and maps each save to one step of `JobLifecycle`.
* `OpenGatesAreAnswerable`, `RejectionsStop`: if no save throws a gate is waited at once
  (`WaitedOnce`), so the only timer that can remove an entry is that of the wait itself.
* `EndedRowsStay` (`EndedJobsStay`) has all three kinds of requests, throwing saves and crashes in it: the
  save that ends a job is its runner's last (`EndIsSavedLast`), and what a request is about to write has
  either not ended or is a cancellation (`EndedCopy`), so an ended row whose runner is still at work was
  cancelled (`EndedRow`). The other writers are the requests that hold a row they read earlier; the
  two exceptions in the property are these, and the code has them (`orchestrator.ts:204` and 361).
* `ApiApprovalReachesPublish`: the handler sets the flag on the runner's own object before it resolves
  the gate, nobody clears it there, and the note is written only past the gate (`FlagInv`, `RequestInv`).

### Agent Builder

`BuilderInv` says of every row that its transcript is in order and counted by its index, and of every
call in progress what it may rely on (`CallInv`): the transcript it read was in order at the index it
will pass. An update that still finds that index appends exactly the next answer; one that does not
changes nothing. What the other callers do meanwhile is summed up in `Grows` (rows and tickets only
move forward), so no pair of actions has to be compared. `ThreadsHaveOneOpen` adds which insertions
are under way, `SweptIsNotListed` that a closed session never opens, `WizardsStayInStep` what the page
and the calls it has on the way agree on, and that of a session's tickets whose answer was heard there
is one, made by the call that is on its way or shown by the page (`OneTicket`, `Made`). `RefinesSessionLife` reads the same facts as steps of
`SessionLifecycle`, one per action that moves a row.

### The sync workers

* Marks. The property speaks of the stored mark only, and is not inductive: the worker and the script
  hold marks they read some steps ago and write them back. The invariants `LeadsSound` and
  `RingbaSound` make the same claim of *every* mark that is stored, held, or about to be written
  (`LeadClaims`, `RowClaims`). A pull in progress has everything of its window that was there before
  it (`WorkerPulls`, `Pulled`); a copy in it that is not final was younger than `Settles` when it was
  pulled, `MaxHold` ago at most, and `OverlapAssumption` makes that too young for any claim. So a
  late upsert of a provisional copy over a final one does no harm. The backfill's claim is that the
  stretch it has walked is complete (`ScriptWalk`), and it joins what the row covers unless
  `lapse` says that it left a hole.
* `ReportsAreComplete`: of the calls between the marks all are stored, not only those left behind.
* The newest element of a set of instants is what `Max` picks. That there is one needs no induction
  over sets: `Extremes` carries it in the invariant, as each tick of the clock adds one instant.
* The log of the Google Ads runs: synced, failed, the account in hand and those left add up to the
  accounts listed (`RunsAddUp`), and while no two runs overlapped tables only grow newer and what a
  run has done is as fresh as its beginning (`RunsAreFresh`).
* `SyncInv` joins the three: a behaviour of one worker leaves the others as they began.

### Assistant and Operations

* `McGateHolds`: whoever is behind the gate was approved, an approval on its way is one somebody gave,
  and only a task at its wait has a callback; a restart takes the callback and the wait together.
* `McRerunsAreFew` (`McRerunsAreOwed`): a completed task that owes nothing to a lapse (`Settled`) is closed
  or about to be, every answer of the queue on its way knows its resolution or was given while it ran,
  and the update that resolves it is on its way or has arrived; so the guard of `_executeTaskInner`
  meets it whenever it comes back. The histories only grow (`McLapsesGrow`).
* `ToolInv` tells by where a call is how many writes, lost replies and audit rows it has had, that a
  call still reading holds no more rows than the source, which only grows, and that one that ended
  well and says nothing of missing rows holds at least those that matched when it was asked.
* `SlackInv`: a delivery is sent only after Slack heard every earlier one fail (`SentInTurn`), so of a
  message's answered deliveries all but the last have lost their acknowledgement
  (`PostsAreCounted`, with cardinalities of sets of deliveries).
* `IntakeInv`: a request whose marks were kept is in one place, unmarked, queued or a job
  (`InOnePlace`), and what a poll marks is queued by the same step (`MarkedIsTaken`).
* `NoticesInv`: until the start notices of a job have settled nothing else is said of it.
* `ImportInv`: an edit makes a version newer than all there are, so what was read or stored of a day is
  never newer than its cell, and what a run has read is no older than what is stored until another
  run upserts.
* `ReportsInv`: publishing is the last stage, so a job that still runs has posted no more often than
  its saves have thrown; each figure in hand is bounded by what the business was in its window, where all its sources are asked
  for the same days (`Fits`); and
  while a stage runs that no other job's call overlapped the token counter is at zero
  (`CounterIsClear`), so that what it is billed is its own.
* `UsageIsSpent`, a part of `ReportsInv`: what is booked on all jobs and what the counter still holds
  is no more than what was used. `TokensAreBooked` joins the two. The sum over the jobs is a fold, and
  each step changes one term of it. `SumChanges` is proved by an induction on the size of the set:
  `NatInduct` derives induction from the well-foundedness of the naturals, with the *set* of good
  numbers as its parameter where the library's theorem has an operator, and `SumsExists` shows that
  the recursive function in `FoldFunction` exists and satisfies its equation.

* `OperationsTypes`: a job that waits for an attempt has one left (`Attempted`); and a request becomes a
  job at most once more than polls lost their marks (`RepeatsHaveLapses`), one time less while it is
  queued or unmarked, for each of the two may still become one.
* `AssistantTypes`: a task that waits at the gate is at one of the stages, so passing the gate leads one
  behind the last at most (`AtStage`); a write has been tried more often than it was carried out as
  long as it goes on (`CallTyped`); the acknowledgements a message has lost are no more than its
  deliveries that have landed (`AcksAreCounted`).

### Date ranges

`RangesAreRight` is about every instant of the years, not the instants of the run's table. It goes in
three parts.

* The calendar. The days before a month are a recursive function; `BeforeIs` gives its twelve
  values, so a date has one day number. Years and months follow each other without a gap
  (`YearsInOrder`, `MonthsInOrder`), so a day lies in exactly one month of one year and `MonthOf` and
  `YearOf` find it (`MonthIs`, `YearIs`).
* The clock. It changes on two dates of a year, between the midnight that begins the day and noon UTC.
  The probe at noon UTC therefore has the offset of the day's end always (`EndsFit`), and that of its
  beginning unless the clock changes on this very day (`StartsFit`): the exception the property makes
  is exactly the one that is needed.
* The periods. For each, the two dates the code computes are the first and the last the period means
  (`DaysHold` to `LastMonthHolds`): weeks begin on Mondays, the last month of January is December of the
  year before.

`DaemonRangesAreRight` says the same of the daemon that `Operations` puts together.

### Only model-checked

The three liveness properties (`RunnersReturn`, `JobsSettle`, `AnswersEnd`): fairness and ENABLED are
beyond the prover. Every invariant and every action property of every run that passes is proved.

## Not modelled

* The dashboard apart from the wizard page: it reads the API and sends requests that are modelled.
* Writing stages of the blog workflow: one call to Claude each; to the runner they return or throw.
* Instance configuration, workspace scaffolding and prompt loading: files read or written once.
* The HTTP endpoints for instances, settings and files, and the submission endpoint, whose answer
  names the newest job of a type and may name another caller's.
* `addAdaptiveFollowup` (no caller), `ClickUpSyncStage` (in no workflow), the bridge (never attached),
  the deprecated modules.
* A file that `FileJobStore` leaves torn when the process dies while it writes: `get` then answers that
  there is no such job (`job-store.ts:56-66`). A save is one step here; the runs with a crash are those
  of the Supabase store, or of a file that was written whole.
* Of a report's data all but the profit of its windows, the sample figures of a scheduled job's brief
  included: what Claude makes of them is not modelled.
* The shape of requests, rendered text, prices, and the deployment scripts.

## Plan

1. Done: the job core, sessions, sync workers, assistant and operations modelled and checked.
2. Done: every safety invariant and action property a passing run checks is proved, both refinements
   included.
3. Left, without a property: a gate that timed out cannot be told from one that was rejected
   (`orchestrator.ts:234`), and the answer of `submitJob` may name another caller's job
   (`server.ts:508`). Left, without a model: see above.
