-------------------------------- MODULE Intake --------------------------------
(***************************************************************************)
(* The intake of requests: Orchestrator.start, stop and poll               *)
(* (src/core/orchestrator.ts), which ask the ClickUp adapter and then the  *)
(* mail adapter (src/adapters/intake) for new requests and enqueue each as *)
(* a job. An adapter marks what it returns as taken before anything is     *)
(* enqueued: ClickUp's in a file, a mail by marking it as read.            *)
(***************************************************************************)
EXTENDS Integers, FiniteSets, SequencesExt, GraphToken

CONSTANTS
    Tasks,       \* ClickUp tasks
    Mails,       \* mails to the intake mailbox
    MailPage,    \* $top: the mails one poll asks for
    MaxLapses    \* bound: polls whose marks are not kept

ASSUME IntakeAssumption == Tasks \intersect Mails = {} /\ MailPage \in Nat \ {0} /\ MaxLapses \in Nat

VARIABLES
    processed,   \* the dedup file: whether it can be parsed, and the task ids in it
    openTasks,   \* the tasks whose status is Open
    unread,      \* the unread mails
    received,    \* the mails that have arrived, in this order
    running,     \* Orchestrator.running
    poller,      \* where the polling loop is
    queue,       \* requests an adapter has returned that are not enqueued yet
    jobs,        \* the number of jobs each request has become
    dropped,     \* history: requests lost from the queue
    lapsed,      \* history: requests whose mark was not kept
    lapses       \* number of polls whose marks were not kept

intakeVars == <<processed, openTasks, unread, received, running, poller, queue,
                jobs, dropped, lapsed, lapses, graphToken>>

Requests == Tasks \union Mails

IntakeTypeOK ==
    /\ processed \in [readable : BOOLEAN, ids : SUBSET Tasks]
    /\ openTasks \subseteq Tasks /\ received \in Seq(Mails)
    /\ unread \subseteq ToSet(received)
    /\ running \in BOOLEAN
    /\ poller \in {"off", "timer", "clickup", "clickup jobs", "email", "email jobs"}
    /\ {queue, dropped, lapsed} \subseteq SUBSET Requests
    /\ jobs \in [Requests -> 0 .. MaxLapses + 1] /\ lapses \in 0 .. MaxLapses
    /\ GraphTokenTypeOK

IntakeInit ==
    /\ processed = [readable |-> TRUE, ids |-> {}]
    /\ openTasks = {} /\ unread = {} /\ received = <<>>
    /\ running = FALSE /\ poller = "off" /\ queue = {}
    /\ jobs = [r \in Requests |-> 0]
    /\ dropped = {} /\ lapsed = {} /\ lapses = 0
    /\ GraphTokenInit

-----------------------------------------------------------------------------
(* What happens in ClickUp and in the mailbox. *)

\* A task is opened, closed or opened again.
TaskChanges(t) ==
    /\ openTasks' \in {openTasks \union {t}, openTasks \ {t}}
    /\ UNCHANGED <<processed, unread, received, running, poller, queue,
                   jobs, dropped, lapsed, lapses, graphToken>>

MailArrives(m) ==
    /\ m \notin ToSet(received)
    /\ received' = Append(received, m) /\ unread' = unread \union {m}
    /\ UNCHANGED <<processed, openTasks, running, poller, queue,
                   jobs, dropped, lapsed, lapses, graphToken>>

TokenChanges ==
    /\ TokenEnds \/ OthersUseToken
    /\ UNCHANGED <<processed, openTasks, unread, received, running, poller, queue,
                   jobs, dropped, lapsed, lapses>>

-----------------------------------------------------------------------------
(* The polling loop. *)

\* Bound: one loop. A start after a stop waits for the poll in progress, which
\* the code leaves to its callers.
StartPolling ==
    /\ ~running /\ poller = "off"
    /\ running' = TRUE /\ poller' = "clickup"
    /\ UNCHANGED <<processed, openTasks, unread, received, queue,
                   jobs, dropped, lapsed, lapses, graphToken>>

\* stop clears the timer; a poll in progress completes.
StopPolling ==
    /\ running
    /\ running' = FALSE
    /\ poller' = IF poller = "timer" THEN "off" ELSE poller
    /\ UNCHANGED <<processed, openTasks, unread, received, queue,
                   jobs, dropped, lapsed, lapses, graphToken>>

PollTimer ==
    /\ poller = "timer"
    /\ poller' = "clickup"
    /\ UNCHANGED <<processed, openTasks, unread, received, running, queue,
                   jobs, dropped, lapsed, lapses, graphToken>>

PollEnded == IF running THEN "timer" ELSE "off"

JobsOf(adapter) == IF adapter = "clickup" THEN "clickup jobs" ELSE "email jobs"

\* Where the loop stands once the requests q are left to enqueue.
Polling(adapter, q) ==
    /\ queue' = q
    /\ poller' = CASE q # {}               -> JobsOf(adapter)
                   [] q = {} /\ adapter = "clickup" -> "email"
                   [] q = {} /\ adapter = "email"   -> PollEnded

-----------------------------------------------------------------------------
(* The ClickUp adapter. *)

\* A file that is missing or cannot be parsed reads as empty.
LoadProcessed == IF processed.readable THEN processed.ids ELSE {}

\* Seeded fault: the file holds the tasks of the last poll only.
OnlyNew(known, new) == new

WithNew(known, new) == known \union new

\* The file is overwritten in place and a failure is only logged: the old file
\* is still there, or it is torn and every id in it forgotten.
SaveProcessed(new) ==
    \/ /\ processed' = [readable |-> TRUE, ids |-> WithNew(LoadProcessed, new)]
       /\ UNCHANGED <<lapsed, lapses>>
    \/ /\ lapses < MaxLapses /\ lapses' = lapses + 1
       /\ \/ UNCHANGED processed /\ lapsed' = lapsed \union new
          \/ /\ processed' = [readable |-> FALSE, ids |-> {}]
             /\ lapsed' = lapsed \union LoadProcessed \union new

\* Not configured, a failed request, nothing new, or the new tasks.
PollClickUp ==
    /\ poller = "clickup"
    /\ LET new == openTasks \ LoadProcessed
       IN  \/ Polling("clickup", {}) /\ UNCHANGED <<processed, lapsed, lapses>>
           \/ new # {} /\ SaveProcessed(new) /\ Polling("clickup", new)
    /\ UNCHANGED <<openTasks, unread, received, running, jobs, dropped, graphToken>>

-----------------------------------------------------------------------------
(* The mail adapter. *)

Older(m, n) == \E i, k \in DOMAIN received : i < k /\ received[i] = m /\ received[k] = n

\* What a request brings: the oldest unread mails, a page full or all of them.
Pages ==
    {page \in SUBSET unread :
       /\ \A m \in page, n \in unread \ page : Older(m, n)
       /\ Cardinality(page) = IF Cardinality(unread) < MailPage THEN Cardinality(unread) ELSE MailPage}

\* All marks are awaited, and those that fail, whatever the reason, are left.
MarkAsRead(page) ==
    \/ unread' = unread \ page /\ UNCHANGED <<lapsed, lapses>>
    \/ /\ lapses < MaxLapses /\ lapses' = lapses + 1
       /\ \E failed \in SUBSET page \ {{}} :
            unread' = unread \ (page \ failed) /\ lapsed' = lapsed \union failed

\* Not configured or a failed request; a refused token; the mails of the page.
PollEmail ==
    /\ poller = "email"
    /\ \E token \in AcquireGraphToken :
         \/ /\ token # "revoked"
            /\ graphToken' = token /\ Polling("email", {})
            /\ UNCHANGED <<unread, lapsed, lapses>>
         \/ /\ token = "revoked"
            /\ ClearGraphTokenCache /\ Polling("email", {})
            /\ UNCHANGED <<unread, lapsed, lapses>>
         \/ /\ token = "good" /\ unread # {} /\ graphToken' = token
            /\ \E page \in Pages : Polling("email", page) /\ MarkAsRead(page)
    /\ UNCHANGED <<processed, openTasks, received, running, jobs, dropped>>

-----------------------------------------------------------------------------
(* Enqueueing. *)

AdapterAtWork == IF poller = "clickup jobs" THEN "clickup" ELSE "email"

\* The job is created, saved and run.
Enqueue(r) ==
    /\ poller \in {"clickup jobs", "email jobs"} /\ r \in queue
    /\ jobs' = [jobs EXCEPT ![r] = @ + 1]
    /\ Polling(AdapterAtWork, queue \ {r})
    /\ UNCHANGED <<processed, openTasks, unread, received, running, dropped, lapsed, lapses, graphToken>>

\* A save that throws ends the poll: the rest of the queue is dropped, and
\* after ClickUp's the mail adapter is not asked.
SaveThrows ==
    /\ poller \in {"clickup jobs", "email jobs"}
    /\ dropped' = dropped \union queue
    /\ queue' = {} /\ poller' = PollEnded
    /\ UNCHANGED <<processed, openTasks, unread, received, running, jobs, lapsed, lapses, graphToken>>

\* The process dies with its queue, its timer and its token.
IntakeDies ==
    /\ poller # "off"
    /\ dropped' = dropped \union queue
    /\ queue' = {} /\ poller' = "off" /\ running' = FALSE
    /\ ClearGraphTokenCache
    /\ UNCHANGED <<processed, openTasks, unread, received, jobs, lapsed, lapses>>

IntakeNext ==
    \/ \E t \in Tasks : TaskChanges(t)
    \/ \E m \in Mails : MailArrives(m)
    \/ TokenChanges
    \/ StartPolling \/ StopPolling \/ PollTimer
    \/ PollClickUp \/ PollEmail
    \/ \E r \in Requests : Enqueue(r)
    \/ SaveThrows \/ IntakeDies

IntakeSpec == IntakeInit /\ [][IntakeNext]_intakeVars

-----------------------------------------------------------------------------
Marked(r) == r \in LoadProcessed \/ r \in ToSet(received) \ unread

\* A request becomes more than one job only if its mark was not kept, and what
\* is marked as taken is enqueued sooner or later unless a save throws or the
\* daemon dies first: closing and reopening a task, a stop between two polls, a
\* token that expires and a page that leaves mails behind neither repeat a
\* request nor lose one (clickup.adapter.ts, "re-polling never re-enqueues").
RequestsAreTakenOnce ==
    \A r \in Requests :
      /\ jobs[r] > 1 => r \in lapsed
      /\ Marked(r) /\ r \notin queue => jobs[r] > 0 \/ r \in dropped
=============================================================================
