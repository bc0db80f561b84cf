--------------------------- MODULE Operations_proofs ---------------------------
(***************************************************************************)
(* Proofs of the safety properties of the daemon's background operations:  *)
(* the intake of requests, the notices of jobs, the import of the sheet    *)
(* and the scheduled reports. A step moves one of them, so each has an     *)
(* inductive invariant of its own.                                         *)
(***************************************************************************)
EXTENDS Operations, PacificDates_proofs, FiniteSetTheorems, WellFoundedInduction, TLAPS

\* A step of the daemon moves one part at most; intake and notices see each
\* other at the Graph token only.
LEMMA OperationsApart ==
    [OperationsNext]_operationVars =>
        /\ [ReportsNext]_reportVars
        /\ [ImportNext]_importVars
        /\ [DatesNext]_dateVars
        /\ NoticesNext \/ UNCHANGED <<noticed, threadTs, channel, mails, forgot>>
        /\ IntakeNext \/ UNCHANGED <<processed, openTasks, unread, received, running, poller, queue,
                                     jobs, dropped, lapsed, lapses>>
BY DEF OperationsNext, operationVars, reportVars, importVars, noticeVars, intakeVars, dateVars

-----------------------------------------------------------------------------
(* Intake. A request whose marks were all kept is in one place at a time:  *)
(* unmarked, in the queue, or a job.                                       *)

IntakeShape ==
    /\ processed \in [readable : BOOLEAN, ids : SUBSET Tasks]
    /\ openTasks \subseteq Tasks /\ received \in Seq(Mails) /\ unread \subseteq ToSet(received)
    /\ queue \subseteq Requests /\ jobs \in [Requests -> Nat]

InOnePlace ==
    \A r \in Requests : r \notin lapsed =>
        /\ jobs[r] <= 1
        /\ r \in queue => jobs[r] = 0
        /\ ~Marked(r) => jobs[r] = 0 /\ r \notin queue

MarkedIsTaken == \A r \in Requests : Marked(r) /\ r \notin queue => jobs[r] > 0 \/ r \in dropped

QueueIsAtWork == queue # {} => poller \in {"clickup jobs", "email jobs"}

IntakeInv == IntakeShape /\ InOnePlace /\ MarkedIsTaken /\ QueueIsAtWork

\* A task is marked in the file, a mail in the mailbox.
LEMMA MarkedWhere ==
    ASSUME IntakeShape
    PROVE  /\ LoadProcessed \subseteq Tasks /\ ToSet(received) \subseteq Mails
           /\ \A t \in Tasks : Marked(t) <=> t \in LoadProcessed
           /\ \A m \in Mails : Marked(m) <=> m \in ToSet(received) \ unread
<1>1. LoadProcessed \subseteq Tasks
  BY DEF IntakeShape, LoadProcessed
<1>2. ToSet(received) \subseteq Mails
  BY DEF IntakeShape, ToSet
<1> QED BY <1>1, <1>2, IntakeAssumption DEF Marked

LEMMA IntakeStarts == IntakeInit => IntakeInv
<1> SUFFICES ASSUME IntakeInit PROVE IntakeInv
  OBVIOUS
<1>1. ToSet(received) = {}
  BY DEF IntakeInit, ToSet
<1>2. IntakeShape
  BY <1>1 DEF IntakeInit, IntakeShape
<1>3. \A r \in Requests : ~Marked(r) /\ jobs[r] = 0 /\ r \notin queue
  BY <1>1, <1>2 DEF IntakeInit, Marked, LoadProcessed
<1> QED BY <1>2, <1>3 DEF IntakeInit, IntakeInv, InOnePlace, MarkedIsTaken, QueueIsAtWork

\* A step that marks no more and forgets no mark, and moves nothing else.
LEMMA MarksUnmoved ==
    ASSUME IntakeInv, IntakeShape', \A r \in Requests : Marked(r)' <=> Marked(r),
           UNCHANGED <<queue, jobs, dropped, lapsed>>, QueueIsAtWork'
    PROVE  IntakeInv'
<1>1. InOnePlace'
  BY DEF IntakeInv, InOnePlace
<1>2. MarkedIsTaken'
  BY DEF IntakeInv, MarkedIsTaken
<1> QED BY <1>1, <1>2 DEF IntakeInv

\* A poll that finds the new requests: unmarked before, and afterwards they
\* are queued and marked, or have lapsed.
LEMMA PollTakes ==
    ASSUME IntakeInv, IntakeShape', NEW new \in SUBSET Requests, queue = {}, queue' = new,
           UNCHANGED <<jobs, dropped>>, QueueIsAtWork', lapsed \subseteq lapsed',
           \A r \in new : ~Marked(r) /\ (Marked(r)' \/ r \in lapsed'),
           \A r \in Requests \ new : Marked(r)' => Marked(r),
           \A r \in Requests : Marked(r) => Marked(r)' \/ r \in lapsed'
    PROVE  IntakeInv'
<1>1. ASSUME NEW r \in Requests, r \notin lapsed'
      PROVE  /\ jobs[r] <= 1 /\ (r \in new => jobs[r] = 0)
             /\ ~Marked(r)' => jobs[r] = 0 /\ r \notin new
  BY <1>1 DEF IntakeInv, InOnePlace
<1>2. InOnePlace'
  BY <1>1 DEF InOnePlace
<1>3. MarkedIsTaken'
  BY DEF IntakeInv, MarkedIsTaken
<1> QED BY <1>2, <1>3 DEF IntakeInv

LEMMA PollClickUpKeeps == ASSUME IntakeInv, PollClickUp PROVE IntakeInv'
<1> DEFINE new == openTasks \ LoadProcessed
<1>1. /\ poller = "clickup" /\ queue = {} /\ IntakeShape
      /\ UNCHANGED <<openTasks, unread, received, running, jobs, dropped, graphToken>>
  BY DEF PollClickUp, IntakeInv, QueueIsAtWork
<1>2. /\ LoadProcessed \subseteq Tasks /\ ToSet(received) \subseteq Mails /\ new \subseteq Tasks
      /\ \A t \in Tasks : Marked(t) <=> t \in LoadProcessed
      /\ \A m \in Mails : Marked(m) <=> m \in ToSet(received) \ unread
  BY <1>1, MarkedWhere DEF IntakeShape
<1>3. CASE Polling("clickup", {}) /\ UNCHANGED <<processed, lapsed, lapses>>
  <2>1. IntakeShape'
    BY <1>1, <1>3 DEF IntakeShape, Polling
  <2>2. \A r \in Requests : Marked(r)' <=> Marked(r)
    BY <1>1, <1>3 DEF Marked, LoadProcessed
  <2>3. queue' = {}
    BY <1>3 DEF Polling
  <2> QED BY <1>1, <1>3, <2>1, <2>2, <2>3, MarksUnmoved DEF QueueIsAtWork
<1>4. CASE new # {} /\ SaveProcessed(new) /\ Polling("clickup", new)
  <2>1. queue' = new /\ QueueIsAtWork'
    BY <1>4 DEF Polling, JobsOf, QueueIsAtWork
  <2>2. /\ processed' \in [readable : BOOLEAN, ids : SUBSET Tasks] /\ lapsed \subseteq lapsed'
        /\ \/ LoadProcessed' = LoadProcessed \union new
           \/ LoadProcessed' = LoadProcessed /\ new \subseteq lapsed'
           \/ LoadProcessed' = {} /\ new \subseteq lapsed' /\ LoadProcessed \subseteq lapsed'
    <3>1. CASE processed' = [readable |-> TRUE, ids |-> LoadProcessed \union new] /\ lapsed' = lapsed
      BY <1>2, <3>1 DEF LoadProcessed
    <3>2. CASE UNCHANGED processed /\ lapsed' = lapsed \union new
      BY <1>1, <3>2 DEF LoadProcessed, IntakeShape
    <3>3. CASE /\ processed' = [readable |-> FALSE, ids |-> {}]
               /\ lapsed' = lapsed \union LoadProcessed \union new
      BY <3>3 DEF LoadProcessed
    <3> QED BY <1>4, <3>1, <3>2, <3>3 DEF SaveProcessed, WithNew
  <2>3. IntakeShape'
    BY <1>1, <1>2, <2>1, <2>2 DEF IntakeShape, Requests
  <2>4. /\ \A t \in Tasks : Marked(t)' <=> t \in LoadProcessed'
        /\ \A m \in Mails : Marked(m)' <=> m \in ToSet(received) \ unread
    <3>1. ToSet(received)' = ToSet(received)
      BY <1>1
    <3>2. \A r \in Requests : Marked(r)' <=> r \in LoadProcessed' \/ r \in ToSet(received) \ unread
      BY <1>1, <3>1 DEF Marked
    <3>3. LoadProcessed' \subseteq Tasks
      BY <1>2, <2>2
    <3> QED BY <1>2, <3>2, <3>3, IntakeAssumption DEF Requests
  <2> HIDE DEF new
  <2>5. new \in SUBSET Requests /\ \A r \in new : ~Marked(r) /\ (Marked(r)' \/ r \in lapsed')
    BY <1>2, <2>2, <2>4 DEF new, Requests
  <2>6. \A r \in Requests \ new : Marked(r)' => Marked(r)
    BY <1>2, <2>2, <2>4 DEF Requests
  <2>7. \A r \in Requests : Marked(r) => Marked(r)' \/ r \in lapsed'
    BY <1>2, <2>2, <2>4 DEF Requests
  <2> QED BY <1>1, <2>1, <2>2, <2>3, <2>5, <2>6, <2>7, PollTakes
<1> QED BY <1>3, <1>4 DEF PollClickUp

LEMMA PollEmailKeeps == ASSUME IntakeInv, PollEmail PROVE IntakeInv'
<1>1. /\ poller = "email" /\ queue = {} /\ IntakeShape
      /\ UNCHANGED <<processed, openTasks, received, running, jobs, dropped>>
  BY DEF PollEmail, IntakeInv, QueueIsAtWork
<1>2. /\ LoadProcessed \subseteq Tasks /\ ToSet(received) \subseteq Mails
      /\ \A t \in Tasks : Marked(t) <=> t \in LoadProcessed
      /\ \A m \in Mails : Marked(m) <=> m \in ToSet(received) \ unread
  BY <1>1, MarkedWhere
<1>3. CASE Polling("email", {}) /\ UNCHANGED <<unread, lapsed, lapses>>
  <2>1. IntakeShape'
    BY <1>1, <1>3 DEF IntakeShape, Polling
  <2>2. \A r \in Requests : Marked(r)' <=> Marked(r)
    BY <1>1, <1>3 DEF Marked, LoadProcessed
  <2>3. queue' = {}
    BY <1>3 DEF Polling
  <2> QED BY <1>1, <1>3, <2>1, <2>2, <2>3, MarksUnmoved DEF QueueIsAtWork
<1>4. ASSUME NEW page \in Pages, Polling("email", page), MarkAsRead(page) PROVE IntakeInv'
  <2>1. page \subseteq unread /\ page \subseteq Mails
    BY <1>1, <1>2 DEF Pages, IntakeShape
  <2>2. queue' = page /\ QueueIsAtWork'
    BY <1>4 DEF Polling, JobsOf, QueueIsAtWork
  <2>3. /\ unread' \subseteq unread /\ lapsed \subseteq lapsed'
        /\ \A m \in page : m \notin unread' \/ m \in lapsed'
        /\ unread \ page \subseteq unread'
    BY <1>4, <2>1 DEF MarkAsRead
  <2>4. IntakeShape'
    BY <1>1, <1>2, <2>1, <2>2, <2>3 DEF IntakeShape, Requests
  <2>5. /\ \A t \in Tasks : Marked(t)' <=> Marked(t)
        /\ \A m \in Mails : Marked(m)' <=> m \in ToSet(received) \ unread'
    <3>1. \A r : Marked(r)' <=> r \in LoadProcessed \/ r \in ToSet(received) \ unread'
      BY <1>1 DEF Marked, LoadProcessed
    <3> QED BY <1>2, <3>1, IntakeAssumption
  <2>6. page \in SUBSET Requests /\ \A r \in page : ~Marked(r) /\ (Marked(r)' \/ r \in lapsed')
    BY <1>1, <1>2, <2>1, <2>3, <2>5 DEF Requests, IntakeShape
  <2>7. \A r \in Requests \ page : Marked(r)' => Marked(r)
    BY <1>2, <2>3, <2>5 DEF Requests
  <2>8. \A r \in Requests : Marked(r) => Marked(r)' \/ r \in lapsed'
    BY <1>2, <2>3, <2>5 DEF Requests
  <2> QED BY <1>1, <2>2, <2>3, <2>4, <2>6, <2>7, <2>8, PollTakes
<1> QED BY <1>3, <1>4 DEF PollEmail

LEMMA OneMore == \A n \in Nat : n + 1 \in Nat /\ n + 1 > 0
OBVIOUS

LEMMA EnqueueKeeps == ASSUME IntakeInv, NEW r \in Requests, Enqueue(r) PROVE IntakeInv'
<1>1. /\ r \in queue /\ queue' = queue \ {r} /\ poller \in {"clickup jobs", "email jobs"}
      /\ jobs' = [jobs EXCEPT ![r] = jobs[r] + 1]
      /\ UNCHANGED <<processed, openTasks, unread, received, running, dropped, lapsed, lapses, graphToken>>
  BY DEF Enqueue, Polling
<1>2. jobs \in [Requests -> Nat] /\ jobs[r] \in Nat
  BY DEF IntakeInv, IntakeShape
<1>3. jobs[r] + 1 \in Nat /\ jobs[r] + 1 > 0
  BY <1>2, OneMore
<1>4. jobs' \in [Requests -> Nat] /\ jobs'[r] = jobs[r] + 1 /\ \A q \in Requests \ {r} : jobs'[q] = jobs[q]
  BY <1>1, <1>2, <1>3, Zenon
<1>5. \A q \in Requests : Marked(q)' <=> Marked(q)
  BY <1>1 DEF Marked, LoadProcessed
<1>6. IntakeShape'
  BY <1>1, <1>4 DEF IntakeInv, IntakeShape
<1>7. InOnePlace'
  <2> SUFFICES ASSUME NEW q \in Requests, q \notin lapsed
               PROVE  /\ jobs'[q] <= 1 /\ (q \in queue' => jobs'[q] = 0)
                      /\ ~Marked(q)' => jobs'[q] = 0 /\ q \notin queue'
    BY <1>1 DEF InOnePlace
  <2>1. /\ jobs[q] <= 1 /\ (q \in queue => jobs[q] = 0)
        /\ ~Marked(q) => jobs[q] = 0 /\ q \notin queue
    BY DEF IntakeInv, InOnePlace
  <2>2. CASE q = r
    <3>1. jobs[r] = 0 /\ Marked(r)
      BY <1>1, <2>1, <2>2
    <3>2. jobs'[r] = 1
      BY <1>4, <3>1
    <3>3. r \notin queue' /\ Marked(r)'
      BY <1>1, <1>5, <3>1
    <3> QED BY <2>2, <3>2, <3>3
  <2>3. CASE q # r
    <3>1. jobs'[q] = jobs[q] /\ (q \in queue' <=> q \in queue) /\ (Marked(q)' <=> Marked(q))
      BY <1>1, <1>4, <1>5, <2>3
    <3> QED BY <2>1, <3>1
  <2> QED BY <2>2, <2>3
<1>8. MarkedIsTaken'
  <2> SUFFICES ASSUME NEW q \in Requests, Marked(q)', q \notin queue' PROVE jobs'[q] > 0 \/ q \in dropped
    BY <1>1 DEF MarkedIsTaken
  <2>1. CASE q = r
    BY <1>3, <1>4, <2>1
  <2>2. CASE q # r
    <3>1. jobs'[q] = jobs[q] /\ q \notin queue /\ Marked(q)
      BY <1>1, <1>4, <1>5, <2>2
    <3> QED BY <3>1 DEF IntakeInv, MarkedIsTaken
  <2> QED BY <2>1, <2>2
<1>9. QueueIsAtWork'
  BY <1>1 DEF Enqueue, Polling, QueueIsAtWork, AdapterAtWork, JobsOf
<1> QED BY <1>6, <1>7, <1>8, <1>9 DEF IntakeInv

LEMMA IntakeSteps ==
    ASSUME IntakeInv,
           IntakeNext \/ UNCHANGED <<processed, openTasks, unread, received, running, poller, queue,
                                     jobs, dropped, lapsed, lapses>>
    PROVE  IntakeInv'
<1>0. IntakeShape
  BY DEF IntakeInv
<1>1. ASSUME UNCHANGED <<processed, unread, received, queue, jobs, dropped, lapsed>>, openTasks' \subseteq Tasks,
             QueueIsAtWork'
      PROVE  IntakeInv'
  <2>1. \A r \in Requests : Marked(r)' <=> Marked(r)
    BY <1>1 DEF Marked, LoadProcessed
  <2>2. IntakeShape'
    BY <1>0, <1>1 DEF IntakeShape
  <2> QED BY <1>1, <2>1, <2>2, MarksUnmoved
<1>2. CASE UNCHANGED <<processed, openTasks, unread, received, running, poller, queue, jobs, dropped, lapsed, lapses>>
  BY <1>0, <1>1, <1>2 DEF IntakeShape, IntakeInv, QueueIsAtWork
<1>3. CASE \E t \in Tasks : TaskChanges(t)
  BY <1>0, <1>1, <1>3 DEF TaskChanges, IntakeShape, IntakeInv, QueueIsAtWork
<1>4. ASSUME NEW m \in Mails, MailArrives(m) PROVE IntakeInv'
  <2>1. /\ received' = Append(received, m) /\ unread' = unread \union {m} /\ m \notin ToSet(received)
        /\ UNCHANGED <<processed, openTasks, running, poller, queue, jobs, dropped, lapsed, lapses, graphToken>>
    BY <1>4 DEF MailArrives
  <2>2. received' \in Seq(Mails) /\ ToSet(received') = ToSet(received) \union {m}
    BY <1>0, <2>1 DEF IntakeShape, ToSet
  <2>3. IntakeShape'
    BY <1>0, <2>1, <2>2 DEF IntakeShape
  <2>4. \A r \in Requests : Marked(r)' <=> Marked(r)
    <3>1. \A r : Marked(r)' <=> r \in LoadProcessed \/ r \in ToSet(received') \ unread'
      BY <2>1 DEF Marked, LoadProcessed
    <3> QED BY <2>1, <2>2, <3>1 DEF Marked
  <2> QED BY <2>1, <2>3, <2>4, MarksUnmoved DEF IntakeInv, QueueIsAtWork
<1>5. CASE TokenChanges
  BY <1>0, <1>1, <1>5 DEF TokenChanges, IntakeShape, IntakeInv, QueueIsAtWork
<1>6. CASE StartPolling
  BY <1>0, <1>1, <1>6 DEF StartPolling, IntakeShape, IntakeInv, QueueIsAtWork
<1>7. CASE StopPolling
  BY <1>0, <1>1, <1>7 DEF StopPolling, IntakeShape, IntakeInv, QueueIsAtWork
<1>8. CASE PollTimer
  BY <1>0, <1>1, <1>8 DEF PollTimer, IntakeShape, IntakeInv, QueueIsAtWork
<1>9. CASE SaveThrows \/ IntakeDies
  <2>1. /\ dropped' = dropped \union queue /\ queue' = {}
        /\ UNCHANGED <<processed, openTasks, unread, received, jobs, lapsed>>
    BY <1>9 DEF SaveThrows, IntakeDies
  <2>2. \A r \in Requests : Marked(r)' <=> Marked(r)
    BY <2>1 DEF Marked, LoadProcessed
  <2>3. IntakeShape' /\ QueueIsAtWork'
    BY <1>0, <2>1 DEF IntakeShape, QueueIsAtWork
  <2>4. InOnePlace'
    BY <2>1, <2>2 DEF IntakeInv, InOnePlace
  <2>5. MarkedIsTaken'
    BY <2>1, <2>2 DEF IntakeInv, MarkedIsTaken
  <2> QED BY <2>3, <2>4, <2>5 DEF IntakeInv
<1> QED
  BY <1>2, <1>3, <1>4, <1>5, <1>6, <1>7, <1>8, <1>9, PollClickUpKeeps, PollEmailKeeps, EnqueueKeeps
     DEF IntakeNext

(* A request becomes two jobs only if its mark was not kept, and what is   *)
(* marked is queued, a job, or was dropped by a throwing save or the end   *)
(* of the daemon (src/core/orchestrator.ts, fetchAndEnqueue, and the two   *)
(* adapters of src/adapters/intake).                                       *)
THEOREM TakenOnce == OperationsSpec => []RequestsAreTakenOnce
<1>1. OperationsInit => IntakeInv
  BY IntakeStarts DEF OperationsInit
<1>2. IntakeInv /\ [OperationsNext]_operationVars => IntakeInv'
  BY IntakeSteps, OperationsApart
<1>3. IntakeInv => RequestsAreTakenOnce
  <2> SUFFICES ASSUME IntakeInv, NEW r \in Requests
               PROVE  /\ jobs[r] > 1 => r \in lapsed
                      /\ Marked(r) /\ r \notin queue => jobs[r] > 0 \/ r \in dropped
    BY DEF RequestsAreTakenOnce
  <2>1. jobs[r] \in Nat
    BY DEF IntakeInv, IntakeShape
  <2> QED BY <2>1 DEF IntakeInv, InOnePlace, MarkedIsTaken
<1> QED BY <1>1, <1>2, <1>3, PTL DEF OperationsSpec

-----------------------------------------------------------------------------
(* Notices. Until the start notices of a job have settled nothing else is  *)
(* said of it; afterwards its thread is known, or forgotten for good.      *)

StartOf(j) == [job |-> j, kind |-> "started", under |-> NoThread]

NoticesShape ==
    /\ noticed \in [NoticedJobs -> {"new", "posting", "unanswered", "running", "gate", "ended"}]
    /\ threadTs \in [NoticedJobs -> NoticedJobs \union {NoThread}]
    /\ channel \subseteq [job : NoticedJobs, kind : Kinds, under : NoticedJobs \union {NoThread}]

Unsettled(j) == noticed[j] \in {"new", "posting", "unanswered"}

OnlyStarted ==
    \A j \in NoticedJobs : Unsettled(j) =>
        /\ j \notin forgot /\ threadTs[j] = NoThread
        /\ noticed[j] = "posting" => StartOf(j) \in channel
        /\ \A m \in channel : m.job = j => m.kind = "started"

ThreadIsKnown ==
    \A j \in NoticedJobs : ~Unsettled(j) =>
        IF j \in forgot THEN threadTs[j] = NoThread ELSE threadTs[j] = j /\ StartOf(j) \in channel

NoticesInv == NoticesShape /\ OnlyStarted /\ ThreadIsKnown /\ NoticesStayInTheirThread

LEMMA NoticesStart == NoticesInit => NoticesInv
BY DEF NoticesInit, NoticesInv, NoticesShape, OnlyStarted, ThreadIsKnown, NoticesStayInTheirThread, Unsettled

\* The start message is posted, or is not, and the job waits for its answer.
LEMMA StartKeeps == ASSUME NoticesInv, NEW j \in NoticedJobs, SendJobStarted(j) PROVE NoticesInv'
<1> USE DEF NoticesInv, NoticesShape
<1>1. /\ noticed[j] = "new" /\ UNCHANGED <<threadTs, forgot>>
      /\ \/ channel' = channel \union {StartOf(j)} /\ noticed' = [noticed EXCEPT ![j] = "posting"]
         \/ channel' = channel \union {StartOf(j)} /\ noticed' = [noticed EXCEPT ![j] = "unanswered"]
         \/ channel' = channel /\ noticed' = [noticed EXCEPT ![j] = "unanswered"]
  BY DEF SendJobStarted, StartOf
<1>2. StartOf(j) \in [job : NoticedJobs, kind : Kinds, under : NoticedJobs \union {NoThread}]
  BY DEF StartOf, Kinds
<1>3. /\ StartOf(j).job = j /\ StartOf(j).kind = "started" /\ StartOf(j).under = NoThread
      /\ channel \subseteq channel' /\ \A m \in channel' \ channel : m = StartOf(j)
      /\ noticed'[j] = "posting" => StartOf(j) \in channel'
      /\ noticed'[j] \in {"posting", "unanswered"} /\ \A k \in NoticedJobs \ {j} : noticed'[k] = noticed[k]
  BY <1>1 DEF StartOf
<1>4. NoticesShape'
  BY <1>1, <1>2
<1>5. OnlyStarted'
  <2> SUFFICES ASSUME NEW k \in NoticedJobs, Unsettled(k)'
               PROVE  /\ k \notin forgot /\ threadTs[k] = NoThread
                      /\ noticed'[k] = "posting" => StartOf(k) \in channel'
                      /\ \A m \in channel' : m.job = k => m.kind = "started"
    BY <1>1 DEF OnlyStarted, StartOf
  <2>1. Unsettled(k)
    BY <1>1, <1>3 DEF Unsettled
  <2>2. /\ k \notin forgot /\ threadTs[k] = NoThread
        /\ noticed[k] = "posting" => StartOf(k) \in channel
        /\ \A m \in channel : m.job = k => m.kind = "started"
    BY <2>1 DEF OnlyStarted
  <2> QED BY <1>3, <2>2
<1>6. ThreadIsKnown'
  <2> SUFFICES ASSUME NEW k \in NoticedJobs, ~Unsettled(k)'
               PROVE  IF k \in forgot THEN threadTs[k] = NoThread ELSE threadTs[k] = k /\ StartOf(k) \in channel'
    BY <1>1 DEF ThreadIsKnown, StartOf
  <2>1. k # j /\ ~Unsettled(k)
    BY <1>3 DEF Unsettled
  <2> QED BY <1>3, <2>1 DEF ThreadIsKnown
<1>7. NoticesStayInTheirThread'
  BY <1>1, <1>3 DEF NoticesStayInTheirThread, StartOf
<1> QED BY <1>4, <1>5, <1>6, <1>7

LEMMA SettlesKeeps == ASSUME NoticesInv, NEW j \in NoticedJobs, StartedSettles(j) PROVE NoticesInv'
<1> USE DEF NoticesInv, NoticesShape
<1>1. /\ noticed[j] \in {"posting", "unanswered"} /\ noticed' = [noticed EXCEPT ![j] = "running"] /\ channel' = channel
      /\ \/ noticed[j] = "posting" /\ threadTs' = [threadTs EXCEPT ![j] = j] /\ forgot' = forgot
         \/ noticed[j] = "unanswered" /\ threadTs' = threadTs /\ forgot' = forgot \union {j}
  BY DEF StartedSettles
<1>2. /\ j \notin forgot /\ threadTs[j] = NoThread /\ Unsettled(j)
      /\ noticed[j] = "posting" => StartOf(j) \in channel
      /\ \A m \in channel : m.job = j => m.kind = "started"
  BY <1>1 DEF OnlyStarted, Unsettled
<1>3. NoticesShape'
  BY <1>1
<1>4. \A k \in NoticedJobs \ {j} :
        /\ noticed'[k] = noticed[k] /\ threadTs'[k] = threadTs[k] /\ (k \in forgot' <=> k \in forgot)
  BY <1>1
<1>5. OnlyStarted'
  BY <1>1, <1>4 DEF OnlyStarted, Unsettled, StartOf
<1>6. ThreadIsKnown'
  BY <1>1, <1>2, <1>4 DEF ThreadIsKnown, Unsettled, StartOf
<1>7. NoticesStayInTheirThread'
  BY <1>1, <1>2 DEF NoticesStayInTheirThread
<1> QED BY <1>3, <1>5, <1>6, <1>7

\* Every later notice goes where the job's thread says.
LEMMA LaterNoticeKeeps ==
    ASSUME NoticesInv, NEW j \in NoticedJobs, NEW kind \in Kinds, ~Unsettled(j), Post(j, kind), kind # "started",
           NEW w \in {"gate", "ended"}, noticed' = [noticed EXCEPT ![j] = w], UNCHANGED <<threadTs, forgot>>
    PROVE  NoticesInv'
<1> USE DEF NoticesInv, NoticesShape
<1> DEFINE new == [job |-> j, kind |-> kind, under |-> threadTs[j]]
<1>1. /\ channel \subseteq channel' /\ \A m \in channel' \ channel : m = new
      /\ channel' \subseteq [job : NoticedJobs, kind : Kinds, under : NoticedJobs \union {NoThread}]
      /\ new.job = j /\ new.kind = kind /\ new.under = threadTs[j]
  BY DEF Post, ThreadOf
<1> HIDE DEF new
<1>2. /\ noticed' \in [NoticedJobs -> {"new", "posting", "unanswered", "running", "gate", "ended"}]
      /\ noticed'[j] = w /\ \A k \in NoticedJobs \ {j} : noticed'[k] = noticed[k]
  OBVIOUS
<1>3. OnlyStarted'
  <2> SUFFICES ASSUME NEW k \in NoticedJobs, Unsettled(k)'
               PROVE  /\ k \notin forgot /\ threadTs[k] = NoThread
                      /\ noticed'[k] = "posting" => StartOf(k) \in channel'
                      /\ \A m \in channel' : m.job = k => m.kind = "started"
    BY DEF OnlyStarted, StartOf
  <2>1. Unsettled(k) /\ noticed'[k] = noticed[k] /\ k # j
    BY <1>2 DEF Unsettled
  <2>2. /\ k \notin forgot /\ threadTs[k] = NoThread
        /\ noticed[k] = "posting" => StartOf(k) \in channel
        /\ \A m \in channel : m.job = k => m.kind = "started"
    BY <2>1 DEF OnlyStarted
  <2> QED BY <1>1, <2>1, <2>2
<1>4. ThreadIsKnown'
  <2> SUFFICES ASSUME NEW k \in NoticedJobs, ~Unsettled(k)'
               PROVE  IF k \in forgot THEN threadTs[k] = NoThread ELSE threadTs[k] = k /\ StartOf(k) \in channel'
    BY DEF ThreadIsKnown, StartOf
  <2>1. ~Unsettled(k)
    BY <1>2 DEF Unsettled
  <2> QED BY <1>1, <2>1 DEF ThreadIsKnown
<1>5. NoticesStayInTheirThread'
  <2>1. IF j \in forgot THEN threadTs[j] = NoThread ELSE threadTs[j] = j /\ StartOf(j) \in channel
    BY DEF ThreadIsKnown
  <2> SUFFICES ASSUME NEW m \in channel'
               PROVE  IF m.kind = "started" \/ m.job \in forgot THEN m.under = NoThread
                      ELSE m.under = m.job /\ StartOf(m.job) \in channel'
    BY DEF NoticesStayInTheirThread, StartOf
  <2>2. CASE m \in channel
    BY <1>1, <2>2 DEF NoticesStayInTheirThread, StartOf
  <2>3. CASE m = new
    BY <1>1, <2>1, <2>3
  <2> QED BY <1>1, <2>2, <2>3
<1> QED BY <1>1, <1>2, <1>3, <1>4, <1>5

LEMMA NoticesSteps ==
    ASSUME NoticesInv, NoticesNext \/ UNCHANGED <<noticed, threadTs, channel, mails, forgot>>
    PROVE  NoticesInv'
<1>1. CASE UNCHANGED <<noticed, threadTs, channel, mails, forgot>>
  BY <1>1 DEF NoticesInv, NoticesShape, OnlyStarted, ThreadIsKnown, NoticesStayInTheirThread, Unsettled, StartOf
<1>2. ASSUME NEW j \in NoticedJobs, SendJobStarted(j) PROVE NoticesInv'
  BY <1>2, StartKeeps
<1>3. ASSUME NEW j \in NoticedJobs, StartedSettles(j) PROVE NoticesInv'
  BY <1>3, SettlesKeeps
<1>4. ASSUME NEW j \in NoticedJobs, SendApprovalRequest(j) PROVE NoticesInv'
  BY <1>4, LaterNoticeKeeps DEF SendApprovalRequest, Unsettled, Kinds
<1>5. ASSUME NEW j \in NoticedJobs, SendFailure(j) PROVE NoticesInv'
  BY <1>5, LaterNoticeKeeps DEF SendFailure, Unsettled, Kinds
<1>6. ASSUME NEW j \in NoticedJobs, SendCompletion(j) PROVE NoticesInv'
  BY <1>6, LaterNoticeKeeps DEF SendCompletion, Unsettled, Kinds
<1> QED BY <1>1, <1>2, <1>3, <1>4, <1>5, <1>6 DEF NoticesNext, NoticeTokenChanges

(* What is said of a job is said under its own start message, however the  *)
(* notices of the jobs interleave (src/adapters/slack/notify.adapter.ts,   *)
(* threadTs).                                                              *)
THEOREM NoticesDoNotMix == OperationsSpec => []NoticesStayInTheirThread
<1>1. OperationsInit => NoticesInv
  BY NoticesStart DEF OperationsInit
<1>2. NoticesInv /\ [OperationsNext]_operationVars => NoticesInv'
  BY NoticesSteps, OperationsApart
<1>3. NoticesInv => NoticesStayInTheirThread
  BY DEF NoticesInv
<1> QED BY <1>1, <1>2, <1>3, PTL DEF OperationsSpec

-----------------------------------------------------------------------------
(* The import. An edit writes a version newer than all there are, so what  *)
(* was read or stored of a day is never newer than its cell, and what a    *)
(* run has read is not older than what is stored until another run upserts. *)

RowSets == UNION {[D -> Nat \ {0}] : D \in SUBSET Days}

ImportRecord ==
    [at : {"unstarted", "fetch", "upsert", "close", "ended", "died"}, rows : RowSets, double : BOOLEAN,
     log : {"none", "running", "ok", "error"}, status : {"none", "ok", "error"}, overtaken : BOOLEAN]

ImportShape ==
    /\ sheet \in [Days -> Nat \union {Malformed}] /\ edits \in Nat
    /\ stored \in [Days -> Nat] /\ import \in [Imports -> ImportRecord]

CellsAreNewest ==
    \A d \in Days : /\ stored[d] <= edits
                    /\ sheet[d] # Malformed => stored[d] <= sheet[d] /\ sheet[d] <= edits

RowsAreCurrent ==
    \A i \in Imports : import[i].at = "upsert" => \A d \in DOMAIN import[i].rows :
        /\ import[i].rows[d] <= edits
        /\ sheet[d] # Malformed => import[i].rows[d] <= sheet[d]
        /\ ~import[i].overtaken => stored[d] <= import[i].rows[d]

ImportInv == ImportShape /\ CellsAreNewest /\ RowsAreCurrent

LEMMA RowsHold ==
    /\ [d \in {} |-> 0] \in RowSets
    /\ \A rows \in RowSets : DOMAIN rows \subseteq Days /\ \A d \in DOMAIN rows : rows[d] \in Nat \ {0}
<1>1. [d \in {} |-> 0] \in [{} -> Nat \ {0}]
  OBVIOUS
<1> QED BY <1>1 DEF RowSets

LEMMA ParsedRowsHold == ASSUME ImportShape PROVE ParsedRows \in RowSets
<1>1. ParsedRows \in [{e \in Days : Parses(e)} -> Nat \ {0}]
  BY DEF ImportShape, ParsedRows, Parses
<1> QED BY <1>1 DEF RowSets

LEMMA ImportStarts == ImportInit => ImportInv
<1> SUFFICES ASSUME ImportInit PROVE ImportInv
  OBVIOUS
<1>1. NewImport \in ImportRecord /\ NewImport.at = "unstarted"
  BY RowsHold DEF NewImport, ImportRecord
<1>2. ImportShape
  BY <1>1 DEF ImportInit, ImportShape
<1> QED BY <1>1, <1>2 DEF ImportInit, ImportInv, CellsAreNewest, RowsAreCurrent

\* A run that moves outside its upsert, or the steps that leave the table alone.
LEMMA RunMoves ==
    ASSUME ImportInv, NEW i \in Imports, NEW new \in ImportRecord, new.at # "upsert",
           import' = [import EXCEPT ![i] = new], UNCHANGED <<sheet, edits, stored>>
    PROVE  ImportInv'
<1>1. ImportShape'
  BY DEF ImportInv, ImportShape
<1>2. CellsAreNewest'
  BY DEF ImportInv, CellsAreNewest
<1>3. \A k \in Imports : k # i => import'[k] = import[k]
  BY DEF ImportInv, ImportShape
<1>4. import'[i] = new
  BY DEF ImportInv, ImportShape
<1>5. RowsAreCurrent'
  BY <1>3, <1>4 DEF ImportInv, RowsAreCurrent
<1> QED BY <1>1, <1>2, <1>5 DEF ImportInv

LEMMA EditKeeps == ASSUME ImportInv, NEW d \in Days, EditSheet(d) PROVE ImportInv'
<1>0. edits \in Nat /\ edits + 1 \in Nat
  BY DEF ImportInv, ImportShape
<1>1. /\ edits' = edits + 1 /\ UNCHANGED <<stored, import>>
      /\ \/ sheet' = [sheet EXCEPT ![d] = edits + 1] \/ sheet' = [sheet EXCEPT ![d] = Malformed]
         \/ sheet' = sheet
  BY DEF EditSheet
<1>2. \A e \in Days : sheet'[e] = sheet[e] \/ sheet'[e] = edits + 1 \/ sheet'[e] = Malformed
  BY <1>1 DEF ImportInv, ImportShape
<1>3. ImportShape'
  BY <1>0, <1>1 DEF ImportInv, ImportShape
<1>4. CellsAreNewest'
  <2> SUFFICES ASSUME NEW e \in Days
               PROVE  /\ stored[e] <= edits'
                      /\ sheet'[e] # Malformed => stored[e] <= sheet'[e] /\ sheet'[e] <= edits'
    BY <1>1 DEF CellsAreNewest
  <2>1. stored[e] \in Nat /\ sheet[e] \in Nat \union {Malformed}
    BY DEF ImportInv, ImportShape
  <2>2. stored[e] <= edits /\ (sheet[e] # Malformed => stored[e] <= sheet[e] /\ sheet[e] <= edits)
    BY DEF ImportInv, CellsAreNewest
  <2> QED BY <1>0, <1>1, <1>2, <2>1, <2>2
<1>5. RowsAreCurrent'
  <2> SUFFICES ASSUME NEW i \in Imports, import[i].at = "upsert", NEW e \in DOMAIN import[i].rows
               PROVE  /\ import[i].rows[e] <= edits'
                      /\ sheet'[e] # Malformed => import[i].rows[e] <= sheet'[e]
                      /\ ~import[i].overtaken => stored[e] <= import[i].rows[e]
    BY <1>1 DEF RowsAreCurrent
  <2>1. import[i].rows \in RowSets
    BY DEF ImportInv, ImportShape, ImportRecord
  <2>2. e \in Days /\ import[i].rows[e] \in Nat /\ sheet[e] \in Nat \union {Malformed}
    BY <2>1, RowsHold DEF ImportInv, ImportShape
  <2>3. /\ import[i].rows[e] <= edits /\ (sheet[e] # Malformed => import[i].rows[e] <= sheet[e])
        /\ ~import[i].overtaken => stored[e] <= import[i].rows[e]
    BY DEF ImportInv, RowsAreCurrent
  <2> QED BY <1>0, <1>1, <1>2, <2>2, <2>3
<1> QED BY <1>3, <1>4, <1>5 DEF ImportInv

LEMMA FetchKeeps == ASSUME ImportInv, NEW i \in Imports, FetchSheetRows(i) PROVE ImportInv'
<1>1. UNCHANGED <<sheet, edits, stored>> /\ import[i] \in ImportRecord /\ import[i].at = "fetch"
  BY DEF FetchSheetRows, ImportInv, ImportShape
<1>2. PICK rows \in {[d \in {} |-> 0], ParsedRows}, double \in BOOLEAN :
        import' = [import EXCEPT ![i] = [import[i] EXCEPT !.at = "upsert", !.rows = rows, !.double = double]]
  <2>1. CASE import' = [import EXCEPT ![i].at = "upsert", ![i].rows = [d \in {} |-> 0]]
    <3>1. import[i].double \in BOOLEAN
      BY <1>1 DEF ImportRecord
    <3>2. [import[i] EXCEPT !.at = "upsert", !.rows = [d \in {} |-> 0]] =
          [import[i] EXCEPT !.at = "upsert", !.rows = [d \in {} |-> 0], !.double = import[i].double]
      BY <1>1 DEF ImportRecord
    <3>3. import' = [import EXCEPT ![i] = [import[i] EXCEPT !.at = "upsert", !.rows = [d \in {} |-> 0]]]
      BY <2>1 DEF ImportInv, ImportShape
    <3> QED BY <3>1, <3>2, <3>3
  <2>2. CASE import' = [import EXCEPT ![i].at = "upsert", ![i].rows = ParsedRows,
                                      ![i].double = \E d \in doubled : Parses(d)]
    <3>1. (\E d \in doubled : Parses(d)) \in BOOLEAN
      OBVIOUS
    <3>2. import' = [import EXCEPT ![i] = [import[i] EXCEPT !.at = "upsert", !.rows = ParsedRows,
                                                         !.double = \E d \in doubled : Parses(d)]]
      BY <2>2 DEF ImportInv, ImportShape
    <3> QED BY <3>1, <3>2
  <2> QED BY <2>1, <2>2 DEF FetchSheetRows
<1> DEFINE new == [import[i] EXCEPT !.at = "upsert", !.rows = rows, !.double = double]
<1>3. rows \in RowSets
  BY RowsHold, ParsedRowsHold DEF ImportInv
<1>4. new \in ImportRecord /\ new.rows = rows /\ new.at = "upsert"
  BY <1>1, <1>3 DEF ImportRecord
<1>5. import' = [import EXCEPT ![i] = new]
  BY <1>2
<1> HIDE DEF new
<1>6. ImportShape' /\ CellsAreNewest'
  BY <1>1, <1>4, <1>5 DEF ImportInv, ImportShape, CellsAreNewest
<1>7. import'[i] = new /\ \A k \in Imports : k # i => import'[k] = import[k]
  BY <1>5 DEF ImportInv, ImportShape
<1>8. \A d \in DOMAIN rows : d \in Days /\ rows[d] = sheet[d] /\ sheet[d] # Malformed
  <2>1. CASE rows = [d \in {} |-> 0]
    BY <2>1
  <2>2. CASE rows = ParsedRows
    BY <2>2 DEF ParsedRows, Parses
  <2> QED BY <1>2, <2>1, <2>2
<1>9. RowsAreCurrent'
  <2> SUFFICES ASSUME NEW k \in Imports, import'[k].at = "upsert", NEW d \in DOMAIN import'[k].rows
               PROVE  /\ import'[k].rows[d] <= edits
                      /\ sheet[d] # Malformed => import'[k].rows[d] <= sheet[d]
                      /\ ~import'[k].overtaken => stored[d] <= import'[k].rows[d]
    BY <1>1 DEF RowsAreCurrent
  <2>1. CASE k = i
    <3>1. import'[k].rows = rows
      BY <1>4, <1>7, <2>1
    <3>2. d \in Days /\ import'[k].rows[d] = sheet[d] /\ sheet[d] # Malformed
      BY <1>8, <3>1
    <3>3. sheet[d] \in Nat /\ stored[d] <= sheet[d] /\ sheet[d] <= edits
      BY <3>2 DEF ImportInv, ImportShape, CellsAreNewest
    <3> QED BY <3>2, <3>3
  <2>2. CASE k # i
    BY <1>7, <2>2 DEF ImportInv, RowsAreCurrent
  <2> QED BY <2>1, <2>2
<1> QED BY <1>6, <1>9 DEF ImportInv

\* A statement that succeeds: the run's rows are merged, and every other run
\* that has read and not yet written is overtaken.
Merges(i) ==
    /\ import[i].rows # [d \in {} |-> 0]
    /\ stored' = Merged(import[i].rows)
    /\ import' = [k \in Imports |->
         IF k # i /\ import[k].at = "upsert" THEN [import[k] EXCEPT !.overtaken = TRUE]
         ELSE Ends(i, "ok")[k]]

LEMMA UpsertCases ==
    ASSUME ImportInv, NEW i \in Imports, Upsert(i)
    PROVE  /\ import[i].at = "upsert" /\ UNCHANGED <<sheet, edits>>
           /\ \/ /\ UNCHANGED stored
                 /\ \E status \in {"ok", "error"} :
                      import' = [import EXCEPT ![i] = [import[i] EXCEPT !.at = "close", !.status = status]]
              \/ Merges(i)
<1>1. \A status : Ends(i, status) = [import EXCEPT ![i] = [import[i] EXCEPT !.at = "close", !.status = status]]
  BY DEF Ends, ImportInv, ImportShape
<1> QED BY <1>1 DEF Upsert, Merges

LEMMA MergeKeeps ==
    ASSUME ImportInv, NEW i \in Imports, import[i].at = "upsert", UNCHANGED <<sheet, edits>>, Merges(i)
    PROVE  ImportInv'
<1>1. /\ import[i] \in ImportRecord /\ import[i].rows \in RowSets
      /\ DOMAIN import[i].rows \subseteq Days
      /\ \A d \in DOMAIN import[i].rows : import[i].rows[d] \in Nat \ {0}
  BY RowsHold DEF ImportInv, ImportShape, ImportRecord
<1>2. /\ stored' \in [Days -> Nat]
      /\ \A d \in Days : stored'[d] = IF d \in DOMAIN import[i].rows THEN import[i].rows[d] ELSE stored[d]
  BY <1>1 DEF Merges, Merged, ImportInv, ImportShape
<1>3. \A k \in Imports : /\ import'[k] \in ImportRecord /\ import'[k].rows = import[k].rows
                         /\ import'[k].at = "upsert" => k # i /\ import[k].at = "upsert" /\ import'[k].overtaken
  <2> SUFFICES ASSUME NEW k \in Imports
               PROVE  /\ import'[k] \in ImportRecord /\ import'[k].rows = import[k].rows
                      /\ import'[k].at = "upsert" => k # i /\ import[k].at = "upsert" /\ import'[k].overtaken
    OBVIOUS
  <2>1. import[k] \in ImportRecord
    BY DEF ImportInv, ImportShape
  <2>2. CASE k # i /\ import[k].at = "upsert"
    <3>1. import'[k] = [import[k] EXCEPT !.overtaken = TRUE]
      BY <2>2 DEF Merges
    <3> QED BY <2>1, <2>2, <3>1 DEF ImportRecord
  <2>3. CASE k = i
    <3>1. import'[k] = [import[i] EXCEPT !.at = "close", !.status = "ok"]
      BY <2>3 DEF Merges, Ends, ImportInv, ImportShape
    <3> QED BY <2>1, <2>3, <3>1 DEF ImportRecord
  <2>4. CASE k # i /\ import[k].at # "upsert"
    <3>1. import'[k] = import[k]
      BY <2>4 DEF Merges, Ends, ImportInv, ImportShape
    <3> QED BY <2>1, <2>4, <3>1
  <2> QED BY <2>2, <2>3, <2>4
<1>4. ImportShape'
  <2>1. import' = [k \in Imports |-> import'[k]]
    BY DEF Merges
  <2>2. import' \in [Imports -> ImportRecord]
    BY <1>3, <2>1
  <2> QED BY <1>2, <2>2 DEF ImportInv, ImportShape
<1>5. CellsAreNewest'
  <2> SUFFICES ASSUME NEW d \in Days
               PROVE  /\ stored'[d] <= edits
                      /\ sheet[d] # Malformed => stored'[d] <= sheet[d] /\ sheet[d] <= edits
    BY DEF CellsAreNewest
  <2> QED BY <1>2 DEF ImportInv, CellsAreNewest, RowsAreCurrent
<1>6. RowsAreCurrent'
  <2> SUFFICES ASSUME NEW k \in Imports, import'[k].at = "upsert", NEW d \in DOMAIN import'[k].rows
               PROVE  /\ import'[k].rows[d] <= edits
                      /\ sheet[d] # Malformed => import'[k].rows[d] <= sheet[d]
                      /\ ~import'[k].overtaken => stored'[d] <= import'[k].rows[d]
    BY DEF RowsAreCurrent
  <2>1. import[k].at = "upsert" /\ import'[k].overtaken
    BY <1>3
  <2>2. import'[k].rows = import[k].rows
    BY <1>3
  <2>3. d \in DOMAIN import[k].rows
    BY <2>2
  <2> QED BY <2>1, <2>2, <2>3 DEF ImportInv, RowsAreCurrent
<1> QED BY <1>4, <1>5, <1>6 DEF ImportInv

LEMMA ImportSteps == ASSUME ImportInv, [ImportNext]_importVars PROVE ImportInv'
<1>0. \A i \in Imports : import[i] \in ImportRecord
  BY DEF ImportInv, ImportShape
<1>1. CASE UNCHANGED importVars
  BY <1>1 DEF importVars, ImportInv, ImportShape, CellsAreNewest, RowsAreCurrent
<1>2. ASSUME NEW d \in Days, EditSheet(d) PROVE ImportInv'
  BY <1>2, EditKeeps
<1>3. ASSUME NEW i \in Imports, OpenRun(i) PROVE ImportInv'
  <2>1. PICK log \in {"running", "none"} :
          import' = [import EXCEPT ![i] = [import[i] EXCEPT !.at = "fetch", !.log = log]]
    BY <1>0, <1>3 DEF OpenRun, ImportInv, ImportShape
  <2>2. [import[i] EXCEPT !.at = "fetch", !.log = log] \in ImportRecord
    BY <1>0 DEF ImportRecord
  <2>3. [import[i] EXCEPT !.at = "fetch", !.log = log].at = "fetch"
    BY <1>0 DEF ImportRecord
  <2> QED BY <1>3, <2>1, <2>2, <2>3, RunMoves DEF OpenRun
<1>4. ASSUME NEW i \in Imports, FetchSheetRows(i) PROVE ImportInv'
  BY <1>4, FetchKeeps
<1>5. ASSUME NEW i \in Imports, Upsert(i) PROVE ImportInv'
  <2>1. import[i].at = "upsert" /\ UNCHANGED <<sheet, edits>>
    BY <1>5, UpsertCases
  <2>2. ASSUME UNCHANGED stored, NEW status \in {"ok", "error"},
               import' = [import EXCEPT ![i] = [import[i] EXCEPT !.at = "close", !.status = status]]
        PROVE  ImportInv'
    <3>1. /\ [import[i] EXCEPT !.at = "close", !.status = status] \in ImportRecord
          /\ [import[i] EXCEPT !.at = "close", !.status = status].at = "close"
      BY <1>0 DEF ImportRecord
    <3> QED BY <2>1, <2>2, <3>1, RunMoves
  <2> QED BY <1>5, <2>1, <2>2, UpsertCases, MergeKeeps
<1>6. ASSUME NEW i \in Imports, CloseRun(i) PROVE ImportInv'
  <2>1. PICK log \in {import[i].log, IF import[i].log = "none" THEN "none" ELSE import[i].status} :
          import' = [import EXCEPT ![i] = [import[i] EXCEPT !.at = "ended", !.log = log]]
    BY <1>0, <1>6 DEF CloseRun, ImportInv, ImportShape
  <2>2. log \in {"none", "running", "ok", "error"}
    BY <1>0 DEF ImportRecord
  <2>3. /\ [import[i] EXCEPT !.at = "ended", !.log = log] \in ImportRecord
        /\ [import[i] EXCEPT !.at = "ended", !.log = log].at = "ended"
    BY <1>0, <2>2 DEF ImportRecord
  <2> QED BY <1>6, <2>1, <2>3, RunMoves DEF CloseRun
<1>7. ASSUME NEW i \in Imports, RunDies(i) PROVE ImportInv'
  <2>1. import' = [import EXCEPT ![i] = [import[i] EXCEPT !.at = "died"]]
    BY <1>7 DEF RunDies, ImportInv, ImportShape
  <2>2. /\ [import[i] EXCEPT !.at = "died"] \in ImportRecord
        /\ [import[i] EXCEPT !.at = "died"].at = "died"
    BY <1>0 DEF ImportRecord
  <2> QED BY <1>7, <2>1, <2>2, RunMoves DEF RunDies
<1> QED BY <1>1, <1>2, <1>3, <1>4, <1>5, <1>6, <1>7 DEF ImportNext

\* Only an upsert lowers a version, and only one that has been overtaken.
LEMMA OnlyOvertakenLowers ==
    ASSUME ImportInv, [ImportNext]_importVars, NEW d \in Days, stored'[d] < stored[d]
    PROVE  /\ stored'[d] # 0
           /\ \E i \in Imports : import[i].overtaken /\ import[i].at = "upsert" /\ import'[i].at = "close"
<1>1. stored[d] \in Nat /\ stored' # stored
  BY DEF ImportInv, ImportShape
<1>2. PICK i \in Imports : Upsert(i)
  BY <1>1 DEF ImportNext, importVars, EditSheet, OpenRun, FetchSheetRows, CloseRun, RunDies
<1>3. import[i].at = "upsert" /\ Merges(i) /\ import[i] \in ImportRecord
  BY <1>1, <1>2, UpsertCases DEF ImportInv, ImportShape
<1>4. /\ import[i].rows \in RowSets /\ DOMAIN import[i].rows \subseteq Days
      /\ \A e \in DOMAIN import[i].rows : import[i].rows[e] \in Nat \ {0}
  BY <1>3, RowsHold DEF ImportRecord
<1>5. stored'[d] = IF d \in DOMAIN import[i].rows THEN import[i].rows[d] ELSE stored[d]
  BY <1>3 DEF Merges, Merged
<1>6. d \in DOMAIN import[i].rows /\ stored'[d] = import[i].rows[d]
  BY <1>1, <1>5
<1>7. import[i].overtaken
  BY <1>1, <1>3, <1>4, <1>6 DEF ImportInv, RowsAreCurrent
<1>8. import'[i].at = "close"
  <2>1. import'[i] = [import[i] EXCEPT !.at = "close", !.status = "ok"]
    BY <1>3 DEF Merges, Ends, ImportInv, ImportShape
  <2> QED BY <1>3, <2>1 DEF ImportRecord
<1> QED BY <1>3, <1>4, <1>6, <1>7, <1>8

(* A day once imported keeps figures, and goes back to an older version    *)
(* only when a run writes what it read before another run's upsert         *)
(* (src/workflows/hvac-thumbtack-import/stages, the upsert by source and   *)
(* day).                                                                   *)
THEOREM DaysStay == OperationsSpec => ImportedDaysStay
<1>1. OperationsInit => ImportInv
  BY ImportStarts DEF OperationsInit
<1>2. ImportInv /\ [OperationsNext]_operationVars => ImportInv'
  BY ImportSteps, OperationsApart
<1>3. ImportInv /\ [OperationsNext]_operationVars =>
        [\A d \in Days : stored'[d] < stored[d] =>
           /\ stored'[d] # 0
           /\ \E i \in Imports : import[i].overtaken /\ import[i].at = "upsert" /\ import'[i].at = "close"]_importVars
  BY OnlyOvertakenLowers, OperationsApart
<1> QED BY <1>1, <1>2, <1>3, PTL DEF OperationsSpec, ImportedDaysStay

-----------------------------------------------------------------------------
(* Sums. FoldFunction adds up along a recursive function on the subsets of *)
(* its domain. That there is such a function, and what it gives, follows   *)
(* by induction over the sizes of these subsets.                           *)

LEMMA NatInduct ==
    ASSUME NEW T \in SUBSET Nat, 0 \in T, \A n \in T : n + 1 \in T
    PROVE  T = Nat
<1>1. SUFFICES ASSUME Nat \ T # {} PROVE FALSE
  OBVIOUS
<1>2. PICK n \in Nat \ T : \A m \in Nat \ T : ~(<<m, n>> \in OpToRel(<, Nat))
  BY <1>1, NatLessThanWellFounded, WFMin
<1>3. \A m \in Nat : m < n => <<m, n>> \in OpToRel(<, Nat)
  BY DEF OpToRel
<1>4. n # 0 /\ n - 1 \in Nat /\ n - 1 < n
  OBVIOUS
<1>5. n - 1 \in T
  BY <1>2, <1>3, <1>4
<1>6. n - 1 + 1 \in T
  BY <1>5
<1> QED BY <1>4, <1>6

AnyOf(s) == CHOOSE x \in s : TRUE

SumStep(g, f, s) == IF s = {} THEN 0 ELSE f[AnyOf(s)] + g[s \ {AnyOf(s)}]

\* g adds up f over the subsets of S.
Sums(g, f, S) == g = [s \in SUBSET S |-> SumStep(g, f, s)]

Sum(f) == (CHOOSE g : Sums(g, f, DOMAIN f))[DOMAIN f]

LEMMA FoldIsSum == ASSUME NEW f PROVE FoldFunction(+, 0, f) = Sum(f)
BY DEF FoldFunction, FoldFunctionOnSet, MapThenFoldSet, AnyOf, Sum, Sums, SumStep

LEMMA OneLess ==
    ASSUME NEW S, IsFiniteSet(S), NEW s \in SUBSET S, s # {}
    PROVE  /\ AnyOf(s) \in s /\ s \ {AnyOf(s)} \in SUBSET S
           /\ Cardinality(s) \in Nat \ {0} /\ Cardinality(s \ {AnyOf(s)}) = Cardinality(s) - 1
<1>1. AnyOf(s) \in s
  BY DEF AnyOf
<1>2. IsFiniteSet(s)
  BY FS_Subset
<1>3. Cardinality(s) \in Nat /\ Cardinality(s) # 0
  BY <1>2, FS_CardinalityType, FS_EmptySet
<1>4. Cardinality(s \ {AnyOf(s)}) = Cardinality(s) - 1
  BY <1>1, <1>2, FS_RemoveElement
<1> QED BY <1>1, <1>3, <1>4

\* It holds for the subsets of each size, by induction, and so for all.
LEMMA SumsExists ==
    ASSUME NEW S, IsFiniteSet(S), NEW f
    PROVE  \E g : Sums(g, f, S)
<1> DEFINE UpTo(g, n) == \A s \in SUBSET S : Cardinality(s) <= n => g[s] = SumStep(g, f, s)
           Good == {n \in Nat : \E g : UpTo(g, n)}
<1>0. \A s \in SUBSET S : Cardinality(s) \in Nat /\ (Cardinality(s) = 0 => s = {})
  BY FS_Subset, FS_CardinalityType, FS_EmptySet
<1>1. 0 \in Good
  <2> DEFINE g == [s \in SUBSET S |-> 0]
  <2>1. UpTo(g, 0)
    BY <1>0 DEF SumStep
  <2> QED BY <2>1
<1>2. ASSUME NEW n \in Good PROVE n + 1 \in Good
  <2>1. PICK g : UpTo(g, n)
    OBVIOUS
  <2> DEFINE h == [s \in SUBSET S |-> IF Cardinality(s) <= n THEN g[s] ELSE SumStep(g, f, s)]
  <2>2. ASSUME NEW s \in SUBSET S, Cardinality(s) <= n + 1 PROVE h[s] = SumStep(h, f, s)
    <3>1. h[s] = SumStep(g, f, s)
      BY <2>1
    <3>2. CASE s = {}
      BY <3>1, <3>2 DEF SumStep
    <3>3. CASE s # {}
      <4>1. s \ {AnyOf(s)} \in SUBSET S /\ Cardinality(s \ {AnyOf(s)}) <= n
        BY <2>2, <3>3, OneLess
      <4>2. h[s \ {AnyOf(s)}] = g[s \ {AnyOf(s)}]
        BY <4>1
      <4> QED BY <3>1, <3>3, <4>2 DEF SumStep
    <3> QED BY <3>2, <3>3
  <2>3. UpTo(h, n + 1)
    BY <2>2
  <2>4. n + 1 \in Nat
    OBVIOUS
  <2> HIDE DEF UpTo, h
  <2>5. \E p : UpTo(p, n + 1)
    BY <2>3
  <2> QED BY <2>4, <2>5
<1>3. Good = Nat
  BY <1>1, <1>2, NatInduct
<1>4. PICK g : UpTo(g, Cardinality(S))
  BY <1>0, <1>3
<1>5. \A s \in SUBSET S : Cardinality(s) <= Cardinality(S)
  BY FS_Subset
<1> DEFINE h == [s \in SUBSET S |-> g[s]]
<1>6. ASSUME NEW s \in SUBSET S PROVE h[s] = SumStep(h, f, s)
  BY <1>4, <1>5, OneLess DEF SumStep
<1>7. h = [s \in SUBSET S |-> SumStep(h, f, s)]
  BY <1>6
<1> QED BY <1>7 DEF Sums

\* Changing one summand changes a sum by as much.
LEMMA SumChanges ==
    ASSUME NEW S, IsFiniteSet(S), NEW f \in [S -> Nat], NEW h \in [S -> Nat], NEW i \in S,
           \A k \in S \ {i} : h[k] = f[k]
    PROVE  Sum(f) \in Nat /\ Sum(h) = Sum(f) + h[i] - f[i]
<1> DEFINE F == CHOOSE g : Sums(g, f, S)
           H == CHOOSE g : Sums(g, h, S)
<1>1. Sums(F, f, S) /\ Sums(H, h, S)
  <2>1. \E g : Sums(g, f, S)
    BY SumsExists
  <2>2. \E g : Sums(g, h, S)
    BY SumsExists
  <2> QED BY <2>1, <2>2
<1>2. Sum(f) = F[S] /\ Sum(h) = H[S]
  BY DEF Sum
<1> HIDE DEF F, H
<1> DEFINE Off(s) == IF i \in s THEN h[i] - f[i] ELSE 0
           Good == {n \in Nat : \A s \in SUBSET S : Cardinality(s) = n => F[s] \in Nat /\ H[s] = F[s] + Off(s)}
<1>3. \A s \in SUBSET S : F[s] = SumStep(F, f, s) /\ H[s] = SumStep(H, h, s)
  BY <1>1 DEF Sums
<1>4. \A s \in SUBSET S : Cardinality(s) \in Nat /\ (Cardinality(s) = 0 <=> s = {})
  BY FS_Subset, FS_CardinalityType, FS_EmptySet
<1>5. 0 \in Good
  BY <1>3, <1>4 DEF SumStep
<1>6. ASSUME NEW n \in Good PROVE n + 1 \in Good
  <2> SUFFICES ASSUME NEW s \in SUBSET S, Cardinality(s) = n + 1
               PROVE  F[s] \in Nat /\ H[s] = F[s] + Off(s)
    OBVIOUS
  <2> DEFINE x == AnyOf(s)
             t == s \ {x}
  <2>1. n \in Nat
    OBVIOUS
  <2>0. s # {}
    BY <1>4, <2>1
  <2>2. x \in s /\ t \in SUBSET S /\ Cardinality(t) = n
    BY <2>0, <2>1, OneLess
  <2>3. F[s] = f[x] + F[t] /\ H[s] = h[x] + H[t]
    BY <1>3, <2>0 DEF SumStep
  <2>4. F[t] \in Nat /\ H[t] = F[t] + Off(t)
    BY <2>2
  <2> HIDE DEF x
  <2>5. f[x] \in Nat /\ h[x] \in Nat /\ f[i] \in Nat /\ h[i] \in Nat
    BY <2>2
  <2>6. CASE x = i
    BY <2>2, <2>3, <2>4, <2>5, <2>6
  <2>7. CASE x # i
    <3>1. h[x] = f[x] /\ (i \in t <=> i \in s)
      BY <2>2, <2>7
    <3> QED BY <2>3, <2>4, <2>5, <3>1
  <2> QED BY <2>6, <2>7
<1>7. Good = Nat
  BY <1>5, <1>6, NatInduct
<1>8. F[S] \in Nat /\ H[S] = F[S] + Off(S)
  BY <1>4, <1>7
<1> QED BY <1>2, <1>8

LEMMA SumType ==
    ASSUME NEW S, IsFiniteSet(S), NEW f \in [S -> Nat]
    PROVE  Sum(f) \in Nat /\ ((\A k \in S : f[k] = 0) => Sum(f) = 0)
<1> DEFINE F == CHOOSE g : Sums(g, f, S)
           None == \A k \in S : f[k] = 0
           Good == {n \in Nat : \A s \in SUBSET S : Cardinality(s) = n => F[s] \in Nat /\ (None => F[s] = 0)}
<1>1. Sums(F, f, S) /\ Sum(f) = F[S]
  BY SumsExists DEF Sum
<1> HIDE DEF F
<1>2. \A s \in SUBSET S : F[s] = SumStep(F, f, s)
  BY <1>1 DEF Sums
<1>3. \A s \in SUBSET S : Cardinality(s) \in Nat /\ (Cardinality(s) = 0 <=> s = {})
  BY FS_Subset, FS_CardinalityType, FS_EmptySet
<1>4. 0 \in Good
  BY <1>2, <1>3 DEF SumStep
<1>5. ASSUME NEW n \in Good PROVE n + 1 \in Good
  <2> SUFFICES ASSUME NEW s \in SUBSET S, Cardinality(s) = n + 1
               PROVE  F[s] \in Nat /\ (None => F[s] = 0)
    OBVIOUS
  <2> DEFINE x == AnyOf(s)
             t == s \ {x}
  <2>1. n \in Nat
    OBVIOUS
  <2>2. s # {}
    BY <1>3, <2>1
  <2>3. x \in s /\ t \in SUBSET S /\ Cardinality(t) = n
    BY <2>1, <2>2, OneLess
  <2>4. F[s] = f[x] + F[t]
    BY <1>2, <2>2 DEF SumStep
  <2>5. F[t] \in Nat /\ (None => F[t] = 0)
    BY <2>3
  <2>6. f[x] \in Nat /\ (None => f[x] = 0)
    BY <2>3
  <2> QED BY <2>4, <2>5, <2>6
<1>6. Good = Nat
  BY <1>4, <1>5, NatInduct
<1> QED BY <1>1, <1>3, <1>6

-----------------------------------------------------------------------------
(* The scheduled reports. Publishing is the last stage of every workflow,  *)
(* so a job that still runs has posted no more often than its saves have   *)
(* thrown; and while a stage runs that no other job's call overlapped, the *)
(* token counter is at zero.                                               *)

Figures == [day : Int \union {Absent}, mtd : Int \union {Absent}]

JobRecord ==
    [at : {"unfired", "ready", "inside", "completed", "failed", "lost"}, instance : Instances \union {Absent},
     stage : Nat, attempt : Nat, figures : Figures, hasAny : BOOLEAN, posted : Nat, booked : Nat,
     calls : Nat, shared : BOOLEAN, unsaved : Nat]

\* The figures f, where i shows them, are not better than the business was.
Fits(i, f) == NotOverstated(i, f, EvenWindows(i))

JobSound(r) ==
    /\ r.stage \in 1 .. Len(StagesOf(r.instance))
    /\ r.posted <= 1 + r.unsaved
    /\ r.at \in {"ready", "inside"} => r.posted <= r.unsaved
    /\ Fits(r.instance, r.figures)
    /\ ~r.shared => r.booked = r.calls
    /\ r.at = "unfired" => r.booked = 0

ReportsShape ==
    /\ today \in DaysOfMonth /\ sessionUsage \in Nat /\ spent \in Nat
    /\ job \in [Firings -> JobRecord] /\ workspace \in [Instances -> Figures]

CounterIsClear == \A j \in Firings : job[j].at = "inside" /\ ~job[j].shared => sessionUsage = 0

Bookings == [j \in Firings |-> job[j].booked]

\* What is booked and what the counter holds are calls that were answered.
UsageIsSpent == Sum(Bookings) + sessionUsage <= spent

ReportsInv ==
    /\ ReportsShape
    /\ \A j \in Firings : JobSound(job[j])
    /\ \A i \in Instances : Fits(i, workspace[i])
    /\ CounterIsClear
    /\ UsageIsSpent

\* What a running stage may hand to StageReturns or StageThrows.
Mid(j, r) ==
    /\ r.at = "inside" /\ r.stage \in 1 .. Len(StagesOf(r.instance))
    /\ r.posted <= r.unsaved \/ (r.posted <= 1 + r.unsaved /\ r.stage = Len(StagesOf(r.instance)))
    /\ Fits(r.instance, r.figures)
    /\ r.shared = job[j].shared /\ r.booked = job[j].booked /\ r.calls = job[j].calls

LEMMA StageFacts ==
    \A i : /\ Len(StagesOf(i)) \in {2, 4}
           /\ \A s \in 1 .. Len(StagesOf(i)) : StagesOf(i)[s] = "slack-publish" => s = Len(StagesOf(i))
BY DEF StagesOf

LEMMA FiringsAreFinite == IsFiniteSet(Firings)
BY ScheduledAssumption, FS_Interval DEF Firings

LEMMA NoFiguresHold == NoFigures \in Figures /\ \A i : Fits(i, NoFigures)
BY DEF NoFigures, Figures, Fits, NotOverstated, EvenWindows

LEMMA UnfiredHolds == Unfired \in JobRecord /\ Unfired.at = "unfired" /\ JobSound(Unfired)
<1>1. Unfired \in JobRecord
  BY NoFiguresHold DEF Unfired, JobRecord
<1> QED BY <1>1, NoFiguresHold, StageFacts DEF Unfired, JobSound

LEMMA ReportsStart == ReportsInit => ReportsInv
<1> SUFFICES ASSUME ReportsInit PROVE ReportsInv
  OBVIOUS
<1>1. Bookings \in [Firings -> {0}]
  BY DEF ReportsInit, Bookings, Unfired
<1>2. Sum(Bookings) = 0
  BY <1>1, FiringsAreFinite, SumType
<1>3. UsageIsSpent
  BY <1>2 DEF ReportsInit, UsageIsSpent
<1> QED BY <1>3, UnfiredHolds, NoFiguresHold DEF ReportsInit, ReportsInv, ReportsShape, CounterIsClear

\* Bookings change at one job at most, by what was spent or taken from the counter.
LEMMA UsageMoves ==
    ASSUME ReportsInv, NEW j \in Firings, job' \in [Firings -> JobRecord],
           \A k \in Firings \ {j} : job'[k].booked = job[k].booked, sessionUsage' \in Nat, spent' \in Nat,
           job'[j].booked + sessionUsage' + spent <= job[j].booked + sessionUsage + spent'
    PROVE  UsageIsSpent'
<1>1. Bookings \in [Firings -> Nat] /\ Bookings' \in [Firings -> Nat]
  BY DEF ReportsInv, ReportsShape, Bookings, JobRecord
<1>2. Bookings[j] = job[j].booked /\ Bookings'[j] = job'[j].booked /\ \A k \in Firings \ {j} : Bookings'[k] = Bookings[k]
  BY DEF Bookings
<1>3. PICK f \in [Firings -> Nat], g \in [Firings -> Nat] : f = Bookings /\ g = Bookings'
  BY <1>1
<1>4. Sum(f) \in Nat /\ Sum(g) = Sum(f) + g[j] - f[j]
  BY <1>2, <1>3, FiringsAreFinite, SumChanges
<1>5. Sum(f) + sessionUsage <= spent /\ sessionUsage \in Nat /\ spent \in Nat
  BY <1>3 DEF ReportsInv, ReportsShape, UsageIsSpent
<1>6. f[j] = job[j].booked /\ g[j] = job'[j].booked /\ f[j] \in Nat /\ g[j] \in Nat
  BY <1>2, <1>3
<1>7. Sum(g) + sessionUsage' <= spent'
  BY <1>4, <1>5, <1>6
<1> QED BY <1>3, <1>7 DEF UsageIsSpent

LEMMA UsageStays ==
    ASSUME ReportsInv, \A k \in Firings : job'[k].booked = job[k].booked, sessionUsage' \in {0, sessionUsage},
           UNCHANGED spent
    PROVE  UsageIsSpent'
<1>1. Bookings' = Bookings
  BY DEF Bookings
<1>2. Sum(Bookings) \in Nat
  BY FiringsAreFinite, SumType DEF ReportsInv, ReportsShape, Bookings, JobRecord
<1>3. PICK n \in Nat : n = Sum(Bookings) /\ n = Sum(Bookings')
  BY <1>1, <1>2
<1>4. n + sessionUsage <= spent /\ sessionUsage \in Nat /\ spent \in Nat /\ 0 <= sessionUsage
  BY <1>3 DEF ReportsInv, ReportsShape, UsageIsSpent
<1>5. sessionUsage' \in Nat /\ sessionUsage' <= sessionUsage /\ spent' = spent
  BY <1>4
<1>6. n + sessionUsage' <= spent'
  <2>1. \A a, b, c \in Nat : a <= b /\ n + b <= c => n + a <= c
    OBVIOUS
  <2> QED BY <1>4, <1>5, <2>1
<1> QED BY <1>3, <1>6 DEF UsageIsSpent

\* Records that a step derives from others.
LEMMA LostFields ==
    ASSUME NEW r \in JobRecord, JobSound(r)
    PROVE  /\ Lost(r) \in JobRecord /\ Lost(r).at = "lost" /\ JobSound(Lost(r))
           /\ Lost(r).booked = r.booked
<1> DEFINE f == IF r.posted > 0 THEN r.figures ELSE NoFigures
<1>1. f \in Figures /\ Fits(r.instance, f)
  BY NoFiguresHold DEF JobRecord, JobSound
<1> HIDE DEF f
<1> DEFINE q == [r EXCEPT !.at = "lost", !.stage = 1, !.attempt = 0]
<1>2. /\ q \in JobRecord /\ q.at = "lost" /\ q.stage = 1 /\ q.instance = r.instance /\ q.figures = r.figures
      /\ q.posted = r.posted /\ q.unsaved = r.unsaved
      /\ q.shared = r.shared /\ q.booked = r.booked /\ q.calls = r.calls
  BY DEF JobRecord
<1>3. Lost(r) = [q EXCEPT !.figures = f]
  BY DEF Lost, JobRecord, f
<1> HIDE DEF q
<1>4. /\ Lost(r) \in JobRecord /\ Lost(r).at = "lost" /\ Lost(r).stage = 1
      /\ Lost(r).instance = r.instance /\ Lost(r).figures = f
      /\ Lost(r).posted = r.posted /\ Lost(r).unsaved = r.unsaved
      /\ Lost(r).shared = r.shared /\ Lost(r).booked = r.booked /\ Lost(r).calls = r.calls
  BY <1>1, <1>2, <1>3 DEF JobRecord
<1> QED BY <1>1, <1>4, StageFacts DEF JobSound

LEMMA RetriedFields ==
    ASSUME NEW r \in JobRecord
    PROVE  /\ Retried(r) \in JobRecord /\ Retried(r).at \in {"failed", "ready"} /\ Retried(r).stage = r.stage
           /\ Retried(r).instance = r.instance /\ Retried(r).figures = r.figures
           /\ Retried(r).posted = r.posted /\ Retried(r).unsaved = r.unsaved
           /\ Retried(r).shared = r.shared /\ Retried(r).booked = r.booked /\ Retried(r).calls = r.calls
BY DEF Retried, JobRecord

LEMMA AdvancedFields ==
    ASSUME NEW r \in JobRecord, r.stage \in 1 .. Len(StagesOf(r.instance))
    PROVE  /\ Advanced(r) \in JobRecord
           /\ \/ Advanced(r).at = "completed" /\ Advanced(r).stage = r.stage
              \/ /\ r.stage # Len(StagesOf(r.instance))
                 /\ Advanced(r).at = "ready" /\ Advanced(r).stage = r.stage + 1
           /\ Advanced(r).instance = r.instance /\ Advanced(r).figures = r.figures
           /\ Advanced(r).posted = r.posted /\ Advanced(r).unsaved = r.unsaved
           /\ Advanced(r).shared = r.shared /\ Advanced(r).booked = r.booked /\ Advanced(r).calls = r.calls
<1>1. r.stage \in Nat /\ r.stage + 1 \in Nat
  BY OneMore DEF JobRecord
<1>2. CASE r.stage = Len(StagesOf(r.instance))
  BY <1>2 DEF Advanced, JobRecord
<1>3. CASE r.stage # Len(StagesOf(r.instance))
  BY <1>1, <1>3 DEF Advanced, JobRecord
<1> QED BY <1>2, <1>3

\* The end of a stage of job j: the job is r, others overlapped its n calls.
LEMMA ProceedsKeeps ==
    ASSUME ReportsInv, NEW j \in Firings, NEW n \in {0, 1}, NEW r \in JobRecord, r.at # "inside", JobSound(r),
           Proceeds(j, r, n), sessionUsage' \in Nat, sessionUsage' = 0 \/ n = 1 \/ sessionUsage' = sessionUsage,
           r.booked + sessionUsage' <= job[j].booked + sessionUsage + n, UNCHANGED today, workspace' \in [Instances -> Figures],
           \A i \in Instances : Fits(i, workspace'[i])
    PROVE  ReportsInv'
<1>1. \A i, f : Fits(i, f)' <=> Fits(i, f)
  BY DEF Fits, NotOverstated, EvenWindows, Worth
<1>2. \A q : JobSound(q)' <=> JobSound(q)
  BY <1>1 DEF JobSound
<1>3. ASSUME NEW k \in Firings, k # j
      PROVE  /\ job'[k] \in JobRecord /\ JobSound(job'[k]) /\ job'[k].booked = job[k].booked
             /\ job'[k].at = "inside" /\ ~job'[k].shared => sessionUsage' = 0
  <2>1. job[k] \in JobRecord /\ JobSound(job[k])
    BY DEF ReportsInv, ReportsShape
  <2>2. CASE n = 1 /\ job[k].at = "inside"
    <3>1. job'[k] = [job[k] EXCEPT !.shared = TRUE]
      BY <1>3, <2>2 DEF Proceeds
    <3>2. /\ job'[k] \in JobRecord /\ job'[k].shared = TRUE /\ job'[k].at = job[k].at
          /\ job'[k].stage = job[k].stage /\ job'[k].instance = job[k].instance
          /\ job'[k].posted = job[k].posted /\ job'[k].unsaved = job[k].unsaved
          /\ job'[k].figures = job[k].figures /\ job'[k].booked = job[k].booked
      BY <2>1, <3>1 DEF JobRecord
    <3> QED BY <2>1, <3>2 DEF JobSound
  <2>3. CASE ~(n = 1 /\ job[k].at = "inside")
    <3>1. job'[k] = job[k]
      BY <1>3, <2>3 DEF Proceeds
    <3> QED BY <2>1, <2>3, <3>1 DEF ReportsInv, CounterIsClear
  <2> QED BY <2>2, <2>3
<1>4. job'[j] = r
  BY DEF Proceeds
<1>5. job' \in [Firings -> JobRecord]
  <2>1. job' = [k \in Firings |-> job'[k]]
    BY DEF Proceeds
  <2> QED BY <1>3, <1>4, <2>1
<1>11. spent \in Nat /\ sessionUsage \in Nat /\ spent' = spent + n /\ spent' \in Nat
  BY DEF Proceeds, ReportsInv, ReportsShape
<1>12. job[j].booked \in Nat /\ r.booked \in Nat
  BY DEF ReportsInv, ReportsShape, JobRecord
<1>13. r.booked + sessionUsage' + spent <= job[j].booked + sessionUsage + spent'
  BY <1>11, <1>12
<1>14. UsageIsSpent'
  BY <1>3, <1>4, <1>5, <1>11, <1>13, UsageMoves
<1>6. ReportsShape'
  BY <1>5, <1>11 DEF ReportsInv, ReportsShape
<1>7. \A k \in Firings : JobSound(job'[k])
  BY <1>3, <1>4
<1>8. (\A k \in Firings : JobSound(job[k]))'
  BY <1>2, <1>7
<1>9. (\A i \in Instances : Fits(i, workspace[i]))'
  BY <1>1
<1>10. CounterIsClear'
  BY <1>3, <1>4 DEF CounterIsClear
<1> QED BY <1>6, <1>8, <1>9, <1>10, <1>14 DEF ReportsInv

LEMMA ThrowsKeep ==
    ASSUME ReportsInv, NEW j \in Firings, NEW n \in {0, 1}, job[j] \in JobRecord, job[j].at = "inside",
           StageThrows(j, job[j], n), UNCHANGED workspace
    PROVE  ReportsInv'
<1> DEFINE r == Retried(job[j])
<1>1. /\ r \in JobRecord /\ r.at \in {"failed", "ready"} /\ r.stage = job[j].stage
      /\ r.instance = job[j].instance /\ r.figures = job[j].figures
      /\ r.posted = job[j].posted /\ r.unsaved = job[j].unsaved
      /\ r.shared = job[j].shared /\ r.booked = job[j].booked /\ r.calls = job[j].calls
  BY RetriedFields
<1>2. Proceeds(j, r, n) /\ UNCHANGED today
  BY DEF StageThrows
<1> HIDE DEF r
<1>3. JobSound(r)
  BY <1>1 DEF ReportsInv, JobSound
<1>4. sessionUsage' \in Nat /\ (n = 1 \/ sessionUsage' = sessionUsage)
  BY DEF StageThrows, ReportsInv, ReportsShape
<1>5. /\ workspace' \in [Instances -> Figures]
      /\ \A i \in Instances : Fits(i, workspace'[i])
  BY DEF ReportsInv, ReportsShape
<1>6. r.booked + sessionUsage' <= job[j].booked + sessionUsage + n
  <2>1. job[j].booked \in Nat /\ sessionUsage \in Nat /\ sessionUsage' = sessionUsage + n
    BY DEF StageThrows, ReportsInv, ReportsShape, JobRecord
  <2> QED BY <1>1, <2>1
<1> QED BY <1>1, <1>2, <1>3, <1>4, <1>5, <1>6, ProceedsKeeps

LEMMA ReturnsKeep ==
    ASSUME ReportsInv, NEW j \in Firings, NEW n \in {0, 1}, job[j].at = "inside", NEW r \in JobRecord, Mid(j, r),
           StageReturns(j, r, n), workspace' \in [Instances -> Figures],
           \A i \in Instances : Fits(i, workspace'[i])
    PROVE  ReportsInv'
<1> DEFINE booked == [r EXCEPT !.booked = r.booked + sessionUsage + n, !.calls = r.calls + n]
           again  == [booked EXCEPT !.unsaved = booked.unsaved + 1]
<1>0. /\ r.booked \in Nat /\ r.calls \in Nat /\ r.unsaved \in Nat /\ r.posted \in Nat /\ r.shared \in BOOLEAN
      /\ sessionUsage \in Nat /\ r.stage \in Nat
  BY DEF JobRecord, ReportsInv, ReportsShape
<1>1. /\ sessionUsage' = 0 /\ UNCHANGED today
      /\ Proceeds(j, Advanced(booked), n) \/ Proceeds(j, Retried(again), n)
  BY DEF StageReturns, GetAndResetUsage
<1>2. r.booked + sessionUsage + n \in Nat /\ r.calls + n \in Nat /\ r.unsaved + 1 \in Nat
  BY <1>0
<1>3. /\ booked \in JobRecord /\ booked.at = r.at /\ booked.stage = r.stage /\ booked.instance = r.instance
      /\ booked.figures = r.figures /\ booked.posted = r.posted /\ booked.unsaved = r.unsaved
      /\ booked.shared = r.shared /\ booked.booked = r.booked + sessionUsage + n /\ booked.calls = r.calls + n
  BY <1>2 DEF JobRecord
<1> HIDE DEF booked
<1>4. /\ again \in JobRecord /\ again.at = r.at /\ again.stage = r.stage /\ again.instance = r.instance
      /\ again.figures = r.figures /\ again.posted = r.posted /\ again.unsaved = r.unsaved + 1
      /\ again.shared = r.shared /\ again.booked = booked.booked /\ again.calls = booked.calls
  BY <1>2, <1>3 DEF JobRecord
<1> HIDE DEF again
<1>5. ~r.shared => booked.booked = booked.calls
  <2> SUFFICES ASSUME ~r.shared PROVE booked.booked = booked.calls
    OBVIOUS
  <2>1. ~job[j].shared /\ r.booked = job[j].booked /\ r.calls = job[j].calls
    BY DEF Mid
  <2>2. sessionUsage = 0 /\ job[j].booked = job[j].calls
    BY <2>1 DEF ReportsInv, CounterIsClear, JobSound
  <2> QED BY <1>0, <1>3, <2>1, <2>2
<1>8. booked.booked + sessionUsage' <= job[j].booked + sessionUsage + n
  <2>1. r.booked = job[j].booked /\ job[j].booked \in Nat
    BY <1>0 DEF Mid
  <2> QED BY <1>0, <1>1, <1>3, <2>1
<1>6. CASE Proceeds(j, Advanced(booked), n)
  <2> DEFINE q == Advanced(booked)
  <2>1. booked.stage \in 1 .. Len(StagesOf(booked.instance))
    BY <1>3 DEF Mid
  <2>2. /\ q \in JobRecord
        /\ \/ q.at = "completed" /\ q.stage = booked.stage
           \/ /\ booked.stage # Len(StagesOf(booked.instance))
              /\ q.at = "ready" /\ q.stage = booked.stage + 1
        /\ q.instance = booked.instance /\ q.figures = booked.figures
        /\ q.posted = booked.posted /\ q.unsaved = booked.unsaved
        /\ q.shared = booked.shared /\ q.booked = booked.booked /\ q.calls = booked.calls
    BY <1>3, <2>1, AdvancedFields
  <2> HIDE DEF q
  <2>3. q.stage \in 1 .. Len(StagesOf(q.instance))
    BY <2>1, <2>2, StageFacts
  <2>4. q.posted <= 1 + q.unsaved /\ (q.at \in {"ready", "inside"} => q.posted <= q.unsaved)
    BY <1>0, <1>3, <2>2 DEF Mid
  <2>5. JobSound(q) /\ q.at # "inside"
    BY <1>3, <1>5, <2>2, <2>3, <2>4 DEF JobSound, Mid
  <2>6. Proceeds(j, q, n)
    BY <1>6 DEF q
  <2> QED BY <1>1, <1>8, <2>2, <2>5, <2>6, ProceedsKeeps
<1>7. CASE Proceeds(j, Retried(again), n)
  <2> DEFINE q == Retried(again)
  <2>1. /\ q \in JobRecord /\ q.at \in {"failed", "ready"} /\ q.stage = again.stage
        /\ q.instance = again.instance /\ q.figures = again.figures
        /\ q.posted = again.posted /\ q.unsaved = again.unsaved
        /\ q.shared = again.shared /\ q.booked = again.booked /\ q.calls = again.calls
    BY <1>4, RetriedFields
  <2> HIDE DEF q
  <2>2. q.posted <= q.unsaved
    BY <1>0, <1>4, <2>1 DEF Mid
  <2>3. q.unsaved \in Nat /\ q.posted \in Nat
    BY <2>1 DEF JobRecord
  <2>4. JobSound(q) /\ q.at # "inside"
    BY <1>3, <1>4, <1>5, <2>1, <2>2, <2>3 DEF JobSound, Mid
  <2>5. Proceeds(j, q, n)
    BY <1>7 DEF q
  <2> QED BY <1>1, <1>4, <1>8, <2>1, <2>4, <2>5, ProceedsKeeps
<1> QED BY <1>1, <1>6, <1>7

\* A profit is at most what the revenues may be less the spend, and unknown
\* when the spend is.
LEMMA ProfitBound ==
    ASSUME NEW a \in Nat, NEW b \in Nat, NEW c \in Nat,
           NEW thumbtack \in SUBSET (0 .. a \union {Absent}), NEW ringba \in SUBSET (0 .. b \union {Absent}),
           NEW spend \in SUBSET {c, Absent}, NEW p \in Profits(thumbtack, ringba, spend)
    PROVE  p \in Int \union {Absent} /\ (p # Absent => p <= a + b - c)
<1>1. PICK t \in thumbtack, r \in ringba, s \in spend : p = ComputePL(CombineRevenue(t, r), s)
  BY DEF Profits
<1> DEFINE revenue == CombineRevenue(t, r)
<1>2. /\ t \in 0 .. a \/ t = Absent
      /\ r \in 0 .. b \/ r = Absent
      /\ s = c \/ s = Absent
  OBVIOUS
<1>3. OrZero(t) \in 0 .. a /\ OrZero(r) \in 0 .. b
  BY <1>2 DEF OrZero
<1>4. revenue = Absent \/ revenue \in 0 .. (a + b)
  BY <1>3 DEF CombineRevenue
<1> HIDE DEF revenue
<1>5. p = IF revenue = Absent \/ s = Absent THEN Absent ELSE revenue - s
  BY <1>1 DEF revenue, ComputePL
<1> QED BY <1>2, <1>4, <1>5, ScheduledAssumption

LEMMA WindowSizes ==
    ASSUME NEW d \in 1 .. 31
    PROVE  /\ Cardinality(Mtd(d)) = d /\ Cardinality(Mtd(d - 1)) = d - 1
           /\ Cardinality(Yesterday(d)) = 1 /\ Cardinality({d}) = 1 /\ Mtd(1 - 1) = {}
<1>1. \A n \in 0 .. 31 : Cardinality(1 .. n) = n
  <2> SUFFICES ASSUME NEW n \in 0 .. 31 PROVE Cardinality(1 .. n) = n
    OBVIOUS
  <2>1. Cardinality(1 .. n) = IF 1 > n THEN 0 ELSE n - 1 + 1
    BY FS_Interval
  <2> QED BY <2>1
<1>2. Cardinality(Mtd(d)) = d /\ Cardinality(Mtd(d - 1)) = d - 1
  <2>1. d \in 0 .. 31 /\ d - 1 \in 0 .. 31
    OBVIOUS
  <2>2. Cardinality(1 .. d) = d
    BY <1>1, <2>1
  <2>3. Cardinality(1 .. (d - 1)) = d - 1
    BY <1>1, <2>1
  <2> QED BY <2>2, <2>3 DEF Mtd
<1>3. Cardinality(Yesterday(d)) = 1 /\ Cardinality({d}) = 1
  BY FS_Singleton DEF Yesterday
<1>4. Mtd(1 - 1) = {}
  BY DEF Mtd
<1> QED BY <1>2, <1>3, <1>4

\* What the sources may answer for a window of n days.
LEMMA SourceBounds ==
    ASSUME NEW w, NEW n \in Nat, Cardinality(w) = n
    PROVE  /\ FetchThumbtack(w) \subseteq 0 .. n \union {Absent}
           /\ GetCampaignRevenue(w) \subseteq 0 .. n \union {Absent}
           /\ GetAdAccountSpend(w) \subseteq {n, Absent}
BY DEF FetchThumbtack, GetCampaignRevenue, GetAdAccountSpend

LEMMA HvacFigures ==
    ASSUME ReportsInv,
           NEW day \in Profits(FetchThumbtack(Yesterday(today)), GetCampaignRevenue(Yesterday(today)),
                               GetAdAccountSpend(Yesterday(today))),
           NEW mtd \in Profits(FetchThumbtack(Mtd(today - 1)), GetCampaignRevenue(Mtd(today)),
                               GetAdAccountSpend(Mtd(today - 1)))
    PROVE  [day |-> day, mtd |-> mtd] \in Figures /\ Fits(Hvac, [day |-> day, mtd |-> mtd])
<1>1. today \in 1 .. 31
  BY ScheduledAssumption DEF ReportsInv, ReportsShape
<1>2. day \in Int \union {Absent} /\ (day # Absent => day <= 1 + 1 - 1)
  BY <1>1, WindowSizes, SourceBounds, ProfitBound
<1>3. today \in Nat /\ today - 1 \in Nat
  BY <1>1
<1>4. mtd \in Int \union {Absent} /\ (mtd # Absent => mtd <= (today - 1) + today - (today - 1))
  BY <1>1, <1>3, WindowSizes, SourceBounds, ProfitBound
<1>5. Worth(Hvac).day = 1 /\ EvenWindows(Hvac) = {"day"}
  BY DEF Worth, EvenWindows, Hvac, FinalExpense
<1>6. day # Absent => day <= 1
  BY <1>2
<1>7. [day |-> day, mtd |-> mtd] \in Figures
  BY <1>2, <1>4 DEF Figures
<1> QED BY <1>5, <1>6, <1>7 DEF Fits, NotOverstated, EvenWindows

LEMMA FinalExpenseFigures ==
    ASSUME ReportsInv,
           NEW day \in Profits({Absent}, GetCampaignRevenue({today}), GetAdAccountSpend({today})),
           NEW mtd \in Profits({Absent}, GetCampaignRevenue(Mtd(today)), GetAdAccountSpend(Mtd(today)))
    PROVE  /\ [day |-> day, mtd |-> mtd] \in Figures
           /\ Fits(FinalExpense, [day |-> day, mtd |-> mtd])
<1>1. today \in 1 .. 31
  BY ScheduledAssumption DEF ReportsInv, ReportsShape
<1>0. {Absent} \subseteq 0 .. 0 \union {Absent}
  OBVIOUS
<1>2. day \in Int \union {Absent} /\ (day # Absent => day <= 0 + 1 - 1)
  BY <1>0, <1>1, WindowSizes, SourceBounds, ProfitBound
<1>3. today \in Nat
  BY <1>1
<1>4. mtd \in Int \union {Absent} /\ (mtd # Absent => mtd <= 0 + today - today)
  BY <1>0, <1>1, <1>3, WindowSizes, SourceBounds, ProfitBound
<1> QED BY <1>1, <1>2, <1>4 DEF Figures, Fits, NotOverstated, EvenWindows, Worth, Hvac, FinalExpense

LEMMA U65Figures ==
    ASSUME ReportsInv, NEW revenue \in GetCampaignRevenue(Mtd(today))
    PROVE  /\ [day |-> Absent, mtd |-> revenue] \in Figures
           /\ Fits(U65, [day |-> Absent, mtd |-> revenue])
<1>1. today \in 1 .. 31
  BY ScheduledAssumption DEF ReportsInv, ReportsShape
<1>2. revenue \in 0 .. today \union {Absent}
  BY <1>1, WindowSizes, SourceBounds
<1> QED BY <1>1, <1>2 DEF Figures, Fits, NotOverstated, EvenWindows, Worth, Hvac, FinalExpense, U65

\* Collecting hands over the job with new figures and may write the workspace.
LEMMA CollectedKeeps ==
    ASSUME ReportsInv, NEW j \in Firings, NEW i \in Instances, NEW s, Inside(j, i, s), NEW f \in Figures,
           Fits(i, f), Collected(j, f)
    PROVE  ReportsInv'
<1>0. job[j] \in JobRecord /\ JobSound(job[j]) /\ job[j].at = "inside" /\ job[j].instance = i
  BY DEF ReportsInv, ReportsShape, Inside
<1> DEFINE r == [job[j] EXCEPT !.figures = f]
<1>1. /\ r \in JobRecord /\ r.figures = f /\ r.at = "inside" /\ r.stage = job[j].stage /\ r.instance = i
      /\ r.posted = job[j].posted /\ r.unsaved = job[j].unsaved
      /\ r.shared = job[j].shared /\ r.booked = job[j].booked /\ r.calls = job[j].calls
  BY <1>0 DEF JobRecord
<1>2. /\ StageReturns(j, r, 0)
      /\ workspace' = [workspace EXCEPT ![i] = f] \/ workspace' = workspace
  BY <1>0 DEF Collected, WriteWorkspaceSnapshot
<1> HIDE DEF r
<1>3. Mid(j, r)
  BY <1>0, <1>1 DEF Mid, JobSound
<1>4. workspace' \in [Instances -> Figures] /\ \A k \in Instances : Fits(k, workspace'[k])
  <2>1. workspace \in [Instances -> Figures] /\ \A k \in Instances : Fits(k, workspace[k])
    BY DEF ReportsInv, ReportsShape
  <2>2. CASE workspace' = workspace
    BY <2>1, <2>2
  <2>3. CASE workspace' = [workspace EXCEPT ![i] = f]
    <3>1. workspace' \in [Instances -> Figures] /\ workspace'[i] = f
      BY <2>1, <2>3
    <3>2. \A k \in Instances \ {i} : workspace'[k] = workspace[k]
      BY <2>1, <2>3
    <3> QED BY <2>1, <3>1, <3>2
  <2> QED BY <1>2, <2>2, <2>3
<1> QED BY <1>0, <1>1, <1>2, <1>3, <1>4, ReturnsKeep

LEMMA CollectKeeps ==
    ASSUME ReportsInv, NEW j \in Firings, CollectHvac(j) \/ CollectFinalExpense(j) \/ CollectU65(j)
    PROVE  ReportsInv'
<1>0. job[j] \in JobRecord /\ {Hvac, FinalExpense, U65} \subseteq Instances
  BY DEF ReportsInv, ReportsShape, Instances
<1>1. ASSUME Inside(j, Hvac, "data-collection") \/ Inside(j, FinalExpense, "data-collection"),
             StageThrows(j, job[j], 0), UNCHANGED workspace
      PROVE  ReportsInv'
  BY <1>0, <1>1, ThrowsKeep DEF Inside
<1>2. CASE CollectHvac(j)
  <2>1. ASSUME NEW day \in Profits(FetchThumbtack(Yesterday(today)), GetCampaignRevenue(Yesterday(today)),
                                   GetAdAccountSpend(Yesterday(today))),
               NEW mtd \in Profits(FetchThumbtack(Mtd(today - 1)), GetCampaignRevenue(Mtd(today)),
                                   GetAdAccountSpend(Mtd(today - 1))),
               Inside(j, Hvac, "data-collection"), Collected(j, [day |-> day, mtd |-> mtd])
        PROVE  ReportsInv'
    BY <1>0, <2>1, HvacFigures, CollectedKeeps
  <2> QED BY <1>1, <1>2, <2>1 DEF CollectHvac
<1>3. CASE CollectFinalExpense(j)
  <2>1. ASSUME NEW day \in Profits({Absent}, GetCampaignRevenue({today}), GetAdAccountSpend({today})),
               NEW mtd \in Profits({Absent}, GetCampaignRevenue(Mtd(today)), GetAdAccountSpend(Mtd(today))),
               Inside(j, FinalExpense, "data-collection"), Collected(j, [day |-> day, mtd |-> mtd])
        PROVE  ReportsInv'
    BY <1>0, <2>1, FinalExpenseFigures, CollectedKeeps
  <2> QED BY <1>1, <1>3, <2>1 DEF CollectFinalExpense
<1>4. CASE CollectU65(j)
  <2>1. PICK revenue \in GetCampaignRevenue(Mtd(today)) : Collected(j, [day |-> Absent, mtd |-> revenue])
    BY <1>4 DEF CollectU65
  <2> QED BY <1>0, <1>4, <2>1, U65Figures, CollectedKeeps DEF CollectU65
<1> QED BY <1>2, <1>3, <1>4

\* A stage that returns or throws with the job as it is.
LEMMA SameJobReturns ==
    ASSUME ReportsInv, NEW j \in Firings, job[j].at = "inside", NEW n \in {0, 1}, UNCHANGED workspace,
           StageReturns(j, job[j], n) \/ StageThrows(j, job[j], n)
    PROVE  ReportsInv'
<1>1. /\ job[j] \in JobRecord /\ JobSound(job[j])
      /\ workspace' \in [Instances -> Figures] /\ \A i \in Instances : Fits(i, workspace'[i])
  BY DEF ReportsInv, ReportsShape
<1>2. Mid(j, job[j])
  BY <1>1 DEF Mid, JobSound
<1> QED BY <1>1, <1>2, ReturnsKeep, ThrowsKeep

LEMMA AskingKeeps ==
    ASSUME ReportsInv, NEW j \in Firings,
           \/ AnalyseHvac(j) \/ AnalyseFinalExpense(j) \/ AnalyseU65(j)
           \/ SummariseHvac(j) \/ SummariseFinalExpense(j) \/ SummariseU65(j)
    PROVE  ReportsInv'
<1>1. job[j].at = "inside" /\ ClaudeJSON(j) /\ UNCHANGED workspace
  BY DEF AnalyseHvac, AnalyseFinalExpense, AnalyseU65, SummariseHvac, SummariseFinalExpense, SummariseU65, Inside
<1> QED BY <1>1, SameJobReturns DEF ClaudeJSON

\* A publishing stage returns with one post more, or with none.
LEMMA PostsTold ==
    ASSUME NEW j, PublishReport(j), job[j] \in JobRecord
    PROVE  \E n \in {0, 1} : StageReturns(j, [job[j] EXCEPT !.posted = job[j].posted + n], 0)
<1>1. CASE StageReturns(j, job[j], 0)
  <2>1. job[j].posted + 0 = job[j].posted
    BY DEF JobRecord
  <2>2. job[j] = [job[j] EXCEPT !.posted = job[j].posted + 0]
    BY <2>1 DEF JobRecord
  <2> QED BY <1>1, <2>2
<1>2. CASE \E post \in PostToSlack : PostedStage(j, post)
  <2>1. PICK post \in PostToSlack : StageReturns(j, [job[j] EXCEPT !.posted = job[j].posted + post.posts], 0)
    BY <1>2 DEF PostedStage, Tell
  <2>2. post.posts \in {0, 1}
    BY DEF PostToSlack
  <2> QED BY <2>1, <2>2
<1> QED BY <1>1, <1>2 DEF PublishReport

\* A publishing stage is the last: what it posts is the one post of the job.
LEMMA PublishKeeps ==
    ASSUME ReportsInv, NEW j \in Firings, NEW i \in Instances, Inside(j, i, "slack-publish"), PublishReport(j),
           UNCHANGED workspace
    PROVE  ReportsInv'
<1>1. /\ job[j] \in JobRecord /\ JobSound(job[j]) /\ job[j].at = "inside"
      /\ workspace' \in [Instances -> Figures] /\ \A k \in Instances : Fits(k, workspace'[k])
  BY DEF ReportsInv, ReportsShape, Inside
<1>2. job[j].stage = Len(StagesOf(job[j].instance))
  BY <1>1, StageFacts DEF Inside, JobSound
<1>3. job[j].posted \in Nat /\ job[j].unsaved \in Nat /\ job[j].posted + 1 \in Nat
  BY <1>1, OneMore DEF JobRecord
<1>4. ASSUME NEW r, NEW p \in {job[j].posted, job[j].posted + 1},
             r = [job[j] EXCEPT !.posted = p], StageReturns(j, r, 0)
      PROVE  ReportsInv'
  <2>1. /\ r \in JobRecord /\ r.at = "inside" /\ r.stage = job[j].stage /\ r.instance = job[j].instance
        /\ r.posted = p /\ r.unsaved = job[j].unsaved /\ r.figures = job[j].figures
        /\ r.shared = job[j].shared /\ r.booked = job[j].booked /\ r.calls = job[j].calls
    BY <1>1, <1>3, <1>4 DEF JobRecord
  <2>2. p <= 1 + job[j].unsaved
    BY <1>1, <1>3 DEF JobSound
  <2>3. Mid(j, r)
    BY <1>1, <1>2, <2>1, <2>2 DEF Mid, JobSound
  <2> QED BY <1>1, <1>4, <2>1, <2>3, ReturnsKeep
<1>5. PICK n \in {0, 1} : StageReturns(j, [job[j] EXCEPT !.posted = job[j].posted + n], 0)
  BY <1>1, PostsTold
<1> QED BY <1>3, <1>4, <1>5

LEMMA WeatherKeeps == ASSUME ReportsInv, NEW j \in Firings, FetchAlerts(j) \/ PublishAlerts(j) PROVE ReportsInv'
<1>1. /\ job[j] \in JobRecord /\ JobSound(job[j]) /\ job[j].at = "inside" /\ UNCHANGED workspace
      /\ workspace' \in [Instances -> Figures] /\ \A k \in Instances : Fits(k, workspace'[k])
  BY DEF ReportsInv, ReportsShape, Inside, FetchAlerts, PublishAlerts
<1>2. ASSUME NEW any \in BOOLEAN, StageReturns(j, [job[j] EXCEPT !.hasAny = any], 0) PROVE ReportsInv'
  <2> DEFINE r == [job[j] EXCEPT !.hasAny = any]
  <2>1. /\ r \in JobRecord /\ r.at = "inside" /\ r.stage = job[j].stage /\ r.instance = job[j].instance
        /\ r.posted = job[j].posted /\ r.unsaved = job[j].unsaved /\ r.figures = job[j].figures
        /\ r.shared = job[j].shared /\ r.booked = job[j].booked /\ r.calls = job[j].calls
    BY <1>1 DEF JobRecord
  <2>2. StageReturns(j, r, 0)
    BY <1>2
  <2> HIDE DEF r
  <2>3. Mid(j, r)
    BY <1>1, <2>1 DEF Mid, JobSound
  <2> QED BY <1>1, <2>1, <2>2, <2>3, ReturnsKeep
<1>3. CASE FetchAlerts(j)
  BY <1>1, <1>2, <1>3, SameJobReturns DEF FetchAlerts
<1>4. CASE PublishAlerts(j)
  <2>1. Inside(j, Weather, "slack-publish") /\ Weather \in Instances
    BY <1>4 DEF PublishAlerts, Instances
  <2> QED BY <1>1, <1>4, <2>1, SameJobReturns, PublishKeeps DEF PublishAlerts
<1> QED BY <1>3, <1>4

\* A job that changes outside a stage; the counter is kept or reset.
LEMMA JobChanges ==
    ASSUME ReportsInv, NEW j \in Firings, NEW r \in JobRecord, JobSound(r), job' = [job EXCEPT ![j] = r],
           sessionUsage' = 0 \/ (sessionUsage' = sessionUsage /\ r.at # "inside"), r.booked = job[j].booked,
           UNCHANGED <<spent, today, workspace>>
    PROVE  ReportsInv'
<1>1. job' \in [Firings -> JobRecord] /\ job'[j] = r /\ \A k \in Firings \ {j} : job'[k] = job[k]
  BY DEF ReportsInv, ReportsShape
<1>2. ReportsShape'
  BY <1>1 DEF ReportsInv, ReportsShape
<1>3. \A i, f : Fits(i, f)' <=> Fits(i, f)
  BY DEF Fits, NotOverstated, EvenWindows, Worth
<1>4. \A q : JobSound(q)' <=> JobSound(q)
  BY <1>3 DEF JobSound
<1>5. \A k \in Firings : JobSound(job'[k])
  BY <1>1 DEF ReportsInv
<1>6. (\A k \in Firings : JobSound(job[k]))'
  BY <1>4, <1>5
<1>7. (\A i \in Instances : Fits(i, workspace[i]))'
  BY <1>3 DEF ReportsInv
<1>8. CounterIsClear'
  BY <1>1 DEF ReportsInv, CounterIsClear
<1>9. UsageIsSpent'
  BY <1>1, UsageStays
<1> QED BY <1>2, <1>6, <1>7, <1>8, <1>9 DEF ReportsInv

LEMMA StopKeeps == ASSUME ReportsInv, Stop PROVE ReportsInv'
<1>1. \A i, f : Fits(i, f)' <=> Fits(i, f)
  BY DEF Fits, NotOverstated, EvenWindows, Worth, Stop
<1>2. \A q : JobSound(q)' <=> JobSound(q)
  BY <1>1 DEF JobSound
<1>3. ASSUME NEW k \in Firings
      PROVE  job'[k] \in JobRecord /\ JobSound(job'[k]) /\ job'[k].booked = job[k].booked
  <2>1. job[k] \in JobRecord /\ JobSound(job[k])
    BY DEF ReportsInv, ReportsShape
  <2>2. job'[k] = job[k] \/ job'[k] = Lost(job[k])
    BY DEF Stop
  <2> QED BY <2>1, <2>2, LostFields
<1>4. job' = [k \in Firings |-> job'[k]]
  BY DEF Stop
<1>5. job' \in [Firings -> JobRecord]
  BY <1>3, <1>4
<1>6. ReportsShape'
  BY <1>5 DEF ReportsInv, ReportsShape, Stop
<1>7. (\A k \in Firings : JobSound(job[k]))'
  BY <1>2, <1>3
<1>8. (\A i \in Instances : Fits(i, workspace[i]))'
  BY <1>1 DEF ReportsInv, Stop
<1>9. CounterIsClear'
  BY DEF CounterIsClear, Stop
<1>10. UsageIsSpent'
  BY <1>3, UsageStays DEF Stop
<1> QED BY <1>6, <1>7, <1>8, <1>9, <1>10 DEF ReportsInv

LEMMA FireKeeps == ASSUME ReportsInv, NEW i \in Instances, Fire(i) PROVE ReportsInv'
<1>1. PICK j \in Firings, at \in {"ready", "lost"} :
          job[j].at = "unfired" /\ job' = [job EXCEPT ![j] = [Unfired EXCEPT !.at = at, !.instance = i]]
  BY DEF Fire, Trigger
<1> DEFINE r == [Unfired EXCEPT !.at = at, !.instance = i]
<1>2. /\ r \in JobRecord /\ r.at = at /\ r.stage = 1 /\ r.figures = NoFigures
      /\ r.posted = 0 /\ r.unsaved = 0 /\ r.booked = 0 /\ r.calls = 0 /\ r.instance = i
  BY UnfiredHolds, NoFiguresHold DEF Unfired, JobRecord
<1>3. job' = [job EXCEPT ![j] = r]
  BY <1>1
<1> HIDE DEF r
<1>4. r.stage \in 1 .. Len(StagesOf(r.instance)) /\ Fits(r.instance, r.figures)
  <2>1. Len(StagesOf(r.instance)) \in {2, 4}
    BY StageFacts
  <2>2. Fits(r.instance, r.figures)
    BY <1>2, NoFiguresHold
  <2>3. r.stage = 1
    BY <1>2
  <2>4. \A n \in {2, 4} : 1 \in 1 .. n
    OBVIOUS
  <2>5. r.stage \in 1 .. Len(StagesOf(r.instance))
    BY <2>1, <2>3, <2>4, Zenon
  <2> QED BY <2>2, <2>5
<1>5. JobSound(r) /\ r.at # "inside"
  BY <1>2, <1>4 DEF JobSound
<1>6. job[j].booked = r.booked
  BY <1>1, <1>2 DEF ReportsInv, JobSound
<1> QED BY <1>2, <1>3, <1>5, <1>6, JobChanges DEF Fire

LEMMA BeginKeeps == ASSUME ReportsInv, NEW j \in Firings, BeginAttempt(j) PROVE ReportsInv'
<1>1. /\ job[j] \in JobRecord /\ JobSound(job[j]) /\ job[j].at = "ready" /\ sessionUsage' = 0
      /\ UNCHANGED <<spent, today, workspace>>
  BY DEF ReportsInv, ReportsShape, BeginAttempt, GetAndResetUsage
<1>2. job[j].attempt \in Nat /\ job[j].attempt + 1 \in Nat
  BY <1>1, OneMore DEF JobRecord
<1> DEFINE r == [job[j] EXCEPT !.at = "inside", !.attempt = job[j].attempt + 1]
<1>3. /\ r \in JobRecord /\ r.at = "inside" /\ r.stage = job[j].stage /\ r.instance = job[j].instance
      /\ r.posted = job[j].posted /\ r.unsaved = job[j].unsaved /\ r.figures = job[j].figures
      /\ r.shared = job[j].shared /\ r.booked = job[j].booked /\ r.calls = job[j].calls
  BY <1>1, <1>2 DEF JobRecord
<1>4. job' = [job EXCEPT ![j] = r] \/ job' = [job EXCEPT ![j] = Lost(job[j])]
  BY DEF BeginAttempt, ReportsInv, ReportsShape
<1> HIDE DEF r
<1>5. JobSound(r)
  BY <1>1, <1>3 DEF JobSound
<1> QED BY <1>1, <1>3, <1>4, <1>5, LostFields, JobChanges

LEMMA ReportsSteps == ASSUME ReportsInv, [ReportsNext]_reportVars PROVE ReportsInv'
<1>1. CASE UNCHANGED <<job, sessionUsage, spent, today, workspace>>
  <2>1. \A i, f : Fits(i, f)' <=> Fits(i, f)
    BY <1>1 DEF Fits, NotOverstated, EvenWindows, Worth
  <2>2. \A q : JobSound(q)' <=> JobSound(q)
    BY <2>1 DEF JobSound
  <2>3. (\A k \in Firings : JobSound(job[k]))'
    BY <1>1, <2>2 DEF ReportsInv
  <2>4. (\A i \in Instances : Fits(i, workspace[i]))'
    BY <1>1, <2>1 DEF ReportsInv
  <2>5. UsageIsSpent'
    BY <1>1, UsageStays
  <2> QED BY <1>1, <2>3, <2>4, <2>5 DEF ReportsInv, ReportsShape, CounterIsClear
<1>2. CASE UNCHANGED reportVars \/ Start
  BY <1>1, <1>2 DEF reportVars, Start
<1>3. CASE Stop
  BY <1>3, StopKeeps
<1>4. ASSUME NEW i \in Instances, Fire(i) PROVE ReportsInv'
  BY <1>4, FireKeeps
<1>5. ASSUME NEW j \in Firings, BeginAttempt(j) PROVE ReportsInv'
  BY <1>5, BeginKeeps
<1>6. ASSUME NEW j \in Firings, CollectHvac(j) \/ CollectFinalExpense(j) \/ CollectU65(j) PROVE ReportsInv'
  BY <1>6, CollectKeeps
<1>7. ASSUME NEW j \in Firings,
             \/ AnalyseHvac(j) \/ AnalyseFinalExpense(j) \/ AnalyseU65(j)
             \/ SummariseHvac(j) \/ SummariseFinalExpense(j) \/ SummariseU65(j)
      PROVE  ReportsInv'
  BY <1>7, AskingKeeps
<1>8. ASSUME NEW j \in Firings, PublishHvac(j) \/ PublishFinalExpense(j) \/ PublishU65(j) PROVE ReportsInv'
  BY <1>8, PublishKeeps DEF PublishHvac, PublishFinalExpense, PublishU65, Instances
<1>9. ASSUME NEW j \in Firings, FetchAlerts(j) \/ PublishAlerts(j) PROVE ReportsInv'
  BY <1>9, WeatherKeeps
<1> QED BY <1>2, <1>3, <1>4, <1>5, <1>6, <1>7, <1>8, <1>9 DEF ReportsNext

LEMMA ReportsHold == OperationsSpec => []ReportsInv
<1>1. OperationsInit => ReportsInv
  BY ReportsStart DEF OperationsInit
<1>2. ReportsInv /\ [OperationsNext]_operationVars => ReportsInv'
  BY ReportsSteps, OperationsApart
<1> QED BY <1>1, <1>2, PTL DEF OperationsSpec

(* A job posts to Slack once more than its saves have thrown, at most      *)
(* (src/core/orchestrator.ts, the retry loop, and the slack-publish stages *)
(* of the reporting workflows).                                            *)
THEOREM ReportsPostOnce == OperationsSpec => []PostedOnce
<1>1. ReportsInv => PostedOnce
  BY DEF ReportsInv, JobSound, PostedOnce
<1> QED BY <1>1, ReportsHold, PTL

(* Whatever the sources leave out, on whatever day of the month, no figure *)
(* that is posted or shown is better than the business was (the            *)
(* data-collection stages and their computePL): yesterday's of hvac and    *)
(* both of the others. For the month of hvac it does not hold, see         *)
(* HvacMonthEndsYesterday.                                                 *)
THEOREM FiguresHold == OperationsSpec => []FiguresAreNotOverstated
<1>1. ReportsInv => FiguresAreNotOverstated
  BY DEF ReportsInv, JobSound, Fits, ShowsNoMore, FiguresAreNotOverstated
<1> QED BY <1>1, ReportsHold, PTL

(* Whatever jobs run side by side, fail, are retried or lost, what is      *)
(* booked on all of them are no more calls than Claude answered, and a job *)
(* that ran beside no other job's call is booked its own calls             *)
(* (src/core/claude-client.ts, getAndResetSessionUsage, and its uses in    *)
(* the retry loop of src/core/orchestrator.ts).                            *)
THEOREM TokensAreBooked == OperationsSpec => []TokensAreBookedOnce
<1>1. ReportsInv => TokensAreBookedOnce
  <2> SUFFICES ASSUME ReportsInv PROVE TokensAreBookedOnce
    OBVIOUS
  <2>1. OwnCallsBooked
    BY DEF ReportsInv, JobSound, OwnCallsBooked
  <2>2. Sum(Bookings) \in Nat
    BY FiringsAreFinite, SumType DEF ReportsInv, ReportsShape, Bookings, JobRecord
  <2>3. Sum(Bookings) <= spent
    BY <2>2 DEF ReportsInv, ReportsShape, UsageIsSpent
  <2>4. FoldFunction(+, 0, Bookings) = Sum(Bookings)
    BY FoldIsSum
  <2> QED BY <2>1, <2>3, <2>4 DEF TokensAreBookedOnce, Bookings
<1> QED BY <1>1, ReportsHold, PTL

-----------------------------------------------------------------------------
(* The dates that reports ask for. *)

(* Whichever instant and year of the century it is, each period's range is *)
(* right (PacificDates_proofs!RangesAreRight), in the daemon as by itself. *)
THEOREM DaemonRangesAreRight == OperationsSpec => []PeriodsHoldTheirDates
<1>1. OperationsInit => DatesInv
  BY DatesStart DEF OperationsInit
<1>2. DatesInv /\ [OperationsNext]_operationVars => DatesInv'
  BY DatesSteps, OperationsApart
<1> QED BY <1>1, <1>2, DatesHold, PTL DEF OperationsSpec

-----------------------------------------------------------------------------
(* Types. What the invariants above do not say already.                    *)

\* The token is "none", "good" or "revoked" after every step that moves it.
LEMMA TokenStaysTyped == ASSUME GraphTokenTypeOK, [OperationsNext]_operationVars PROVE GraphTokenTypeOK'
<1>1. graphToken \in {"none", "good", "revoked"}
  BY DEF GraphTokenTypeOK
<1>2. \A token \in AcquireGraphToken : token \in {"none", "good", "revoked"}
  BY <1>1 DEF AcquireGraphToken
<1>3. ASSUME NEW j \in NoticedJobs, NEW kind, Send(j, kind) PROVE graphToken' \in {"none", "good", "revoked"}
  BY <1>1, <1>2, <1>3 DEF Send, ClearGraphTokenCache
<1>4. ASSUME TokenEnds \/ OthersUseToken PROVE graphToken' \in {"none", "good", "revoked"}
  BY <1>4 DEF TokenEnds, OthersUseToken, ClearGraphTokenCache
<1>5. ASSUME NoticesNext PROVE graphToken' \in {"none", "good", "revoked"}
  BY <1>1, <1>3, <1>4, <1>5
     DEF NoticesNext, SendJobStarted, StartedSettles, SendApprovalRequest, SendFailure, SendCompletion,
         NoticeTokenChanges
<1>6. ASSUME PollEmail PROVE graphToken' \in {"none", "good", "revoked"}
  BY <1>2, <1>6 DEF PollEmail, ClearGraphTokenCache
<1>7. ASSUME IntakeNext PROVE graphToken' \in {"none", "good", "revoked"}
  BY <1>1, <1>4, <1>6, <1>7
     DEF IntakeNext, TaskChanges, MailArrives, TokenChanges, StartPolling, StopPolling, PollTimer, PollClickUp,
         Enqueue, SaveThrows, IntakeDies, ClearGraphTokenCache
<1>8. NoticesNext \/ IntakeNext \/ UNCHANGED graphToken
  BY DEF OperationsNext, operationVars, noticeVars, intakeVars
<1> QED BY <1>1, <1>5, <1>7, <1>8 DEF GraphTokenTypeOK

MailsTyped == mails \subseteq [job : NoticedJobs, kind : Kinds] /\ forgot \subseteq NoticedJobs

LEMMA MailsStayTyped ==
    ASSUME MailsTyped, NoticesNext \/ UNCHANGED <<noticed, threadTs, channel, mails, forgot>>
    PROVE  MailsTyped'
<1>1. ASSUME NEW j \in NoticedJobs, NEW kind \in Kinds, Send(j, kind)
      PROVE  mails' \subseteq [job : NoticedJobs, kind : Kinds]
  BY <1>1 DEF Send, MailsTyped
<1>2. {"started", "approval", "failure", "completion"} \subseteq Kinds
  BY DEF Kinds
<1>3. ASSUME NEW j \in NoticedJobs,
             SendJobStarted(j) \/ SendApprovalRequest(j) \/ SendFailure(j) \/ SendCompletion(j)
      PROVE  MailsTyped'
  <2>1. PICK kind \in Kinds : Send(j, kind)
    BY <1>2, <1>3 DEF SendJobStarted, SendApprovalRequest, SendFailure, SendCompletion
  <2>2. UNCHANGED forgot
    BY <1>3 DEF SendJobStarted, SendApprovalRequest, SendFailure, SendCompletion
  <2> QED BY <1>1, <2>1, <2>2 DEF MailsTyped
<1>4. ASSUME NEW j \in NoticedJobs, StartedSettles(j) PROVE MailsTyped'
  BY <1>4 DEF StartedSettles, MailsTyped
<1>5. CASE NoticeTokenChanges \/ UNCHANGED <<noticed, threadTs, channel, mails, forgot>>
  BY <1>5 DEF NoticeTokenChanges, MailsTyped
<1> QED BY <1>3, <1>4, <1>5 DEF NoticesNext

SheetTyped == doubled \subseteq Days /\ edits \in 0 .. MaxEdits

LEMMA SheetStaysTyped == ASSUME SheetTyped, [ImportNext]_importVars PROVE SheetTyped'
<1>1. MaxEdits \in Nat
  BY MalformedAssumption
<1>2. ASSUME NEW d \in Days, EditSheet(d) PROVE SheetTyped'
  BY <1>1, <1>2 DEF EditSheet, SheetTyped
<1> QED BY <1>2 DEF ImportNext, OpenRun, FetchSheetRows, Upsert, CloseRun, RunDies, importVars, SheetTyped

LEMMA ImportIsTyped == ASSUME ImportInv, SheetTyped PROVE ImportTypeOK
<1>1. MaxEdits \in Nat /\ edits \in 0 .. MaxEdits /\ Malformed \notin Nat
  BY MalformedAssumption DEF SheetTyped
<1>2. ASSUME NEW d \in Days PROVE stored[d] \in 0 .. MaxEdits /\ sheet[d] \in 0 .. MaxEdits \union {Malformed}
  <2>1. stored[d] \in Nat /\ stored[d] <= edits /\ sheet[d] \in Nat \union {Malformed}
    BY DEF ImportInv, ImportShape, CellsAreNewest
  <2>2. sheet[d] # Malformed => sheet[d] <= edits
    BY DEF ImportInv, CellsAreNewest
  <2> QED BY <1>1, <2>1, <2>2
<1>3. ASSUME NEW i \in Imports
      PROVE  /\ import[i].at \in {"unstarted", "fetch", "upsert", "close", "ended", "died"}
             /\ DOMAIN import[i].rows \subseteq Days
             /\ import[i].log \in {"none", "running", "ok", "error"}
             /\ import[i].status \in {"none", "ok", "error"}
  <2>1. import[i] \in ImportRecord
    BY DEF ImportInv, ImportShape
  <2>2. import[i].rows \in RowSets
    BY <2>1 DEF ImportRecord
  <2> QED BY <2>1, <2>2, RowsHold DEF ImportRecord
<1>4. stored \in [Days -> Nat] /\ sheet \in [Days -> Nat \union {Malformed}]
  BY DEF ImportInv, ImportShape
<1> QED BY <1>1, <1>2, <1>3, <1>4 DEF ImportTypeOK, SheetTyped

\* A request becomes one job more than there were polls whose marks were not
\* kept, at most: one less while it waits in the queue or is not marked.
RepeatsHaveLapses ==
    \A r \in Requests :
        /\ jobs[r] <= lapses + 1
        /\ r \in queue \/ ~Marked(r) => jobs[r] <= lapses
        /\ r \in queue /\ ~Marked(r) => jobs[r] + 1 <= lapses

PollerTyped ==
    /\ running \in BOOLEAN /\ poller \in {"off", "timer", "clickup", "clickup jobs", "email", "email jobs"}
    /\ dropped \subseteq Requests /\ lapsed \subseteq Requests /\ lapses \in 0 .. MaxLapses

LEMMA LapsesAreCounted ==
    ASSUME PollerTyped
    PROVE  lapses \in Nat /\ MaxLapses \in Nat /\ lapses <= MaxLapses /\ lapses + 1 \in Nat
<1>1. lapses \in 0 .. MaxLapses
  BY DEF PollerTyped
<1>2. MaxLapses \in Nat
  BY IntakeAssumption
<1> QED BY <1>1, <1>2

\* The loop's own variables, and its next place.
LEMMA PollingIsTyped ==
    ASSUME PollerTyped, NEW adapter \in {"clickup", "email"}, NEW q, Polling(adapter, q)
    PROVE  poller' \in {"off", "timer", "clickup", "clickup jobs", "email", "email jobs"}
<1>1. poller' \in {JobsOf(adapter), "email", PollEnded}
  <2>1. CASE q # {}
    BY <2>1 DEF Polling
  <2>2. CASE q = {}
    BY <2>2 DEF Polling
  <2> QED BY <2>1, <2>2
<1> QED BY <1>1 DEF JobsOf, PollEnded

LEMMA PollerStaysTyped ==
    ASSUME IntakeInv, PollerTyped,
           IntakeNext \/ UNCHANGED <<processed, openTasks, unread, received, running, poller, queue,
                                     jobs, dropped, lapsed, lapses>>
    PROVE  PollerTyped'
<1>1. /\ queue \subseteq Requests /\ Tasks \subseteq Requests /\ Mails \subseteq Requests
      /\ openTasks \subseteq Tasks /\ unread \subseteq Mails /\ LoadProcessed \subseteq Tasks
  BY MarkedWhere DEF IntakeInv, IntakeShape, Requests
<1>2. lapses < MaxLapses => lapses + 1 \in 0 .. MaxLapses
  BY LapsesAreCounted
<1>3. CASE PollClickUp
  <2> DEFINE new == openTasks \ LoadProcessed
  <2>1. PICK q : Polling("clickup", q)
    BY <1>3 DEF PollClickUp
  <2>2. lapsed' \subseteq lapsed \union LoadProcessed \union new /\ lapses' \in 0 .. MaxLapses
    BY <1>2, <1>3 DEF PollClickUp, SaveProcessed, PollerTyped
  <2>3. UNCHANGED <<running, dropped>>
    BY <1>3 DEF PollClickUp
  <2> QED BY <1>1, <2>1, <2>2, <2>3, PollingIsTyped DEF PollerTyped
<1>4. CASE PollEmail
  <2>1. PICK q : Polling("email", q)
    BY <1>4 DEF PollEmail
  <2>2. lapsed' \subseteq lapsed \union unread /\ lapses' \in 0 .. MaxLapses
    <3>1. ASSUME NEW page \in Pages, MarkAsRead(page)
          PROVE  lapsed' \subseteq lapsed \union unread /\ lapses' \in 0 .. MaxLapses
      <4>1. page \subseteq unread
        BY DEF Pages
      <4> QED BY <1>2, <3>1, <4>1 DEF MarkAsRead, PollerTyped
    <3> QED BY <1>4, <3>1 DEF PollEmail, PollerTyped
  <2>3. UNCHANGED <<running, dropped>>
    BY <1>4 DEF PollEmail
  <2> QED BY <1>1, <2>1, <2>2, <2>3, PollingIsTyped DEF PollerTyped
<1>5. ASSUME NEW r \in Requests, Enqueue(r) PROVE PollerTyped'
  <2>1. AdapterAtWork \in {"clickup", "email"} /\ Polling(AdapterAtWork, queue \ {r})
    BY <1>5 DEF Enqueue, AdapterAtWork
  <2> QED BY <1>5, <2>1, PollingIsTyped DEF Enqueue, PollerTyped
<1>6. CASE SaveThrows \/ IntakeDies
  BY <1>1, <1>6 DEF SaveThrows, IntakeDies, PollEnded, PollerTyped
<1>7. CASE StartPolling \/ StopPolling \/ PollTimer
  BY <1>7 DEF StartPolling, StopPolling, PollTimer, PollerTyped
<1>8. CASE (\E t \in Tasks : TaskChanges(t)) \/ (\E m \in Mails : MailArrives(m)) \/ TokenChanges
  BY <1>8 DEF TaskChanges, MailArrives, TokenChanges, PollerTyped
<1>9. CASE UNCHANGED <<processed, openTasks, unread, received, running, poller, queue, jobs, dropped, lapsed, lapses>>
  BY <1>9 DEF PollerTyped
<1> QED BY <1>3, <1>4, <1>5, <1>6, <1>7, <1>8, <1>9 DEF IntakeNext

\* A poll with its marks kept, or one more that lapsed.
LEMMA PollCounts ==
    ASSUME IntakeInv, PollerTyped, RepeatsHaveLapses, NEW new \in SUBSET Requests, queue' = new, UNCHANGED jobs,
           \A r \in new : ~Marked(r),
           \/ /\ lapses' = lapses /\ \A r \in new : Marked(r)'
              /\ \A r \in Requests \ new : Marked(r) => Marked(r)'
           \/ lapses' = lapses + 1
    PROVE  RepeatsHaveLapses'
<1> SUFFICES ASSUME NEW r \in Requests
             PROVE  /\ jobs[r] <= lapses' + 1
                    /\ r \in new \/ ~Marked(r)' => jobs[r] <= lapses'
                    /\ r \in new /\ ~Marked(r)' => jobs[r] + 1 <= lapses'
  BY DEF RepeatsHaveLapses
<1>1. jobs[r] \in Nat /\ lapses \in Nat
  BY LapsesAreCounted DEF IntakeInv, IntakeShape
<1>2. jobs[r] <= lapses + 1 /\ (~Marked(r) => jobs[r] <= lapses)
  BY DEF RepeatsHaveLapses
<1>3. CASE lapses' = lapses + 1
  BY <1>1, <1>2, <1>3
<1>4. CASE lapses' = lapses /\ (r \in new => Marked(r)') /\ (r \notin new => (Marked(r) => Marked(r)'))
  BY <1>1, <1>2, <1>4
<1> QED BY <1>3, <1>4

LEMMA ClickUpCounts == ASSUME IntakeInv, PollerTyped, RepeatsHaveLapses, PollClickUp PROVE RepeatsHaveLapses'
<1>1. /\ queue = {} /\ IntakeShape /\ UNCHANGED <<unread, received, jobs>>
      /\ LoadProcessed \subseteq Tasks /\ ToSet(received) \subseteq Mails /\ openTasks \subseteq Tasks
      /\ \A t \in Tasks : Marked(t) <=> t \in LoadProcessed
  BY MarkedWhere DEF PollClickUp, IntakeInv, QueueIsAtWork, IntakeShape
<1>2. \A r : Marked(r)' <=> r \in LoadProcessed' \/ r \in ToSet(received) \ unread
  BY <1>1 DEF Marked
<1>3. \A r : Marked(r) <=> r \in LoadProcessed \/ r \in ToSet(received) \ unread
  BY DEF Marked
<1>4. PICK new \in {{}, openTasks \ LoadProcessed} :
        /\ Polling("clickup", new)
        /\ (new = {} /\ UNCHANGED <<processed, lapses>>) \/ SaveProcessed(new)
  BY DEF PollClickUp
<1>5. queue' = new /\ new \in SUBSET Requests /\ \A r \in new : ~Marked(r)
  <2>1. queue' = new
    BY <1>4 DEF Polling
  <2> QED BY <1>1, <1>4, <2>1 DEF Requests
<1>6. \/ lapses' = lapses + 1
      \/ lapses' = lapses /\ LoadProcessed' = LoadProcessed \union new
  <2>1. CASE new = {} /\ UNCHANGED <<processed, lapses>>
    BY <2>1 DEF LoadProcessed
  <2>2. CASE /\ processed' = [readable |-> TRUE, ids |-> LoadProcessed \union new]
             /\ UNCHANGED lapses
    BY <2>2 DEF LoadProcessed
  <2> QED BY <1>4, <2>1, <2>2 DEF SaveProcessed, WithNew
<1> QED BY <1>1, <1>2, <1>3, <1>5, <1>6, PollCounts

LEMMA EmailCounts == ASSUME IntakeInv, PollerTyped, RepeatsHaveLapses, PollEmail PROVE RepeatsHaveLapses'
<1>1. /\ queue = {} /\ IntakeShape /\ UNCHANGED <<processed, received, jobs>>
      /\ unread \subseteq ToSet(received) /\ unread \subseteq Mails
      /\ \A m \in Mails : Marked(m) <=> m \in ToSet(received) \ unread
  BY MarkedWhere DEF PollEmail, IntakeInv, QueueIsAtWork, IntakeShape
<1>2. \A r : Marked(r)' <=> r \in LoadProcessed \/ r \in ToSet(received) \ unread'
  BY <1>1 DEF Marked, LoadProcessed
<1>3. \A r : Marked(r) <=> r \in LoadProcessed \/ r \in ToSet(received) \ unread
  BY DEF Marked
<1>4. ASSUME Polling("email", {}), UNCHANGED <<unread, lapses>> PROVE RepeatsHaveLapses'
  <2>1. queue' = {}
    BY <1>4 DEF Polling
  <2> QED BY <1>1, <1>2, <1>3, <1>4, <2>1, PollCounts
<1>5. ASSUME NEW page \in Pages, Polling("email", page), MarkAsRead(page) PROVE RepeatsHaveLapses'
  <2>1. queue' = page /\ page \subseteq unread
    BY <1>5 DEF Polling, Pages
  <2>2. page \in SUBSET Requests /\ \A r \in page : ~Marked(r)
    BY <1>1, <2>1 DEF Requests
  <2>3. lapses' = lapses + 1 \/ (lapses' = lapses /\ unread' = unread \ page)
    BY <1>5 DEF MarkAsRead
  <2> QED BY <1>1, <1>2, <1>3, <2>1, <2>2, <2>3, PollCounts
<1> QED BY <1>4, <1>5 DEF PollEmail

LEMMA EnqueueCounts ==
    ASSUME IntakeInv, PollerTyped, RepeatsHaveLapses, NEW r \in Requests, Enqueue(r)
    PROVE  RepeatsHaveLapses'
<1>1. r \in queue /\ queue' = queue \ {r} /\ jobs' = [jobs EXCEPT ![r] = jobs[r] + 1] /\ lapses' = lapses
  BY DEF Enqueue, Polling
<1>2. jobs \in [Requests -> Nat] /\ lapses \in Nat
  BY LapsesAreCounted DEF IntakeInv, IntakeShape
<1>3. jobs'[r] = jobs[r] + 1 /\ \A q \in Requests \ {r} : jobs'[q] = jobs[q]
  BY <1>1, <1>2
<1>4. \A q : Marked(q)' <=> Marked(q)
  BY DEF Enqueue, Marked, LoadProcessed
<1> SUFFICES ASSUME NEW q \in Requests
             PROVE  /\ jobs'[q] <= lapses + 1
                    /\ q \in queue' \/ ~Marked(q) => jobs'[q] <= lapses
                    /\ q \in queue' /\ ~Marked(q) => jobs'[q] + 1 <= lapses
  BY <1>1, <1>4 DEF RepeatsHaveLapses
<1>5. /\ jobs[q] <= lapses + 1
      /\ q \in queue \/ ~Marked(q) => jobs[q] <= lapses
      /\ q \in queue /\ ~Marked(q) => jobs[q] + 1 <= lapses
  BY DEF RepeatsHaveLapses
<1>6. CASE q = r
  <2>1. q \in queue /\ q \notin queue' /\ jobs'[q] = jobs[q] + 1 /\ jobs[q] \in Nat
    BY <1>1, <1>2, <1>3, <1>6
  <2> QED BY <1>2, <1>5, <2>1
<1>7. CASE q # r
  <2>1. jobs'[q] = jobs[q] /\ (q \in queue' <=> q \in queue)
    BY <1>1, <1>3, <1>7
  <2> QED BY <1>5, <2>1
<1> QED BY <1>6, <1>7

LEMMA IntakeCounts ==
    ASSUME IntakeInv, PollerTyped, RepeatsHaveLapses,
           IntakeNext \/ UNCHANGED <<processed, openTasks, unread, received, running, poller, queue,
                                     jobs, dropped, lapsed, lapses>>
    PROVE  RepeatsHaveLapses'
<1>1. ASSUME UNCHANGED <<jobs, lapses>>, queue' \in {queue, {}}, \A r \in Requests : Marked(r)' <=> Marked(r)
      PROVE  RepeatsHaveLapses'
  BY <1>1 DEF RepeatsHaveLapses
<1>2. ASSUME UNCHANGED <<processed, unread, received>>, UNCHANGED <<jobs, lapses>>, queue' \in {queue, {}}
      PROVE  RepeatsHaveLapses'
  BY <1>1, <1>2 DEF Marked, LoadProcessed
<1>3. ASSUME NEW m \in Mails, MailArrives(m) PROVE RepeatsHaveLapses'
  <2>1. /\ received' = Append(received, m) /\ unread' = unread \union {m} /\ m \notin ToSet(received)
        /\ UNCHANGED <<processed, queue, jobs, lapses>>
    BY <1>3 DEF MailArrives
  <2>2. ToSet(received') = ToSet(received) \union {m}
    BY <2>1 DEF IntakeInv, IntakeShape, ToSet
  <2>3. \A r : Marked(r)' <=> Marked(r)
    BY <2>1, <2>2 DEF Marked, LoadProcessed
  <2> QED BY <1>1, <2>1, <2>3
<1>4. CASE (\E t \in Tasks : TaskChanges(t)) \/ TokenChanges
  BY <1>2, <1>4 DEF TaskChanges, TokenChanges
<1>5. CASE StartPolling \/ StopPolling \/ PollTimer
  BY <1>2, <1>5 DEF StartPolling, StopPolling, PollTimer
<1>6. CASE SaveThrows \/ IntakeDies
  BY <1>2, <1>6 DEF SaveThrows, IntakeDies
<1>7. CASE UNCHANGED <<processed, openTasks, unread, received, running, poller, queue, jobs, dropped, lapsed, lapses>>
  BY <1>2, <1>7
<1> QED
  BY <1>3, <1>4, <1>5, <1>6, <1>7, ClickUpCounts, EmailCounts, EnqueueCounts DEF IntakeNext

LEMMA IntakeTypesStart == IntakeInit => PollerTyped /\ RepeatsHaveLapses
<1> SUFFICES ASSUME IntakeInit PROVE PollerTyped /\ RepeatsHaveLapses
  OBVIOUS
<1>1. 0 \in 0 .. MaxLapses /\ lapses = 0
  BY IntakeAssumption DEF IntakeInit
<1>2. PollerTyped
  BY <1>1 DEF IntakeInit, PollerTyped
<1>3. \A r \in Requests : jobs[r] = 0 /\ r \notin queue
  BY DEF IntakeInit
<1> QED BY <1>1, <1>2, <1>3 DEF RepeatsHaveLapses

LEMMA IntakeIsTyped ==
    ASSUME IntakeInv, PollerTyped, RepeatsHaveLapses, GraphTokenTypeOK
    PROVE  IntakeTypeOK
<1>1. ASSUME NEW r \in Requests PROVE jobs[r] \in 0 .. MaxLapses + 1
  <2>1. jobs[r] \in Nat /\ lapses \in 0 .. MaxLapses /\ jobs[r] <= lapses + 1 /\ MaxLapses \in Nat
    BY IntakeAssumption DEF IntakeInv, IntakeShape, PollerTyped, RepeatsHaveLapses
  <2> QED BY <2>1
<1>2. jobs \in [Requests -> 0 .. MaxLapses + 1]
  BY <1>1 DEF IntakeInv, IntakeShape
<1>3. {queue, dropped, lapsed} \subseteq SUBSET Requests
  BY DEF IntakeInv, IntakeShape, PollerTyped
<1> QED BY <1>2, <1>3 DEF IntakeInv, IntakeShape, PollerTyped, IntakeTypeOK

\* A job that waits for an attempt has one left; a job that fired has an instance.
Attempted(r) ==
    /\ r.attempt <= MaxAttempts /\ (r.at = "ready" => r.attempt < MaxAttempts)
    /\ r.at # "unfired" => r.instance \in Instances

JobsTyped == tasks \subseteq Instances /\ \A j \in Firings : Attempted(job[j])

LEMMA RetriedAttempts ==
    ASSUME NEW r \in JobRecord, r.attempt <= MaxAttempts, r.instance \in Instances
    PROVE  Attempted(Retried(r))
<1>1. /\ Retried(r).attempt = r.attempt /\ Retried(r).instance = r.instance
      /\ Retried(r).at = "ready" => ~(r.attempt >= MaxAttempts)
  BY DEF Retried, JobRecord
<1>2. r.attempt \in Nat /\ MaxAttempts \in Nat
  BY ScheduledAssumption DEF JobRecord
<1> QED BY <1>1, <1>2 DEF Attempted

LEMMA AdvancedAttempts ==
    ASSUME NEW r \in JobRecord, r.instance \in Instances
    PROVE  Attempted(Advanced(r))
<1>1. Advanced(r).attempt = 0 /\ Advanced(r).instance = r.instance
  BY DEF Advanced, JobRecord
<1> QED BY <1>1, ScheduledAssumption DEF Attempted

LEMMA ProceedsTyped ==
    ASSUME ReportsShape, JobsTyped, NEW j \in Firings, NEW r, NEW n, Attempted(r), Proceeds(j, r, n), UNCHANGED tasks
    PROVE  JobsTyped'
<1>1. ASSUME NEW k \in Firings PROVE Attempted(job'[k])
  <2>1. CASE k = j
    BY <2>1 DEF Proceeds
  <2>2. CASE k # j
    <3>1. job[k] \in JobRecord /\ Attempted(job[k])
      BY DEF ReportsShape, JobsTyped
    <3>2. job'[k] = job[k] \/ job'[k] = [job[k] EXCEPT !.shared = TRUE]
      BY <2>2 DEF Proceeds
    <3>3. /\ job'[k].attempt = job[k].attempt /\ job'[k].at = job[k].at
          /\ job'[k].instance = job[k].instance
      BY <3>1, <3>2 DEF JobRecord
    <3> QED BY <3>1, <3>3 DEF Attempted
  <2> QED BY <2>1, <2>2
<1> QED BY <1>1 DEF JobsTyped, Attempted

\* A stage ends with a record r that keeps the job's attempt and instance.
LEMMA StageEndsTyped ==
    ASSUME ReportsShape, JobsTyped, NEW j \in Firings, job[j].at = "inside", NEW n \in {0, 1}, NEW r \in JobRecord,
           r.attempt = job[j].attempt, r.instance = job[j].instance,
           StageReturns(j, r, n) \/ StageThrows(j, r, n)
    PROVE  JobsTyped'
<1>1. r.attempt <= MaxAttempts /\ r.instance \in Instances
  BY DEF JobsTyped, Attempted
<1> DEFINE booked == [r EXCEPT !.booked = r.booked + sessionUsage + n, !.calls = r.calls + n]
           again  == [booked EXCEPT !.unsaved = booked.unsaved + 1]
<1>2. /\ UNCHANGED tasks
      /\ \/ Proceeds(j, Advanced(booked), n) \/ Proceeds(j, Retried(again), n) \/ Proceeds(j, Retried(r), n)
  BY DEF StageReturns, StageThrows
<1>3. r.booked + sessionUsage + n \in Nat /\ r.calls + n \in Nat /\ r.unsaved + 1 \in Nat
  BY DEF JobRecord, ReportsShape
<1>4. /\ booked \in JobRecord /\ booked.attempt = r.attempt /\ booked.instance = r.instance
      /\ booked.unsaved = r.unsaved
  BY <1>3 DEF JobRecord
<1> HIDE DEF booked
<1>5. again \in JobRecord /\ again.attempt = r.attempt /\ again.instance = r.instance
  BY <1>3, <1>4 DEF JobRecord
<1> HIDE DEF again
<1>6. Attempted(Advanced(booked)) /\ Attempted(Retried(again)) /\ Attempted(Retried(r))
  BY <1>1, <1>4, <1>5, AdvancedAttempts, RetriedAttempts
<1> QED BY <1>2, <1>6, ProceedsTyped

\* Every stage ends with a record that keeps the job's attempt and instance.
LEMMA StagesTyped ==
    ASSUME ReportsInv, JobsTyped, NEW j \in Firings,
           \/ CollectHvac(j) \/ CollectFinalExpense(j) \/ CollectU65(j)
           \/ AnalyseHvac(j) \/ AnalyseFinalExpense(j) \/ AnalyseU65(j)
           \/ SummariseHvac(j) \/ SummariseFinalExpense(j) \/ SummariseU65(j)
           \/ PublishHvac(j) \/ PublishFinalExpense(j) \/ PublishU65(j)
           \/ FetchAlerts(j) \/ PublishAlerts(j)
    PROVE  JobsTyped'
<1>1. job[j] \in JobRecord /\ job[j].at = "inside" /\ ReportsShape
  BY DEF ReportsInv, ReportsShape, Inside, CollectHvac, CollectFinalExpense, CollectU65, AnalyseHvac,
         AnalyseFinalExpense, AnalyseU65, SummariseHvac, SummariseFinalExpense, SummariseU65, PublishHvac,
         PublishFinalExpense, PublishU65, FetchAlerts, PublishAlerts
<1>2. ASSUME NEW n \in {0, 1}, StageReturns(j, job[j], n) \/ StageThrows(j, job[j], n) PROVE JobsTyped'
  BY <1>1, <1>2, StageEndsTyped
<1>3. ASSUME NEW f \in Figures, Collected(j, f) PROVE JobsTyped'
  <2> DEFINE r == [job[j] EXCEPT !.figures = f]
  <2>1. r \in JobRecord /\ r.attempt = job[j].attempt /\ r.instance = job[j].instance
    BY <1>1 DEF JobRecord
  <2>2. StageReturns(j, r, 0)
    BY <1>3 DEF Collected
  <2> HIDE DEF r
  <2> QED BY <1>1, <2>1, <2>2, StageEndsTyped
<1>4. CASE CollectHvac(j)
  BY <1>2, <1>3, <1>4, HvacFigures DEF CollectHvac
<1>5. CASE CollectFinalExpense(j)
  BY <1>2, <1>3, <1>5, FinalExpenseFigures DEF CollectFinalExpense
<1>6. CASE CollectU65(j)
  BY <1>3, <1>6, U65Figures DEF CollectU65
<1>7. ASSUME ClaudeJSON(j) PROVE JobsTyped'
  BY <1>2, <1>7 DEF ClaudeJSON
<1>8. ASSUME PublishReport(j) PROVE JobsTyped'
  <2>1. job[j].posted \in Nat /\ job[j].posted + 1 \in Nat
    BY <1>1, OneMore DEF JobRecord
  <2>2. ASSUME NEW r, NEW p \in {job[j].posted, job[j].posted + 1},
               r = [job[j] EXCEPT !.posted = p], StageReturns(j, r, 0)
        PROVE  JobsTyped'
    <3>1. r \in JobRecord /\ r.attempt = job[j].attempt /\ r.instance = job[j].instance
      BY <1>1, <2>1, <2>2 DEF JobRecord
    <3> QED BY <1>1, <2>2, <3>1, StageEndsTyped
  <2>3. PICK n \in {0, 1} : StageReturns(j, [job[j] EXCEPT !.posted = job[j].posted + n], 0)
    BY <1>1, <1>8, <2>1, PostsTold
  <2> QED BY <2>1, <2>2, <2>3
<1>9. ASSUME NEW any \in BOOLEAN, StageReturns(j, [job[j] EXCEPT !.hasAny = any], 0) PROVE JobsTyped'
  <2> DEFINE r == [job[j] EXCEPT !.hasAny = any]
  <2>1. r \in JobRecord /\ r.attempt = job[j].attempt /\ r.instance = job[j].instance
    BY <1>1 DEF JobRecord
  <2>2. StageReturns(j, r, 0)
    BY <1>9
  <2> HIDE DEF r
  <2> QED BY <1>1, <2>1, <2>2, StageEndsTyped
<1>10. CASE FetchAlerts(j) \/ PublishAlerts(j)
  BY <1>2, <1>8, <1>9, <1>10 DEF FetchAlerts, PublishAlerts
<1>11. CASE \/ AnalyseHvac(j) \/ AnalyseFinalExpense(j) \/ AnalyseU65(j)
            \/ SummariseHvac(j) \/ SummariseFinalExpense(j) \/ SummariseU65(j)
  BY <1>7, <1>11
     DEF AnalyseHvac, AnalyseFinalExpense, AnalyseU65, SummariseHvac, SummariseFinalExpense, SummariseU65
<1>12. CASE PublishHvac(j) \/ PublishFinalExpense(j) \/ PublishU65(j)
  BY <1>8, <1>12 DEF PublishHvac, PublishFinalExpense, PublishU65
<1> QED BY <1>4, <1>5, <1>6, <1>10, <1>11, <1>12

LEMMA JobsStayTyped == ASSUME ReportsInv, JobsTyped, [ReportsNext]_reportVars PROVE JobsTyped'
<1>1. MaxAttempts \in Nat \ {0} /\ Scheduled \subseteq Instances
  BY ScheduledAssumption
<1>2. \A j \in Firings : job[j] \in JobRecord /\ job[j].attempt \in Nat /\ Attempted(job[j])
  BY DEF ReportsInv, ReportsShape, JobRecord, JobsTyped
<1>3. \A r \in JobRecord : Attempted(r) /\ r.at # "unfired" => Attempted(Lost(r))
  BY <1>1 DEF Attempted, Lost, JobRecord
<1>4. ASSUME \A j \in Firings : Attempted(job'[j]), tasks' \subseteq Instances PROVE JobsTyped'
  BY <1>4 DEF JobsTyped, Attempted
<1>5. CASE UNCHANGED reportVars \/ Start
  BY <1>1, <1>2, <1>4, <1>5 DEF reportVars, Start, JobsTyped
<1>6. CASE Stop
  <2>1. ASSUME NEW j \in Firings PROVE Attempted(job'[j])
    <3>1. job'[j] = job[j] \/ (job'[j] = Lost(job[j]) /\ job[j].at # "unfired")
      BY <1>6 DEF Stop, Running
    <3> QED BY <1>2, <1>3, <3>1
  <2> QED BY <1>4, <1>6, <2>1 DEF Stop
<1>7. ASSUME NEW j \in Firings, NEW r, Attempted(r), job' = [job EXCEPT ![j] = r], UNCHANGED tasks
      PROVE  JobsTyped'
  <2>1. job \in [Firings -> JobRecord]
    BY DEF ReportsInv, ReportsShape
  <2>2. \A k \in Firings : job'[k] = IF k = j THEN r ELSE job[k]
    BY <1>7, <2>1
  <2> QED BY <1>2, <1>4, <1>7, <2>2 DEF JobsTyped
<1>8. ASSUME NEW i \in Instances, Fire(i) PROVE JobsTyped'
  <2>1. PICK j \in Firings, at \in {"ready", "lost"} :
          job' = [job EXCEPT ![j] = [Unfired EXCEPT !.at = at, !.instance = i]]
    BY <1>8 DEF Fire, Trigger
  <2> DEFINE r == [Unfired EXCEPT !.at = at, !.instance = i]
  <2>2. r.attempt = 0 /\ r.instance = i
    BY DEF Unfired
  <2>3. Attempted(r)
    BY <1>1, <2>2 DEF Attempted
  <2>4. UNCHANGED tasks
    BY <1>8 DEF Fire
  <2> HIDE DEF r
  <2>5. job' = [job EXCEPT ![j] = r]
    BY <2>1 DEF r
  <2> QED BY <1>7, <2>3, <2>4, <2>5
<1>9. ASSUME NEW j \in Firings, BeginAttempt(j) PROVE JobsTyped'
  <2> DEFINE r == [job[j] EXCEPT !.at = "inside", !.attempt = job[j].attempt + 1]
  <2>1. job[j].at = "ready" /\ UNCHANGED tasks
    BY <1>9 DEF BeginAttempt
  <2>2. r.at = "inside" /\ r.attempt = job[j].attempt + 1 /\ r.instance = job[j].instance
    BY <1>2 DEF JobRecord
  <2>3. job' = [job EXCEPT ![j] = r] \/ job' = [job EXCEPT ![j] = Lost(job[j])]
    BY <1>9 DEF BeginAttempt, ReportsInv, ReportsShape
  <2> HIDE DEF r
  <2>4. Attempted(r)
    BY <1>1, <1>2, <2>1, <2>2 DEF Attempted
  <2>5. Attempted(Lost(job[j]))
    BY <1>2, <1>3, <2>1
  <2> QED BY <1>7, <2>1, <2>3, <2>4, <2>5
<1> QED BY <1>5, <1>6, <1>8, <1>9, StagesTyped DEF ReportsNext

LEMMA ReportsAreTyped == ASSUME ReportsInv, JobsTyped PROVE ReportsTypeOK
<1>1. ASSUME NEW j \in Firings
      PROVE  /\ job[j].at \in {"unfired", "ready", "inside", "completed", "failed", "lost"}
             /\ job[j].at # "unfired" => job[j].instance \in Instances
             /\ job[j].stage \in 1 .. 4 /\ job[j].attempt \in 0 .. MaxAttempts
             /\ {job[j].hasAny, job[j].shared} \subseteq BOOLEAN
             /\ {job[j].posted, job[j].booked, job[j].calls, job[j].unsaved} \subseteq Nat
  <2>1. job[j] \in JobRecord /\ Attempted(job[j]) /\ job[j].stage \in 1 .. Len(StagesOf(job[j].instance))
    BY DEF ReportsInv, ReportsShape, JobSound, JobsTyped
  <2>2. job[j].stage \in 1 .. 4
    BY <2>1, StageFacts
  <2>3. job[j].attempt \in 0 .. MaxAttempts
    BY <2>1, ScheduledAssumption DEF JobRecord, Attempted
  <2> QED BY <2>1, <2>2, <2>3 DEF JobRecord, Attempted
<1>2. \A i \in Instances : workspace[i].day \in Int \union {Absent}
  BY DEF ReportsInv, ReportsShape, Figures
<1> QED BY <1>1, <1>2 DEF ReportsInv, ReportsShape, JobsTyped, ReportsTypeOK

(* Every variable of the daemon's background operations keeps its type: no *)
(* attempt beyond the limit, no stage beyond a workflow's last, no request *)
(* a job more often than polls lost their marks and once more              *)
(* (src/core/orchestrator.ts, scheduler.ts, the adapters and stages).      *)
THEOREM OperationsTypes == OperationsSpec => []OperationsTypeOK
<1> DEFINE Typed == GraphTokenTypeOK /\ MailsTyped /\ SheetTyped /\ PollerTyped /\ RepeatsHaveLapses /\ JobsTyped
           Known == IntakeInv /\ NoticesInv /\ ImportInv /\ ReportsInv
<1>1. OperationsInit => Typed
  <2> SUFFICES ASSUME OperationsInit PROVE Typed
    OBVIOUS
  <2>1. GraphTokenTypeOK /\ MailsTyped
    BY DEF OperationsInit, NoticesInit, GraphTokenInit, GraphTokenTypeOK, MailsTyped
  <2>2. SheetTyped
    BY MalformedAssumption DEF OperationsInit, ImportInit, SheetTyped
  <2>3. PollerTyped /\ RepeatsHaveLapses
    BY IntakeTypesStart DEF OperationsInit
  <2>4. JobsTyped
    BY ScheduledAssumption DEF OperationsInit, ReportsInit, JobsTyped, Attempted, Unfired
  <2> QED BY <2>1, <2>2, <2>3, <2>4
<1>2. Known /\ Typed /\ [OperationsNext]_operationVars => Typed'
  BY OperationsApart, TokenStaysTyped, MailsStayTyped, SheetStaysTyped, PollerStaysTyped, IntakeCounts, JobsStayTyped
<1>3. Known /\ Typed => OperationsTypeOK
  <2> SUFFICES ASSUME Known, Typed PROVE OperationsTypeOK
    OBVIOUS
  <2>1. NoticesTypeOK
    BY DEF NoticesInv, NoticesShape, MailsTyped, NoticesTypeOK
  <2> QED BY <2>1, IntakeIsTyped, ImportIsTyped, ReportsAreTyped DEF OperationsTypeOK
<1>4. OperationsSpec => []IntakeInv /\ []NoticesInv /\ []ImportInv
  <2>1. OperationsInit => IntakeInv /\ NoticesInv /\ ImportInv
    BY IntakeStarts, NoticesStart, ImportStarts DEF OperationsInit
  <2>2. IntakeInv /\ NoticesInv /\ ImportInv /\ [OperationsNext]_operationVars => (IntakeInv /\ NoticesInv /\ ImportInv)'
    BY OperationsApart, IntakeSteps, NoticesSteps, ImportSteps
  <2> QED BY <2>1, <2>2, PTL DEF OperationsSpec
<1> QED BY <1>1, <1>2, <1>3, <1>4, ReportsHold, PTL DEF OperationsSpec
=============================================================================
