------------------------------ MODULE Notifiers ------------------------------
(***************************************************************************)
(* The notices of a job (src/adapters/slack/notify.adapter.ts and          *)
(* src/adapters/notify/email.adapter.ts): that it started, that its draft  *)
(* waits for approval, that it failed or completed. All jobs share the two *)
(* adapters, the map from a job to its Slack thread, and the Graph token.  *)
(***************************************************************************)
EXTENDS FiniteSets, GraphToken

CONSTANTS
    NoticedJobs,   \* jobs that run
    NoThread       \* a message at the top level of the channel

VARIABLES
    noticed,       \* where a job is in its notices
    threadTs,      \* SlackNotifyAdapter.threadTs: the start message of each job, if known
    channel,       \* the messages in the channel: [job, kind, under], under a start message
    mails,         \* the mails sent: [job, kind]
    forgot         \* history: jobs whose start message got no ts

noticeVars == <<noticed, threadTs, channel, mails, forgot, graphToken>>

Kinds == {"started", "approval", "failure", "completion"}

\* "posting" is the await of the start notices; the thread is known only then.
NoticesTypeOK ==
    /\ noticed \in [NoticedJobs -> {"new", "posting", "unanswered", "running", "gate", "ended"}]
    /\ threadTs \in [NoticedJobs -> NoticedJobs \union {NoThread}]
    /\ channel \subseteq [job : NoticedJobs, kind : Kinds, under : NoticedJobs \union {NoThread}]
    /\ mails \subseteq [job : NoticedJobs, kind : Kinds]
    /\ forgot \subseteq NoticedJobs
    /\ GraphTokenTypeOK

NoticesInit ==
    /\ noticed = [j \in NoticedJobs |-> "new"]
    /\ threadTs = [j \in NoticedJobs |-> NoThread]
    /\ channel = {} /\ mails = {} /\ forgot = {}
    /\ GraphTokenInit

\* A mail goes out when a good token was at hand; a 401 clears the cache and
\* the mail is given up, as after any other error.
Send(j, kind) ==
    \E token \in AcquireGraphToken :
      \/ token = "good" /\ graphToken' = token /\ mails' = mails \union {[job |-> j, kind |-> kind]}
      \/ token = "good" /\ graphToken' = token /\ UNCHANGED mails
      \/ token = "revoked" /\ ClearGraphTokenCache /\ UNCHANGED mails
      \/ token = "none" /\ UNCHANGED <<graphToken, mails>>

\* Seeded fault: one thread for the adapter, that of the last job started.
LastThread(j) ==
    IF \E k \in NoticedJobs : threadTs[k] # NoThread
    THEN threadTs[CHOOSE k \in NoticedJobs : threadTs[k] # NoThread] ELSE NoThread

ThreadOf(j) == threadTs[j]

\* A message about job j, in its thread if it is known; a post that fails is
\* logged and nobody minds.
Post(j, kind) ==
    channel' \in {channel, channel \union {[job |-> j, kind |-> kind, under |-> ThreadOf(j)]}}

\* Both adapters are called at once. The start message carries no thread; its
\* ts comes back later, or never.
SendJobStarted(j) ==
    /\ noticed[j] = "new"
    /\ \/ /\ channel' = channel \union {[job |-> j, kind |-> "started", under |-> NoThread]}
          /\ noticed' \in {[noticed EXCEPT ![j] = "posting"], [noticed EXCEPT ![j] = "unanswered"]}
       \/ UNCHANGED channel /\ noticed' = [noticed EXCEPT ![j] = "unanswered"]
    /\ Send(j, "started")
    /\ UNCHANGED <<threadTs, forgot>>

\* allSettled: the job goes on whatever came of the notices.
StartedSettles(j) ==
    /\ noticed[j] \in {"posting", "unanswered"}
    /\ noticed' = [noticed EXCEPT ![j] = "running"]
    /\ IF noticed[j] = "posting" THEN threadTs' = [threadTs EXCEPT ![j] = j] /\ UNCHANGED forgot
       ELSE forgot' = forgot \union {j} /\ UNCHANGED threadTs
    /\ UNCHANGED <<channel, mails, graphToken>>

SendApprovalRequest(j) ==
    /\ noticed[j] = "running"
    /\ noticed' = [noticed EXCEPT ![j] = "gate"]
    /\ Post(j, "approval") /\ Send(j, "approval")
    /\ UNCHANGED <<threadTs, forgot>>

\* failJob and rejectJob, at any point of the run.
SendFailure(j) ==
    /\ noticed[j] \in {"running", "gate"}
    /\ noticed' = [noticed EXCEPT ![j] = "ended"]
    /\ Post(j, "failure") /\ Send(j, "failure")
    /\ UNCHANGED <<threadTs, forgot>>

\* The completion stage, after an approval.
SendCompletion(j) ==
    /\ noticed[j] = "gate"
    /\ noticed' = [noticed EXCEPT ![j] = "ended"]
    /\ Post(j, "completion") /\ Send(j, "completion")
    /\ UNCHANGED <<threadTs, forgot>>

NoticeTokenChanges ==
    /\ TokenEnds \/ OthersUseToken
    /\ UNCHANGED <<noticed, threadTs, channel, mails, forgot>>

NoticesNext ==
    \/ \E j \in NoticedJobs : SendJobStarted(j) \/ StartedSettles(j) \/ SendApprovalRequest(j)
                              \/ SendFailure(j) \/ SendCompletion(j)
    \/ NoticeTokenChanges

NoticesSpec == NoticesInit /\ [][NoticesNext]_noticeVars

\* The notices of interleaved jobs do not mix: what is said of a job is said in
\* the thread of its own start message, at the top level only if that message
\* was refused or its ts never came back (notify.adapter.ts:23-36, 218-221).
NoticesStayInTheirThread ==
    \A m \in channel :
      IF m.kind = "started" \/ m.job \in forgot THEN m.under = NoThread
      ELSE m.under = m.job /\ [job |-> m.job, kind |-> "started", under |-> NoThread] \in channel
=============================================================================
