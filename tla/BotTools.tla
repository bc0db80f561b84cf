------------------------------ MODULE BotTools ------------------------------
(***************************************************************************)
(* The tools Claude calls while it answers a question (src/core/qa-tools,  *)
(* src/adapters/slack/data-tools, the live-tools of the integrations, and  *)
(* the clients behind them). The tools have one shape: check the input,    *)
(* ask a source page by page or write to a service, cut the rows to a cap, *)
(* write one audit row, answer. A tool is a plan, a record saying what it  *)
(* asks, when it stops, whether it admits that rows are missing and what a *)
(* failed request looks like to it; the actions below carry plans out.     *)
(* The source is the number of rows that match the question; rows arrive   *)
(* and never leave. Page sizes and caps are scaled down.                   *)
(***************************************************************************)
EXTENDS Naturals

CONSTANTS
    ToolCallers,    \* conversations that call tools
    PageSize,       \* rows a service returns per request
    RowCap,         \* rows a tool answers at most
    MaxSource,      \* bound: rows that ever match
    ToolAttempts    \* attempts a client makes at a request

ASSUME ToolSizes ==
    /\ PageSize \in Nat \ {0} /\ RowCap \in Nat \ {0} /\ ToolAttempts \in Nat \ {0}
    /\ MaxSource \in Nat

VARIABLES
    source,         \* rows that match now
    helperCache,    \* the helper tools' cache: rows, or NoRows
    call,           \* the tool call of each conversation
    written         \* [caller -> effects its write had on the service]

toolVars == <<source, helperCache, call, written>>

NoRows == MaxSource + 1

-----------------------------------------------------------------------------
(* The plans. pages is the number of requests a read makes at most, 0 for  *)
(* until the service says it is the last page; flag says when the answer   *)
(* is called truncated; failed says what a failed request does: the tool   *)
(* reports an error, names the part that is missing, or takes the failure  *)
(* for the end of the data.                                                *)

Read(pages, flag, failed) ==
    [kind |-> "read", pages |-> pages, flag |-> flag, failed |-> failed,
     cached |-> FALSE, counts |-> FALSE, audited |-> TRUE]

\* Read from files, the registry or the job store: nothing to page or cut.
Local(audited) == [Read(0, "never", "error") EXCEPT !.kind = "local", !.audited = audited]

Write == [Read(0, "never", "error") EXCEPT !.kind = "write"]

\* What the clients of Meta and Everflow make of a request that failed.
MetaAccounts    == Read(0, "never", "end")
MetaInsights    == Read(0, "never", "end")
MetaRows        == Read(0, "full", "end")
EverflowReport  == Read(1, "never", "end")

\* src/core/qa-tools.ts: none of these is audited.
ListInstances   == Local(FALSE)
InstanceDetail  == Local(FALSE)
ListWorkflows   == Local(FALSE)
ListIntegrationsTool == Local(FALSE)
QueryJobs       == [Read(1, "never", "error") EXCEPT !.audited = FALSE]
GetJobOutput    == Local(FALSE)
GetRingbaRevenue == [Read(0, "never", "end") EXCEPT !.audited = FALSE]
GetMetaSpend    == [MetaInsights EXCEPT !.audited = FALSE]
BroadcastReply  == Local(FALSE)

\* src/adapters/slack/data-tools.ts
SupabaseQuery   == [Read(1, "counted", "error") EXCEPT !.counts = TRUE]
GroupedQuery    == Read(1, "never", "error")
DescribeSchema  == Local(TRUE)
ListPublishers  == [Read(1, "never", "error") EXCEPT !.cached = TRUE]
ListRingbaCampaigns == Read(1, "never", "error")
ListRingbaTags  == [Read(1, "never", "error") EXCEPT !.cached = TRUE]
ListLpCampaigns == Read(1, "never", "error")

\* Live tools of Ringba, Google Ads, Meta and Everflow.
RingbaLiveQuery == Read(0, "longer", "end")
RingbaTagRollup == Read(1, "never", "error")
RingbaTagTimeseries == Read(1, "never", "error")
GoogleAdsListAccounts == Read(1, "never", "error")
GoogleAdsTodaySpend == Read(0, "never", "named")
MetaListAdAccounts == MetaAccounts
MetaQuery       == MetaRows
EverflowListOffers == Read(1, "never", "end")
EverflowOfferPayouts == EverflowReport

\* src/integrations/clickup/live-tools.ts
ClickUpListLists == Local(TRUE)
ClickUpListMembers == Local(TRUE)
ClickUpListTasks == Read(1, "longer", "end")
ClickUpFindTasks == Read(2, "longer", "end")
ClickUpGetTask  == Read(1, "never", "error")
ClickUpGetTaskComments == Read(1, "longer", "end")
ClickUpUpdateTask == Write
ClickUpAddComment == Write
ClickUpCreateTask == Write
\* The search for an earlier job finds none: the daemon starts no worker
\* that would give a job the task's id, and no other path does.
ClickUpTriggerAgent == [Write EXCEPT !.kind = "hand over"]

Plans == {ListInstances, InstanceDetail, ListWorkflows, ListIntegrationsTool, QueryJobs, GetJobOutput,
          GetRingbaRevenue, GetMetaSpend, BroadcastReply, SupabaseQuery, GroupedQuery, DescribeSchema,
          ListPublishers, ListRingbaCampaigns, ListRingbaTags, ListLpCampaigns, RingbaLiveQuery,
          RingbaTagRollup, RingbaTagTimeseries, GoogleAdsListAccounts, GoogleAdsTodaySpend,
          MetaListAdAccounts, MetaQuery, EverflowListOffers, EverflowOfferPayouts, ClickUpListLists,
          ClickUpListMembers, ClickUpListTasks, ClickUpFindTasks, ClickUpGetTask, ClickUpGetTaskComments,
          ClickUpUpdateTask, ClickUpAddComment, ClickUpCreateTask, ClickUpTriggerAgent}

-----------------------------------------------------------------------------
\* A call: the plan, what it holds, and what went wrong on the
\* way: replies lost, rows left out unseen (history).
NewCall(p) ==
    [pc |-> "check", plan |-> p, rows |-> 0, pages |-> 0, counted |-> 0, tries |-> 1, asked |-> source,
     ok |-> FALSE, partial |-> FALSE, lost |-> 0, short |-> FALSE, audits |-> 0,
     unknown |-> FALSE]

NoCall == [NewCall(ListInstances) EXCEPT !.pc = "none", !.asked = 0]

ToolsTypeOK ==
    /\ source \in 0 .. MaxSource /\ helperCache \in 0 .. NoRows
    /\ \A c \in ToolCallers :
         /\ call[c].pc \in {"none", "check", "fetch", "count", "page", "write", "audit", "done"}
         /\ call[c].plan \in Plans /\ call[c].rows \in 0 .. MaxSource
         /\ call[c].tries \in 1 .. ToolAttempts /\ written[c] \in 0 .. ToolAttempts

ToolsInit ==
    /\ source = 0 /\ helperCache = NoRows
    /\ call = [c \in ToolCallers |-> NoCall]
    /\ written = [c \in ToolCallers |-> 0]

\* Rows arrive: a sync, or people at work in the service.
SourceGrows == source < MaxSource /\ source' = source + 1 /\ UNCHANGED <<helperCache, call, written>>

\* Claude asks for a tool.
CallTool(c, p) ==
    /\ call[c].pc \in {"none", "done"}
    /\ call' = [call EXCEPT ![c] = NewCall(p)]
    /\ written' = [written EXCEPT ![c] = 0]
    /\ UNCHANGED <<source, helperCache>>

AuditOrAnswer(r) == IF r.plan.audited THEN "audit" ELSE "done"
Answer(c, r) == call' = [call EXCEPT ![c] = [r EXCEPT !.ok = TRUE, !.pc = AuditOrAnswer(r)]]
Refuse(c) == call' = [call EXCEPT ![c] = [call[c] EXCEPT !.ok = FALSE, !.pc = AuditOrAnswer(call[c])]]

\* Input that is missing and a service that is not configured end the call;
\* a cached answer ends it well.
CheckInput(c, valid) ==
    LET r == call[c] IN
    /\ r.pc = "check"
    /\ \/ ~valid /\ Refuse(c)
       \/ valid /\ r.plan.kind = "local" /\ Answer(c, r)
       \/ valid /\ r.plan.cached /\ helperCache # NoRows
          /\ Answer(c, [r EXCEPT !.rows = helperCache, !.asked = helperCache])
       \/ valid /\ r.plan.kind # "local" /\ ~(r.plan.cached /\ helperCache # NoRows)
          /\ call' = [call EXCEPT ![c].pc = CASE r.plan.kind = "hand over" -> "fetch"
                                              [] r.plan.kind = "write" -> "write"
                                              [] r.plan.kind = "read" -> IF r.plan.counts THEN "count" ELSE "page"]
    /\ UNCHANGED <<source, helperCache, written>>

\* A hand-over to an agent nobody knows returns before it is audited.
UnknownAgent(c) ==
    /\ call[c].pc = "check" /\ call[c].plan.kind = "hand over"
    /\ call' = [call EXCEPT ![c].pc = "done", ![c].unknown = TRUE]
    /\ UNCHANGED <<source, helperCache, written>>

\* A hand-over reads the ClickUp task whose name the new task gets.
FetchTask(c, works) ==
    /\ call[c].pc = "fetch"
    /\ IF works THEN call' = [call EXCEPT ![c].pc = "write"] ELSE Refuse(c)
    /\ UNCHANGED <<source, helperCache, written>>

\* executeSupabaseQuery counts the rows first, in a query of its own.
CountRows(c, works) ==
    /\ call[c].pc = "count"
    /\ IF works THEN call' = [call EXCEPT ![c].counted = source, ![c].pc = "page"] ELSE Refuse(c)
    /\ UNCHANGED <<source, helperCache, written>>

\* Seeded fault: a full page is taken for the last one.
StopsAtFullPage(n, left) == n <= PageSize

\* A page that is not full is the last; Ringba and Meta also say when no
\* page follows.
LastPage(n, left) == n < PageSize \/ left = 0

\* Supabase cuts its answer at the limit it was given, a service at its page.
RowsPerRequest(p) == IF p.failed = "error" THEN RowCap ELSE PageSize
AtMost(n, cap) == IF n > cap THEN cap ELSE n

\* What the tool says of the rows it holds, and what it cuts.
Partial(r) == \/ r.partial
              \/ r.plan.flag = "counted" /\ r.counted > RowCap
              \/ r.plan.flag = "longer" /\ r.rows > RowCap
              \/ r.plan.flag = "full" /\ r.rows >= RowCap
CutRows(r) == [r EXCEPT !.partial = Partial(r),
                        !.rows = IF r.plan.flag = "never" THEN @ ELSE AtMost(@, RowCap)]

\* One request of a read and what the tool makes of the reply.
ReadPage(c, works) ==
    LET r == call[c]
        n == AtMost(source - r.rows, RowsPerRequest(r.plan))
        more == [r EXCEPT !.rows = @ + n, !.pages = IF r.plan.pages = 0 THEN 0 ELSE @ + 1]
        spent == r.plan.pages # 0 /\ more.pages = r.plan.pages
        ended == LastPage(n, source - more.rows)
        end == CutRows([more EXCEPT !.short = spent /\ n = RowsPerRequest(r.plan) /\ r.plan.flag # "counted"])
    IN  /\ r.pc = "page"
        /\ IF works
           THEN /\ IF ended \/ spent THEN Answer(c, end) ELSE call' = [call EXCEPT ![c] = more]
                /\ helperCache' = IF r.plan.cached /\ (ended \/ spent) THEN end.rows ELSE helperCache
           ELSE /\ CASE r.plan.failed = "error" -> Refuse(c)
                     [] r.plan.failed = "named" -> Answer(c, [r EXCEPT !.partial = TRUE])
                     [] r.plan.failed = "end" -> Answer(c, CutRows([r EXCEPT !.lost = 1]))
                /\ UNCHANGED helperCache
        /\ UNCHANGED <<source, written>>

\* The helper tools' entries expire after HELPER_TTL_MS.
HelperCacheExpires ==
    /\ helperCache # NoRows
    /\ helperCache' = NoRows
    /\ UNCHANGED <<source, call, written>>

Attempts(p) == IF p.kind = "hand over" THEN 1 ELSE ToolAttempts

\* Seeded fault: the loop goes on after a good reply.
NeverStops(reply, r) == r.tries < Attempts(r.plan)

\* The clients' request loop asks again after 429, 5xx and network errors,
\* whatever the request does.
TriesAgain(reply, r) == reply \in {"busy", "cut off"} /\ r.tries < Attempts(r.plan)

\* One attempt at a write. It is done and said to be done, refused, not done
\* because the service is busy, or done while the reply is lost.
WriteAttempt(c, reply) ==
    LET r == call[c]
        seen == [r EXCEPT !.lost = IF reply = "cut off" THEN @ + 1 ELSE @]
    IN  /\ r.pc = "write"
        /\ written' = [written EXCEPT ![c] = IF reply \in {"done", "cut off"} THEN @ + 1 ELSE @]
        /\ IF TriesAgain(reply, r) THEN call' = [call EXCEPT ![c] = [seen EXCEPT !.tries = @ + 1]]
           ELSE IF reply = "done" THEN Answer(c, seen)
           ELSE call' = [call EXCEPT ![c] = [seen EXCEPT !.pc = AuditOrAnswer(r)]]
        /\ UNCHANGED <<source, helperCache>>

\* Seeded fault: a failed insert is thrown, and the tool's catch reports it.
AuditThrows(r, works) == IF works THEN [r EXCEPT !.pc = "done"] ELSE [r EXCEPT !.ok = FALSE]

\* auditQueryTool hides its own failure, so the answer stands.
AfterAudit(r, works) == [r EXCEPT !.pc = "done"]

Audit(c, works) ==
    /\ call[c].pc = "audit"
    /\ call' = [call EXCEPT ![c] = AfterAudit([call[c] EXCEPT !.audits = @ + 1], works)]
    /\ UNCHANGED <<source, helperCache, written>>

ToolsNext ==
    \/ SourceGrows \/ HelperCacheExpires
    \/ \E c \in ToolCallers :
         \/ \E p \in Plans : CallTool(c, p)
         \/ \E works \in BOOLEAN : 
              \/ CheckInput(c, works) \/ FetchTask(c, works)
              \/ CountRows(c, works) \/ ReadPage(c, works) \/ Audit(c, works)
         \/ UnknownAgent(c)
         \/ \E reply \in {"done", "refused", "busy", "cut off"} : WriteAttempt(c, reply)

ToolsSpec == ToolsInit /\ [][ToolsNext]_toolVars

-----------------------------------------------------------------------------
(* An answer that does not say it is truncated holds every row that        *)
(* matched when the tool was called, unless a failed request was taken for *)
(* the end of the data or the tool filled the last request it makes: a row *)
(* that arrives between the count and the select cannot hide another.      *)
AnswersAreWholeOrFlagged ==
    \A c \in ToolCallers :
        LET r == call[c] IN
        r.pc = "done" /\ r.ok /\ r.plan.kind = "read" /\ ~r.partial /\ r.lost = 0 /\ ~r.short
            => r.rows >= r.asked

(* What a write tool tells Claude is so: success means the service was     *)
(* changed, failure that it was not, and it was changed once, except for   *)
(* the replies that got lost after the change, each of which is repeated.  *)
WritesAreReported ==
    \A c \in ToolCallers :
        LET r == call[c] IN
        r.pc = "done" /\ r.plan.kind \in {"write", "hand over"}
            => /\ r.ok => written[c] >= 1
               /\ ~r.ok /\ r.lost = 0 => written[c] = 0
               /\ written[c] <= 1 + r.lost

(* A finished call of an audited tool tried to leave one audit row,        *)
(* whichever way it ended, also when the insert of the row failed; only a  *)
(* hand-over to an agent nobody knows leaves none.                         *)
CallsAreAuditedOnce ==
    \A c \in ToolCallers :
        call[c].pc = "done" =>
            call[c].audits = IF call[c].plan.audited /\ ~call[c].unknown THEN 1 ELSE 0
=============================================================================
