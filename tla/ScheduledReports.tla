--------------------------- MODULE ScheduledReports ---------------------------
(***************************************************************************)
(* What the Scheduler (src/core/scheduler.ts) sets off: the report jobs of *)
(* src/workflows/{hvac,final-expense,u65}-reporting and the weather notice *)
(* of hvac-weather-notification, run by the retry loop of the Orchestrator *)
(* and booked on the token counter of src/core/claude-client.ts, which all *)
(* running jobs share.                                                     *)
(*                                                                         *)
(* Of a report's data only the headline of its two windows is kept: the    *)
(* profit, and for u65, which pulls no spend, the revenue. Every source    *)
(* earns or spends one unit a day, so that a window is worth its days.     *)
(***************************************************************************)
EXTENDS Integers, Sequences, FiniteSets, Functions

CONSTANTS
    MaxFirings,   \* bound: jobs the schedule submits
    Scheduled,    \* the instances whose configuration loads, is enabled and has a valid cron
    Overlaps,     \* bound: the instances whose jobs come in company, the others come alone
    MaxUnsaved,   \* bound: stage results of a job whose save throws
    MaxAttempts,  \* maxStageRetries + 1
    DaysOfMonth,  \* bound: the days of the month on which a report may run
    Absent        \* undefined: the figure is not known

Hvac         == "hvac-reporting"
FinalExpense == "final-expense-reporting"
U65          == "u65-reporting"
Weather      == "hvac-weather-notification"
Instances    == {Hvac, FinalExpense, U65, Weather}

ASSUME ScheduledAssumption ==
    /\ Scheduled \subseteq Instances /\ DaysOfMonth \subseteq 1 .. 31
    /\ Absent \notin Int /\ MaxFirings \in Nat /\ MaxAttempts \in Nat \ {0}

VARIABLES
    tasks,         \* Scheduler.tasks: the instances with a cron task; empty when stopped
    job,           \* the jobs fired, in order
    sessionUsage,  \* _sessionUsage: Claude calls counted since the last reset
    spent,         \* history: all Claude calls answered
    today,         \* the day of the month on which all of this happens
    workspace      \* the figures the WORKING.md of each instance shows

reportVars == <<tasks, job, sessionUsage, spent, today, workspace>>

Firings == 1 .. MaxFirings

NoFigures == [day |-> Absent, mtd |-> Absent]

\* unsaved counts the stage results whose save threw; shared says that a call
\* of another job ended while a stage of this one ran.
Unfired == [at |-> "unfired", instance |-> Absent, stage |-> 1, attempt |-> 0,
            figures |-> NoFigures, hasAny |-> FALSE, posted |-> 0, booked |-> 0, calls |-> 0,
            shared |-> FALSE, unsaved |-> 0]

StagesOf(i) ==
    IF i = Weather THEN <<"fetch-alerts", "slack-publish">>
    ELSE <<"data-collection", "analysis", "summary", "slack-publish">>

Running(j) == job[j].at \in {"ready", "inside"}

Inside(j, i, s) == job[j].at = "inside" /\ job[j].instance = i /\ StagesOf(i)[job[j].stage] = s

ReportsTypeOK ==
    /\ tasks \subseteq Instances
    /\ \A j \in Firings :
         /\ job[j].at \in {"unfired", "ready", "inside", "completed", "failed", "lost"}
         /\ job[j].at # "unfired" => job[j].instance \in Instances
         /\ job[j].stage \in 1 .. 4 /\ job[j].attempt \in 0 .. MaxAttempts
         /\ {job[j].hasAny, job[j].shared} \subseteq BOOLEAN
         /\ {job[j].posted, job[j].booked, job[j].calls, job[j].unsaved} \subseteq Nat
    /\ sessionUsage \in Nat /\ spent \in Nat /\ today \in DaysOfMonth
    /\ \A i \in Instances : workspace[i].day \in Int \union {Absent}

ReportsInit ==
    /\ tasks = {}
    /\ job = [j \in Firings |-> Unfired]
    /\ sessionUsage = 0 /\ spent = 0 /\ today \in DaysOfMonth
    /\ workspace = [i \in Instances |-> NoFigures]

-----------------------------------------------------------------------------
(* The schedule. *)

\* Bound: one life of the process. No job survives it, another life adds nothing.
Start ==
    /\ tasks = {} /\ \A j \in Firings : job[j].at = "unfired"
    /\ tasks' = Scheduled
    /\ UNCHANGED <<job, sessionUsage, spent, today, workspace>>

\* Of a job that is lost only what it posted remains to be seen.
Lost(r) == [r EXCEPT !.at = "lost", !.stage = 1, !.attempt = 0,
                     !.figures = IF r.posted > 0 THEN @ ELSE NoFigures]

\* Shutdown ends the process, and with it every job that runs and the counter.
Stop ==
    /\ tasks # {}
    /\ tasks' = {}
    /\ job' = [j \in Firings |-> IF Running(j) THEN Lost(job[j]) ELSE job[j]]
    /\ sessionUsage' = 0
    /\ UNCHANGED <<spent, today, workspace>>

\* triggerFn submits a sample request; a save that throws loses the job.
Trigger(i, j) ==
    \E at \in {"ready", "lost"} : job' = [job EXCEPT ![j] = [Unfired EXCEPT !.at = at, !.instance = i]]

\* A task fires whether or not the job of its last firing still runs.
Fire(i) ==
    /\ i \in tasks
    /\ \A k \in Firings : job[k].at # "unfired" => {i, job[k].instance} \subseteq Overlaps
    /\ \E j \in Firings :
         /\ job[j].at = "unfired" /\ \A k \in 1 .. (j - 1) : job[k].at # "unfired"
         /\ Trigger(i, j)
    /\ UNCHANGED <<tasks, sessionUsage, spent, today, workspace>>

-----------------------------------------------------------------------------
(* The retry loop and the token counter. *)

\* Seeded fault: the counter is read but not reset.
KeepsUsage == UNCHANGED sessionUsage

GetAndResetUsage == sessionUsage' = 0

\* The save before the stage is outside the try block: a throw there leaves
\* the job as it is, for good.
BeginAttempt(j) ==
    /\ job[j].at = "ready"
    /\ GetAndResetUsage
    /\ job' \in {[job EXCEPT ![j].at = "inside", ![j].attempt = @ + 1],
                 [job EXCEPT ![j] = Lost(job[j])]}
    /\ UNCHANGED <<tasks, spent, today, workspace>>

\* Bound: a save throws only for a job without company, and not too often.
SaveMayThrow(j) ==
    job[j].unsaved < MaxUnsaved /\ \A k \in Firings \ {j} : job[k].at = "unfired"

Retried(r) == [r EXCEPT !.at = IF r.attempt >= MaxAttempts THEN "failed" ELSE "ready"]

Advanced(r) ==
    IF r.stage = Len(StagesOf(r.instance)) THEN [r EXCEPT !.at = "completed", !.attempt = 0]
    ELSE [r EXCEPT !.at = "ready", !.stage = @ + 1, !.attempt = 0]

\* Job j is now r and has made n Claude calls; what else ran meanwhile overlapped them.
Proceeds(j, r, n) ==
    /\ spent' = spent + n
    /\ job' = [k \in Firings |-> IF k = j THEN r
                                 ELSE IF n > 0 /\ job[k].at = "inside" THEN [job[k] EXCEPT !.shared = TRUE]
                                 ELSE job[k]]

\* The stage returned: the counter is booked on the job. The save that follows
\* is inside the try block, a throw there repeats the stage.
StageReturns(j, r, n) ==
    LET booked == [r EXCEPT !.booked = @ + sessionUsage + n, !.calls = @ + n]
    IN  /\ GetAndResetUsage
        /\ \/ Proceeds(j, Advanced(booked), n)
           \/ SaveMayThrow(j) /\ Proceeds(j, Retried([booked EXCEPT !.unsaved = @ + 1]), n)
        /\ UNCHANGED <<tasks, today>>

\* The stage threw: what it used stays on the counter until somebody's reset.
StageThrows(j, r, n) ==
    /\ sessionUsage' = sessionUsage + n
    /\ Proceeds(j, Retried(r), n)
    /\ UNCHANGED <<tasks, today>>

-----------------------------------------------------------------------------
(* Collecting the data. *)

\* What each source answers for a window, a set of days: null when it is not
\* configured or failed. The table may lack days; Ringba's client takes the
\* failed read of a page for the end of the data, and keeps the pages before
\* it; Meta's rows fit one page, which comes whole or not at all.
FetchThumbtack(w)     == {Absent} \union 1 .. Cardinality(w)
GetCampaignRevenue(w) == {Absent} \union 0 .. Cardinality(w)
GetAdAccountSpend(w)  == {Absent} \union {d \in {Cardinality(w)} : w # {}}

OrZero(n) == IF n = Absent THEN 0 ELSE n

CombineRevenue(thumbtack, ringba) ==
    IF thumbtack = Absent /\ ringba = Absent THEN Absent ELSE OrZero(thumbtack) + OrZero(ringba)

\* Seeded fault: a spend nobody knows counts as none.
ZeroFills(revenue, spend) == IF revenue = Absent THEN Absent ELSE revenue - OrZero(spend)

ComputePL(revenue, spend) ==
    IF revenue = Absent \/ spend = Absent THEN Absent ELSE revenue - spend

\* The profits a window may show.
Profits(thumbtack, ringba, spend) ==
    {ComputePL(CombineRevenue(t, r), s) : t \in thumbtack, r \in ringba, s \in spend}

Yesterday(d) == {d - 1}
Mtd(d)       == 1 .. d

\* The file is overwritten by every run; a failure to write it is only logged.
WriteWorkspaceSnapshot(i, f) ==
    workspace' = [workspace EXCEPT ![i] = f] \/ UNCHANGED workspace

Collected(j, f) ==
    /\ StageReturns(j, [job[j] EXCEPT !.figures = f], 0)
    /\ WriteWorkspaceSnapshot(job[j].instance, f)

\* Thumbtack and Meta are asked for the month up to yesterday, Ringba for what
\* getDateRange makes of the configured period, the month up to today. An
\* unreadable configuration throws.
CollectHvac(j) ==
    /\ Inside(j, Hvac, "data-collection")
    /\ \/ StageThrows(j, job[j], 0) /\ UNCHANGED workspace
       \/ LET done == Mtd(today - 1)
              last == Yesterday(today)
          IN  \E day \in Profits(FetchThumbtack(last), GetCampaignRevenue(last), GetAdAccountSpend(last)) :
              \E mtd \in Profits(FetchThumbtack(done), GetCampaignRevenue(Mtd(today)), GetAdAccountSpend(done)) :
                Collected(j, [day |-> day, mtd |-> mtd])

CollectFinalExpense(j) ==
    /\ Inside(j, FinalExpense, "data-collection")
    /\ \/ StageThrows(j, job[j], 0) /\ UNCHANGED workspace
       \/ \E day \in Profits({Absent}, GetCampaignRevenue({today}), GetAdAccountSpend({today})) :
          \E mtd \in Profits({Absent}, GetCampaignRevenue(Mtd(today)), GetAdAccountSpend(Mtd(today))) :
            Collected(j, [day |-> day, mtd |-> mtd])

\* Everything that can fail is caught, the figures of the request remain.
CollectU65(j) ==
    /\ Inside(j, U65, "data-collection")
    /\ \E revenue \in GetCampaignRevenue(Mtd(today)) : Collected(j, [day |-> Absent, mtd |-> revenue])

-----------------------------------------------------------------------------
(* Asking Claude, twice. *)

\* The request may fail, the answer may hold no text or no JSON, both after it
\* has been paid for, or be what the stage returns.
ClaudeJSON(j) ==
    \/ StageThrows(j, job[j], 0)
    \/ StageThrows(j, job[j], 1)
    \/ StageReturns(j, job[j], 1)

AnalyseHvac(j)           == Inside(j, Hvac, "analysis")         /\ ClaudeJSON(j) /\ UNCHANGED workspace
AnalyseFinalExpense(j)   == Inside(j, FinalExpense, "analysis") /\ ClaudeJSON(j) /\ UNCHANGED workspace
AnalyseU65(j)            == Inside(j, U65, "analysis")          /\ ClaudeJSON(j) /\ UNCHANGED workspace
SummariseHvac(j)         == Inside(j, Hvac, "summary")          /\ ClaudeJSON(j) /\ UNCHANGED workspace
SummariseFinalExpense(j) == Inside(j, FinalExpense, "summary")  /\ ClaudeJSON(j) /\ UNCHANGED workspace
SummariseU65(j)          == Inside(j, U65, "summary")           /\ ClaudeJSON(j) /\ UNCHANGED workspace

-----------------------------------------------------------------------------
(* Posting to Slack. *)

\* postToSlack never throws: how many posts came of it, and whether a ts came
\* back. The answer may be lost, the post refused, or no token be there.
PostToSlack == {[posts |-> 1, ts |-> TRUE], [posts |-> 1, ts |-> FALSE], [posts |-> 0, ts |-> FALSE]}

Tell(j, post) == [job[j] EXCEPT !.posted = @ + post.posts]

\* Seeded fault: a post without a ts is an error, and the stage is tried again.
ThrowsWithoutTs(j, post) ==
    IF post.ts THEN StageReturns(j, Tell(j, post), 0) ELSE StageThrows(j, Tell(j, post), 0)

\* With or without a ts the stage writes the report file, where errors are
\* swallowed, and returns.
PostedStage(j, post) == StageReturns(j, Tell(j, post), 0)

\* No channel is configured, or DRY_RUN is set: the stage returns unposted.
PublishReport(j) ==
    \/ StageReturns(j, job[j], 0)
    \/ \E post \in PostToSlack : PostedStage(j, post)

PublishHvac(j)         == Inside(j, Hvac, "slack-publish")         /\ PublishReport(j) /\ UNCHANGED workspace
PublishFinalExpense(j) == Inside(j, FinalExpense, "slack-publish") /\ PublishReport(j) /\ UNCHANGED workspace
PublishU65(j)          == Inside(j, U65, "slack-publish")          /\ PublishReport(j) /\ UNCHANGED workspace

-----------------------------------------------------------------------------
(* The weather notice. *)

\* An answer that is no 200 throws; hasAny says that some alert concerns us.
FetchAlerts(j) ==
    /\ Inside(j, Weather, "fetch-alerts")
    /\ \/ StageThrows(j, job[j], 0)
       \/ \E any \in BOOLEAN : StageReturns(j, [job[j] EXCEPT !.hasAny = any], 0)
    /\ UNCHANGED workspace

\* Without alerts nothing is posted.
PublishAlerts(j) ==
    /\ Inside(j, Weather, "slack-publish")
    /\ \/ ~job[j].hasAny /\ StageReturns(j, job[j], 0)
       \/ job[j].hasAny /\ PublishReport(j)
    /\ UNCHANGED workspace

-----------------------------------------------------------------------------
ReportsNext ==
    \/ Start \/ Stop
    \/ \E i \in Instances : Fire(i)
    \/ \E j \in Firings :
         \/ BeginAttempt(j)
         \/ CollectHvac(j) \/ CollectFinalExpense(j) \/ CollectU65(j)
         \/ AnalyseHvac(j) \/ AnalyseFinalExpense(j) \/ AnalyseU65(j)
         \/ SummariseHvac(j) \/ SummariseFinalExpense(j) \/ SummariseU65(j)
         \/ PublishHvac(j) \/ PublishFinalExpense(j) \/ PublishU65(j)
         \/ FetchAlerts(j) \/ PublishAlerts(j)

ReportsSpec == ReportsInit /\ [][ReportsNext]_reportVars

-----------------------------------------------------------------------------
\* A job posts once, though Slack's answer may be lost, attempts be repeated
\* and the daemon stop: only a save that throws after the post
\* (orchestrator.ts:294) makes the publish stages post again.
PostedOnce == \A j \in Firings : job[j].posted <= 1 + job[j].unsaved

\* What a window was worth. For hvac two revenues less a spend, of the days
\* before today alone, as its first stage says (01-data-collection.stage.ts:47
\* and 91); for final expense one revenue less a spend; for u65 the revenue.
Worth(i) ==
    CASE i = Hvac         -> [day |-> 1, mtd |-> today - 1]
      [] i = FinalExpense -> [day |-> 0, mtd |-> 0]
      [] OTHER            -> [day |-> 0, mtd |-> today]

NotOverstated(i, f, windows) == \A w \in windows : f[w] # Absent => f[w] <= Worth(i)[w]

\* No figure of these windows that i posted or keeps in its workspace is better
\* than the business was.
ShowsNoMore(i, windows) ==
    /\ \A j \in Firings : job[j].posted > 0 /\ job[j].instance = i => NotOverstated(i, job[j].figures, windows)
    /\ NotOverstated(i, workspace[i], windows)

\* The windows whose sources are all asked for the same days: not hvac's month.
EvenWindows(i) == IF i = Hvac THEN {"day"} ELSE {"day", "mtd"}

\* A source that fails, for one window or both, or in the middle of its pages,
\* makes a report poorer or leaves a figure out, it never makes it better than
\* the business was: not in what is posted and not in the workspace
\* (01-data-collection.stage.ts, "never zero-fill").
FiguresAreNotOverstated == \A i \in Instances : ShowsNoMore(i, EvenWindows(i))

\* hvac's month ends yesterday for each of its sources
\* (hvac-reporting/stages/01-data-collection.stage.ts:91-92, "we force
\* endDate=yesterday so both sources line up"): it does not show more than the
\* days up to yesterday were worth. Ringba is asked up to today.
HvacMonthEndsYesterday == ShowsNoMore(Hvac, {"mtd"})

\* A job none of whose stages overlapped another job's call.
OwnCallsBooked == \A j \in Firings : job[j].at # "unfired" /\ ~job[j].shared => job[j].booked = job[j].calls

\* Each call to Claude is booked on one job at most, and a job none of whose
\* stages overlapped another job's call is booked exactly its own calls, the
\* failed attempts left out (claude-client.ts:14-17, orchestrator.ts:263).
TokensAreBookedOnce ==
    /\ FoldFunction(+, 0, [j \in Firings |-> job[j].booked]) <= spent
    /\ OwnCallsBooked
=============================================================================
