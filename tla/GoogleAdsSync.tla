---------------------------- MODULE GoogleAdsSync ----------------------------
(***************************************************************************)
(* runGoogleAdsSync (src/integrations/google-ads/sync-worker.ts): every    *)
(* enabled leaf account is pulled into two tables, an account that fails   *)
(* is counted and skipped, and a row of google_ads_sync_runs says how the  *)
(* run went. The nightly worker and the command line are two processes;    *)
(* only the worker keeps its own runs apart. The figures of an account     *)
(* grow newer with time, a version number stands for them.                 *)
(***************************************************************************)
EXTENDS Integers, FiniteSets

CONSTANTS
    Accounts,     \* customers that may be listed as enabled leaves
    AdsCallers,   \* "worker" and "cli"
    MaxRuns,      \* bound: rows of google_ads_sync_runs
    MaxVersion    \* bound: how often the figures change

ASSUME AdsAssumption == IsFiniteSet(Accounts) /\ {MaxRuns, MaxVersion} \subseteq Nat

VARIABLES
    figures,      \* Google's figures, one version for all accounts
    daily,        \* google_ads_daily_metrics: the version stored of each account
    campaign,     \* google_ads_campaign_metrics, likewise
    adsRuns,      \* the log rows, a sequence number each
    adsProc,      \* what each caller is doing
    adsTrace      \* history of each run: [began, leaves, alone]

adsVars == <<figures, daily, campaign, adsRuns, adsProc, adsTrace>>

RunIds == 1 .. MaxRuns
NoRun  == [status |-> "none", synced |-> 0, failed |-> 0]
NoTrace == [began |-> 0, leaves |-> {}, alone |-> TRUE]
AtRest == [pc |-> "rest", run |-> 0, todo |-> {}, account |-> {}, got |-> 0,
           synced |-> 0, failed |-> 0, error |-> FALSE]

AdsTypeOK ==
    /\ figures \in 0 .. MaxVersion
    /\ daily \in [Accounts -> 0 .. MaxVersion] /\ campaign \in [Accounts -> 0 .. MaxVersion]
    /\ \A i \in RunIds : adsRuns[i].status \in {"none", "running", "ok", "partial", "error"}
    /\ \A p \in AdsCallers : adsProc[p].pc \in {"rest", "list", "pick", "daily", "dailyRows", "campaign", "campaignRows"}

AdsInit ==
    /\ figures = 0
    /\ daily = [a \in Accounts |-> 0] /\ campaign = [a \in Accounts |-> 0]
    /\ adsRuns = [i \in RunIds |-> NoRun]
    /\ adsProc = [p \in AdsCallers |-> AtRest]
    /\ adsTrace = [i \in RunIds |-> NoTrace]

FiguresChange ==
    /\ figures < MaxVersion
    /\ figures' = figures + 1
    /\ UNCHANGED <<daily, campaign, adsRuns, adsProc, adsTrace>>

\* The row is inserted as running; when that fails the run throws at once.
AdsRunBegins(p) ==
    /\ adsProc[p].pc = "rest"
    /\ \E i \in RunIds :
         /\ adsRuns[i].status = "none" /\ \A j \in 1 .. (i - 1) : adsRuns[j].status # "none"
         /\ adsRuns' = [adsRuns EXCEPT ![i].status = "running"]
         /\ adsProc' = [adsProc EXCEPT ![p] = [AtRest EXCEPT !.pc = "list", !.run = i]]
         /\ adsTrace' = [j \in RunIds |->
              IF j = i THEN [began |-> figures, leaves |-> {},
                             alone |-> \A q \in AdsCallers : adsProc[q].pc = "rest"]
              ELSE IF \E q \in AdsCallers : adsProc[q].run = j THEN [adsTrace[j] EXCEPT !.alone = FALSE]
              ELSE adsTrace[j]]
    /\ UNCHANGED <<figures, daily, campaign>>

\* Seeded fault: a run some of whose accounts failed is called ok.
AnySyncedIsOk(s) == IF s.error /\ s.synced = 0 THEN "error" ELSE "ok"

AdsStatus(s) ==
    IF s.error /\ s.synced = 0 THEN "error" ELSE IF s.failed > 0 THEN "partial" ELSE "ok"

\* Nobody looks whether the row could be updated.
AdsRunEnds(p, s) ==
    /\ \/ adsRuns' = [adsRuns EXCEPT ![s.run] =
                         [status |-> AdsStatus(s), synced |-> s.synced, failed |-> s.failed]]
       \/ UNCHANGED adsRuns
    /\ adsProc' = [adsProc EXCEPT ![p] = AtRest]

\* listCustomerClients, the upsert of the directory, and the leaves to pull:
\* all of them, or the one the command line names, which must be among them.
ListCustomers(p) ==
    /\ adsProc[p].pc = "list"
    /\ \/ \E leaves \in SUBSET Accounts :
            /\ adsProc' = [adsProc EXCEPT ![p].pc = "pick", ![p].todo = leaves]
            /\ adsTrace' = [adsTrace EXCEPT ![adsProc[p].run].leaves = leaves]
            /\ UNCHANGED adsRuns
       \/ AdsRunEnds(p, [adsProc[p] EXCEPT !.error = TRUE]) /\ UNCHANGED adsTrace
    /\ UNCHANGED <<figures, daily, campaign>>

PickAccount(p) ==
    /\ adsProc[p].pc = "pick"
    /\ \/ \E a \in adsProc[p].todo :
            /\ adsProc' = [adsProc EXCEPT ![p].pc = "daily", ![p].account = {a}, ![p].todo = @ \ {a}]
            /\ UNCHANGED adsRuns
       \/ adsProc[p].todo = {} /\ AdsRunEnds(p, adsProc[p])
    /\ UNCHANGED <<figures, daily, campaign, adsTrace>>

\* fetchDailyMetrics and fetchCampaignMetrics.
FetchMetrics(p) ==
    /\ adsProc[p].pc \in {"daily", "campaign"}
    /\ adsProc' = [adsProc EXCEPT ![p].got = figures,
                     ![p].pc = IF @ = "daily" THEN "dailyRows" ELSE "campaignRows"]
    /\ UNCHANGED <<figures, daily, campaign, adsRuns, adsTrace>>

Stored(table, p) == [a \in Accounts |-> IF a \in adsProc[p].account THEN adsProc[p].got ELSE table[a]]

UpsertDaily(p) ==
    /\ adsProc[p].pc = "dailyRows"
    /\ daily' = Stored(daily, p)
    /\ adsProc' = [adsProc EXCEPT ![p].pc = "campaign"]
    /\ UNCHANGED <<figures, campaign, adsRuns, adsTrace>>

UpsertCampaigns(p) ==
    /\ adsProc[p].pc = "campaignRows"
    /\ campaign' = Stored(campaign, p)
    /\ adsProc' = [adsProc EXCEPT ![p].pc = "pick", ![p].account = {}, ![p].synced = @ + 1]
    /\ UNCHANGED <<figures, daily, adsRuns, adsTrace>>

\* Any of the four steps throws: the account is counted as failed, though its
\* daily rows may be stored.
AccountFails(p) ==
    /\ adsProc[p].account # {}
    /\ adsProc' = [adsProc EXCEPT ![p].pc = "pick", ![p].account = {}, ![p].failed = @ + 1,
                                  ![p].error = TRUE]
    /\ UNCHANGED <<figures, daily, campaign, adsRuns, adsTrace>>

\* The process dies: its row stays as it is.
AdsCallerDies(p) ==
    /\ adsProc[p].pc # "rest"
    /\ adsProc' = [adsProc EXCEPT ![p] = AtRest]
    /\ UNCHANGED <<figures, daily, campaign, adsRuns, adsTrace>>

AdsNext ==
    \/ FiguresChange
    \/ \E p \in AdsCallers :
         \/ AdsRunBegins(p) \/ ListCustomers(p) \/ PickAccount(p) \/ FetchMetrics(p)
         \/ UpsertDaily(p) \/ UpsertCampaigns(p) \/ AccountFails(p) \/ AdsCallerDies(p)

AdsSpec == AdsInit /\ [][AdsNext]_adsVars

(* The log tells the truth: after a run logged as ok that no other run     *)
(* overlapped, both tables have every account it listed at least as fresh  *)
(* as when it began, whatever later runs did or failed to do; a run logged *)
(* as an error stored no account completely, and the counters of a partial *)
(* run add up to the accounts it listed.                                   *)
RunLogIsTrue ==
    \A i \in RunIds : LET r == adsRuns[i]  t == adsTrace[i] IN
        /\ r.status = "ok" /\ t.alone /\ (\A j \in RunIds : adsTrace[j].alone) =>
             \A a \in t.leaves : daily[a] >= t.began /\ campaign[a] >= t.began
        /\ r.status \in {"ok", "partial"} => r.synced + r.failed = Cardinality(t.leaves)
        /\ r.status = "error" => r.synced = 0
=============================================================================
