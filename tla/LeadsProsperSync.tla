-------------------------- MODULE LeadsProsperSync --------------------------
(***************************************************************************)
(* The mirror of LeadsProsper's leads (src/integrations/leadsprosper/), a  *)
(* worker and a backfill script like Ringba's with three differences that  *)
(* matter: leads are pulled one campaign after the other while the mark is *)
(* one for all of them, there is no low-water mark, and the backfill only  *)
(* moves the mark forward.                                                 *)
(***************************************************************************)
EXTENDS SyncWindow

CONSTANTS
    Campaigns,   \* campaigns of the account
    LeadMonths   \* the months (days here) a backfill may be called for

ASSUME MonthsAssumption == LeadMonths \subseteq Int

VARIABLES
    leads,        \* what the service has: [campaign, at]
    leadRows,     \* lp_leads
    leadFinal,    \* ... those stored as the service will keep them
    leadMark,     \* lp_sync_state["leads:global"]: [high], and a ghost, since:
                  \* where the windows that led to this mark began
    leadWorker,
    leadScript,
    leadLapse

leadOwn == <<leads, leadRows, leadFinal, leadMark, leadWorker, leadScript, leadLapse>>
leadVars == <<clock, leadOwn>>

NoMark == [high |-> None, since |-> None]
IdleLeadWorker == [pc |-> "idle", at |-> 0, from |-> 0, to |-> 0, mark |-> NoMark,
                   todo |-> {}, got |-> {}, fin |-> {}]
IdleLeadScript == [pc |-> "off", at |-> 0, month |-> 0, mark |-> NoMark, got |-> {}, fin |-> {}]

LeadsTypeOK ==
    /\ clock \in Times
    /\ leads \subseteq [campaign : Campaigns, at : Times]
    /\ leadFinal \subseteq leadRows /\ leadRows \subseteq leads
    /\ leadMark.high \in Times \cup {None}
    /\ leadWorker.pc \in {"idle", "list", "fetch", "mark"}
    /\ leadScript.pc \in {"off", "upsert", "read", "mark", "done"}
    /\ leadWorker.todo \subseteq Campaigns
    /\ leadLapse \in {"none", "page", "batch", "read", "hole"}

LeadsInit ==
    /\ clock = 0
    /\ leads = {} /\ leadRows = {} /\ leadFinal = {}
    /\ leadMark = NoMark
    /\ leadWorker = IdleLeadWorker /\ leadScript = IdleLeadScript
    /\ leadLapse = "none"

LeadLapse(kind) == IF leadLapse = "none" THEN kind ELSE leadLapse

LeadClockTicks ==
    /\ clock < MaxTime
    /\ leadWorker.pc = "fetch" => clock < leadWorker.at + MaxHold
    /\ leadScript.pc = "upsert" => clock < leadScript.at + MaxHold
    /\ clock' = clock + 1
    /\ UNCHANGED <<leads, leadRows, leadFinal, leadMark, leadWorker, leadScript, leadLapse>>

LeadComesIn ==
    /\ Cardinality(leads) < MaxRecords
    /\ \E c \in Campaigns :
         /\ [campaign |-> c, at |-> clock] \notin leads
         /\ leads' = leads \cup {[campaign |-> c, at |-> clock]}
    /\ UNCHANGED <<clock, leadRows, leadFinal, leadMark, leadWorker, leadScript, leadLapse>>

FinalLeads(s) == {l \in s : l.at + Settles <= clock}
LeadsIn(cs, span) == {l \in leads : l.campaign \in cs /\ l.at \in span}
Dates(s) == {l.at : l \in s}

\* upsertLeads: a batch that fails is logged and skipped.
UpsertLeads(got, fin, lost) ==
    /\ leadRows' = leadRows \cup (got \ lost)
    /\ leadFinal' = (leadFinal \ (got \ lost)) \cup (fin \ lost)
    /\ leadLapse' = IF lost = {} THEN leadLapse ELSE LeadLapse("batch")

-----------------------------------------------------------------------------
\* getSyncState: without a low mark, a failed read is a hole as soon as the
\* cold start begins behind what the mark would have pulled again.
LeadTickStarts ==
    /\ leadWorker.pc = "idle"
    /\ \E m \in {leadMark, NoMark} :
         LET from == WindowStart(m.high, clock) IN
         /\ leadWorker' = [IdleLeadWorker EXCEPT !.pc = "list", !.from = from, !.to = clock, !.mark = m]
         /\ leadLapse' = IF /\ m # leadMark /\ leadMark.high # None
                            /\ DayStart(Day(from)) > leadMark.high - Overlap
                         THEN LeadLapse("read") ELSE leadLapse
    /\ UNCHANGED <<clock, leads, leadRows, leadFinal, leadMark, leadScript>>

\* fetchAllLeads lists the campaigns again; no answer is an empty list.
LeadListsCampaigns ==
    /\ leadWorker.pc = "list"
    /\ \E cs \in {Campaigns, {}} :
         leadWorker' = [leadWorker EXCEPT !.pc = "fetch", !.at = clock, !.todo = cs]
    /\ UNCHANGED <<clock, leads, leadRows, leadFinal, leadMark, leadScript, leadLapse>>

\* One campaign's pages. A page without an answer and the five hundredth page
\* both end the loop as if the list did.
FetchCampaignLeads(c) ==
    /\ leadWorker.pc = "fetch" /\ c \in leadWorker.todo
    /\ LET all == LeadsIn({c}, Span(leadWorker.from, leadWorker.to)) IN
       \E got \in SUBSET all :
         /\ leadWorker' = [leadWorker EXCEPT !.todo = @ \ {c}, !.got = @ \cup got,
                                             !.fin = @ \cup FinalLeads(got)]
         /\ leadLapse' = IF got = all THEN leadLapse ELSE LeadLapse("page")
    /\ UNCHANGED <<clock, leads, leadRows, leadFinal, leadMark, leadScript>>

LeadWorkerUpserts ==
    /\ leadWorker.pc = "fetch" /\ leadWorker.todo = {}
    /\ \E lost \in SUBSET leadWorker.got : UpsertLeads(leadWorker.got, leadWorker.fin, lost)
    /\ leadWorker' = [leadWorker EXCEPT !.pc = "mark", !.todo = {}]
    /\ UNCHANGED <<clock, leads, leadMark, leadScript>>

\* Seeded fault: the catch block marks the window as done.
MarkToEnd(w) == [w.mark EXCEPT !.high = w.to, !.since = IF @ = None THEN w.from ELSE @]

\* The catch block writes the mark the tick had read.
MarkAsRead(w) == w.mark

NewestLead(w) == NewHigh(Dates(w.got), w.mark.high)

LeadSetsMark ==
    /\ leadWorker.pc = "mark"
    /\ \/ leadMark' = [high  |-> NewestLead(leadWorker),
                       since |-> IF leadWorker.mark.high = None THEN leadWorker.from
                                 ELSE leadWorker.mark.since]
       \/ UNCHANGED leadMark
    /\ leadWorker' = IdleLeadWorker
    /\ UNCHANGED <<clock, leads, leadRows, leadFinal, leadScript, leadLapse>>

LeadSyncThrows ==
    /\ leadWorker.pc \in {"list", "fetch"}
    /\ \/ leadMark' = MarkAsRead(leadWorker)
       \/ UNCHANGED leadMark
    /\ leadWorker' = IdleLeadWorker
    /\ UNCHANGED <<clock, leads, leadRows, leadFinal, leadScript, leadLapse>>

LeadWorkerDies ==
    /\ leadWorker.pc # "idle"
    /\ leadWorker' = IdleLeadWorker
    /\ UNCHANGED <<clock, leads, leadRows, leadFinal, leadMark, leadScript, leadLapse>>

-----------------------------------------------------------------------------
(* scripts/backfill-leadsprosper.ts, for one month and all campaigns.      *)

LeadBackfillFetches ==
    /\ leadScript.pc = "off"
    /\ \E d \in LeadMonths :
         LET all == LeadsIn(Campaigns, Span(DayStart(d), DayStart(d))) IN
         /\ d <= Day(clock)
         /\ \E got \in SUBSET all :
              /\ leadScript' = [IdleLeadScript EXCEPT !.pc = "upsert", !.at = clock, !.month = d,
                                                      !.got = got, !.fin = FinalLeads(got)]
              /\ leadLapse' = IF got = all THEN leadLapse ELSE LeadLapse("page")
    /\ UNCHANGED <<clock, leads, leadRows, leadFinal, leadMark, leadWorker>>

LeadBackfillUpserts ==
    /\ leadScript.pc = "upsert"
    /\ \E lost \in SUBSET leadScript.got : UpsertLeads(leadScript.got, leadScript.fin, lost)
    /\ leadScript' = [leadScript EXCEPT !.pc = IF leadScript.got = {} THEN "done" ELSE "read"]
    /\ UNCHANGED <<clock, leads, leadMark, leadWorker>>

LeadBackfillReads ==
    /\ leadScript.pc = "read"
    /\ \E m \in {leadMark, NoMark} :
         leadScript' = [leadScript EXCEPT
             !.pc = IF Max(Dates(leadScript.got)) > (IF m.high = None THEN 0 ELSE m.high) THEN "mark" ELSE "done",
             !.mark = m]
    /\ UNCHANGED <<clock, leads, leadRows, leadFinal, leadMark, leadWorker, leadLapse>>

\* The month must reach back to where the next tick would have begun.
LeadBackfillMarks ==
    /\ leadScript.pc = "mark"
    /\ leadMark' = [high  |-> Max(Dates(leadScript.got)),
                    since |-> IF leadScript.mark.high = None THEN DayStart(leadScript.month)
                              ELSE leadScript.mark.since]
    /\ leadLapse' = IF /\ leadScript.mark.high # None
                       /\ DayStart(leadScript.month) > leadScript.mark.high - Overlap
                    THEN LeadLapse("hole") ELSE leadLapse
    /\ leadScript' = [IdleLeadScript EXCEPT !.pc = "done"]
    /\ UNCHANGED <<clock, leads, leadRows, leadFinal, leadWorker>>

LeadBackfillDies ==
    /\ leadScript.pc \notin {"off", "done"}
    /\ leadScript' = [IdleLeadScript EXCEPT !.pc = "done"]
    /\ UNCHANGED <<clock, leads, leadRows, leadFinal, leadMark, leadWorker, leadLapse>>

-----------------------------------------------------------------------------
LeadsNext ==
    \/ LeadClockTicks \/ LeadComesIn
    \/ LeadTickStarts \/ LeadListsCampaigns \/ LeadWorkerUpserts
    \/ \E c \in Campaigns : FetchCampaignLeads(c)
    \/ LeadSetsMark \/ LeadSyncThrows \/ LeadWorkerDies
    \/ LeadBackfillFetches \/ LeadBackfillUpserts \/ LeadBackfillReads
    \/ LeadBackfillMarks \/ LeadBackfillDies

LeadsSpec == LeadsInit /\ [][LeadsNext]_leadVars

(* Though the campaigns of a tick are pulled at different times and share  *)
(* one mark, no lead older than what the next tick pulls is missing or     *)
(* provisional: a lead that comes in for a campaign already pulled, while  *)
(* another campaign moves the mark past it, is pulled by a later tick. The *)
(* exceptions are the failures the client and the repository swallow, a    *)
(* failed read of the mark, and a backfill that leaves a gap behind it.    *)
LeadsAreMirrored ==
    leadLapse = "none" /\ leadMark.high # None =>
        \A l \in leads :
            l.at >= leadMark.since /\ l.at < LeftBehind(leadMark.high) => l \in leadFinal
=============================================================================
