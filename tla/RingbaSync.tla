----------------------------- MODULE RingbaSync -----------------------------
(***************************************************************************)
(* The mirror of Ringba's calls in Supabase: the hourly worker             *)
(* (src/integrations/ringba/sync.ts), the backfill script that may run at  *)
(* the same time (scripts/backfill-ringba.ts), the row                     *)
(* ringba_sync_state["calls:global"] both read and write without a lock,   *)
(* and hasCoverage, by which a report decides to read the mirror instead   *)
(* of the live API. A call is the instant it came in (one per instant);    *)
(* Ringba edits it until Settles later, so a copy is settled or not.       *)
(***************************************************************************)
EXTENDS SyncWindow

CONSTANTS
    EmptyToStop,  \* EMPTY_MONTHS_TO_STOP; a month is one day here
    Ranges        \* the --from and --to days the backfill is called with

ASSUME RangesAssumption == Ranges \subseteq [from : Int, to : Int]

VARIABLES
    calls,     \* what Ringba has: the instants of its calls
    stored,    \* ringba_calls: the calls the mirror has
    settled,   \* ... and those it has in their last form
    row,       \* the sync state [high, low]; seen is a ghost: the newest instant
               \* the pull it was written for could have returned
    worker,    \* the worker's tick
    script,    \* the backfill script; it runs once in a behaviour
    lapse      \* history: a failure no caller was told about

ringbaOwn == <<calls, stored, settled, row, worker, script, lapse>>
ringbaVars == <<clock, ringbaOwn>>

NoRow == [high |-> None, low |-> None, seen |-> None]
IdleWorker == [pc |-> "idle", at |-> 0, from |-> 0, to |-> 0, row |-> NoRow, got |-> {}, fin |-> {}]
IdleScript == [pc |-> "off", at |-> 0, cursor |-> 0, from |-> 0, to |-> 0, row |-> NoRow,
               got |-> {}, fin |-> {}, all |-> {}, empty |-> 0]

RingbaTypeOK ==
    /\ clock \in Times
    /\ calls \subseteq Times
    /\ settled \subseteq stored
    /\ stored \subseteq calls
    /\ row.high \in Times \cup {None}
    /\ row.low \in Marks
    /\ worker.pc \in {"idle", "fetch", "upsert", "mark"}
    /\ script.pc \in {"off", "fetch", "upsert", "mark", "done"}
    /\ worker.fin \subseteq worker.got
    /\ script.fin \subseteq script.got
    /\ row.seen \in Times \cup {None}
    /\ lapse \in {"none", "page", "batch", "outage", "hole"}

RingbaInit ==
    /\ clock = 0
    /\ calls = {} /\ stored = {} /\ settled = {}
    /\ row = NoRow
    /\ worker = IdleWorker /\ script = IdleScript
    /\ lapse = "none"

\* A hole, which only the backfill leaves, gives way to any other failure.
Lapse(kind) == IF lapse \in {"none", "hole"} THEN kind ELSE lapse

-----------------------------------------------------------------------------
(* The service and the clock.                                              *)

\* Nobody sits on a pull longer than MaxHold.
RingbaClockTicks ==
    /\ clock < MaxTime
    /\ \A p \in {worker, script} : p.pc = "upsert" => clock < p.at + MaxHold
    /\ clock' = clock + 1
    /\ UNCHANGED <<calls, stored, settled, row, worker, script, lapse>>

CallComesIn ==
    /\ clock \notin calls
    /\ Cardinality(calls) < MaxRecords
    /\ calls' = calls \cup {clock}
    /\ UNCHANGED <<clock, stored, settled, row, worker, script, lapse>>

Settled(c) == c + Settles <= clock

\* fetchCallLogs: every page of the window, or those before the page for which
\* request gave up (a null answer ends the loop as if the list did).
Pulls(from, to) ==
    [all : {calls \cap Span(from, to)}, got : SUBSET (calls \cap Span(from, to))]

\* upsertCalls: a batch that fails is logged and skipped.
Upsert(got, fin, lost) ==
    /\ stored' = stored \cup (got \ lost)
    /\ settled' = (settled \ (got \ lost)) \cup (fin \ lost)
    /\ lapse' = IF lost = {} THEN lapse ELSE Lapse("batch")

-----------------------------------------------------------------------------
(* The worker. A tick that finds another one in flight does nothing.       *)

\* getSyncState answers null when its query fails: the tick then starts cold.
\* Only a row without a high mark can leave a hole, when the worker was down
\* for longer than it looks back.
RunOnce ==
    /\ worker.pc = "idle"
    /\ \E r \in {row, NoRow} :
         LET from == WindowStart(r.high, clock) IN
         /\ worker' = [IdleWorker EXCEPT !.pc = "fetch", !.row = r, !.from = from, !.to = clock]
         /\ lapse' = IF r.high = None /\ r.low # None /\ DayStart(Day(from)) > r.seen
                     THEN Lapse("outage") ELSE lapse
    /\ UNCHANGED <<clock, calls, stored, settled, row, script>>

FetchCallLogs ==
    /\ worker.pc = "fetch"
    /\ \E p \in Pulls(worker.from, worker.to) :
         /\ worker' = [worker EXCEPT !.pc = "upsert", !.at = clock, !.got = p.got,
                                     !.fin = {c \in p.got : Settled(c)}]
         /\ lapse' = IF p.got = p.all THEN lapse ELSE Lapse("page")
    /\ UNCHANGED <<clock, calls, stored, settled, row, script>>

UpsertCalls ==
    /\ worker.pc = "upsert"
    /\ \E lost \in SUBSET worker.got : Upsert(worker.got, worker.fin, lost)
    /\ worker' = [worker EXCEPT !.pc = "mark"]
    /\ UNCHANGED <<clock, calls, row, script>>

\* The low mark only moves back, as far as this tick knows.
NewLow(from, old) == IF old = None \/ from < old THEN from ELSE old

\* setSyncState; a write that fails is logged and forgotten.
SetSyncState ==
    /\ worker.pc = "mark"
    /\ \/ row' = [high |-> NewHigh(worker.got, worker.row.high),
                  low  |-> NewLow(worker.from, worker.row.low),
                  seen |-> Min({worker.at, DayEnd(Day(worker.to))})]
       \/ UNCHANGED row
    /\ worker' = IdleWorker
    /\ UNCHANGED <<clock, calls, stored, settled, script, lapse>>

\* Seeded fault: the catch block advances the mark to the end of the window.
AdvancedRow(w) == [high |-> w.to, low |-> NewLow(w.from, w.row.low), seen |-> w.to]

\* What the catch block writes: the marks as they were when the tick read them.
RestoredRow(w) == w.row

SyncThrows ==
    /\ worker.pc \in {"fetch", "upsert"}
    /\ \/ row' = RestoredRow(worker)
       \/ UNCHANGED row
    /\ worker' = IdleWorker
    /\ UNCHANGED <<clock, calls, stored, settled, script, lapse>>

DaemonDies ==
    /\ worker.pc # "idle"
    /\ worker' = IdleWorker
    /\ UNCHANGED <<clock, calls, stored, settled, row, script, lapse>>

-----------------------------------------------------------------------------
(* The backfill walks its months from the newest to the oldest.            *)

\* from = None: walk until EmptyToStop months in a row had no call.
BackfillStarts ==
    /\ script.pc = "off"
    /\ \E g \in Ranges :
         /\ g.to <= Day(clock)
         /\ script' = [IdleScript EXCEPT !.pc = "fetch", !.cursor = g.to, !.from = g.from, !.to = g.to]
    /\ UNCHANGED <<clock, calls, stored, settled, row, worker, lapse>>

WalkIsOver(s) ==
    \/ s.from # None /\ s.cursor < s.from
    \/ s.from = None /\ s.empty >= EmptyToStop

BackfillFetches ==
    /\ script.pc = "fetch" /\ ~WalkIsOver(script)
    /\ \E p \in Pulls(DayStart(script.cursor), DayStart(script.cursor)) :
         /\ script' = IF p.got = {}
                      THEN [script EXCEPT !.cursor = @ - 1,
                                              !.empty = IF script.from = None THEN @ + 1 ELSE @]
                      ELSE [script EXCEPT !.pc = "upsert", !.at = clock, !.got = p.got, !.empty = 0,
                                          !.fin = {c \in p.got : Settled(c)}]
         /\ lapse' = IF p.got = p.all THEN lapse ELSE Lapse("page")
    /\ UNCHANGED <<clock, calls, stored, settled, row, worker>>

BackfillUpserts ==
    /\ script.pc = "upsert"
    /\ \E lost \in SUBSET script.got : Upsert(script.got, script.fin, lost)
    /\ script' = [script EXCEPT !.pc = "fetch", !.at = 0, !.cursor = @ - 1, !.all = @ \cup script.got,
                                !.got = {}, !.fin = {}]
    /\ UNCHANGED <<clock, calls, row, worker>>

BackfillReads ==
    /\ script.pc = "fetch" /\ WalkIsOver(script)
    /\ \E r \in {row, NoRow} : script' = [script EXCEPT !.pc = "mark", !.row = r]
    /\ UNCHANGED <<clock, calls, stored, settled, row, worker, lapse>>

\* The months walked reach from below the overlap of the row's high mark to its
\* low mark or beyond: the marks written stand for one unbroken stretch.
LeavesNoHole(s) ==
    \/ s.row.low = None
    \/ s.all = {}
    \/ /\ DayStart(s.cursor + 1) <= (IF s.row.high = None THEN s.row.seen ELSE s.row.high - Overlap)
       /\ DayEnd(s.to) + 1 >= s.row.low

\* The script writes the newest call it found, even one older than the mark.
BackfillMarks ==
    /\ script.pc = "mark"
    /\ \/ /\ row' = [script.row EXCEPT
                        !.high = NewHigh(script.all, @),
                        !.low  = IF script.all = {} THEN @ ELSE NewLow(Min(script.all), @)]
          /\ lapse' = IF LeavesNoHole(script) THEN lapse ELSE Lapse("hole")
       \/ UNCHANGED <<row, lapse>>
    /\ script' = [IdleScript EXCEPT !.pc = "done"]
    /\ UNCHANGED <<clock, calls, stored, settled, worker>>

\* Ctrl-C, process.exit or an exception.
BackfillDies ==
    /\ script.pc \notin {"off", "done"}
    /\ script' = [IdleScript EXCEPT !.pc = "done"]
    /\ UNCHANGED <<clock, calls, stored, settled, row, worker, lapse>>

-----------------------------------------------------------------------------
RingbaNext ==
    \/ RingbaClockTicks \/ CallComesIn
    \/ RunOnce \/ FetchCallLogs \/ UpsertCalls
    \/ SetSyncState \/ SyncThrows \/ DaemonDies
    \/ BackfillStarts \/ BackfillFetches \/ BackfillUpserts \/ BackfillReads
    \/ BackfillMarks \/ BackfillDies

RingbaSpec == RingbaInit /\ [][RingbaNext]_ringbaVars

-----------------------------------------------------------------------------
(* The readers: a report for the UTC days from .. to.                      *)

\* Seeded fault: only the low mark is compared.
CoversFrom(from, to) == row.low # None /\ row.high # None /\ row.low <= DayStart(from)

HasCoverage(from, to) ==
    /\ row.low # None /\ row.high # None
    /\ row.low <= DayStart(from)
    /\ row.high >= DayEnd(to)

\* The calls getRevenueReport counts, and those the live API would list.
MirrorReport(from, to) == stored \cap (DayStart(from) .. DayEnd(to))
LiveReport(from, to)   == calls \cap (DayStart(from) .. DayEnd(to))

\* getCampaignRevenue prefers the mirror where it has coverage.
ReportedCalls(from, to) ==
    IF HasCoverage(from, to) THEN MirrorReport(from, to) ELSE LiveReport(from, to)

-----------------------------------------------------------------------------
(* Between its marks the mirror is complete and, up to what the next tick  *)
(* pulls again, settled:                                                   *)
(* whatever order ticks, a backfill, crashes, failed reads and writes of   *)
(* the row and thrown errors come in, nothing the window has left behind   *)
(* is missing or still in a provisional form. The exceptions are those     *)
(* lapse names: a page or a batch that failed without anybody being told,  *)
(* an outage longer than the look-back before the first call, and a        *)
(* backfill of months that do not join what the row covers.                *)
MarksAreTrue ==
    lapse = "none" /\ row.high # None /\ row.low # None =>
        \A c \in calls : c >= row.low /\ c < LeftBehind(row.high) => c \in settled

(* A report served from the mirror counts the calls the live API has: the  *)
(* comment of getCampaignRevenue promises "byte-for-byte the same numbers".*)
ReportsMissNoCall ==
    lapse = "none" =>
        \A from, to \in 0 .. Day(clock) :
            from <= to => ReportedCalls(from, to) = LiveReport(from, to)

(* hasCoverage: "True if our sync has covered the requested range". A      *)
(* backfill of months that do not join the covered stretch makes it say so *)
(* of the months in between, which nobody ever pulled.                     *)
CoverageWasPulled ==
    lapse \in {"none", "hole"} =>
        \A from, to \in 0 .. Day(clock) :
            from <= to /\ HasCoverage(from, to) => LiveReport(from, to) \subseteq stored
=============================================================================
