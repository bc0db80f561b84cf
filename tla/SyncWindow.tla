----------------------------- MODULE SyncWindow -----------------------------
(***************************************************************************)
(* What the Ringba and the LeadsProsper sync workers share: an hourly tick *)
(* pulls the window from the high-water mark, less an overlap, to now into *)
(* Supabase. Requests name whole UTC days, so a window reaches back to the *)
(* beginning of its first day. Time is counted in steps of a clock.        *)
(***************************************************************************)
EXTENDS Integers, FiniteSets, FiniteSetsExt

CONSTANTS
    DayLen,     \* clock steps of a day
    Overlap,    \* overlapMs: how far behind its mark a tick begins
    Lookback,   \* lookbackDays: where a tick without a mark begins
    Settles,    \* how long the service still edits a record after its date
    MaxHold,    \* how long a worker may take from a request to the upsert
    MaxTime,    \* bound: clock steps of a behaviour
    MaxRecords  \* bound: records the service has

\* The overlap "covers hourly cadence + post-call finalization" only if it is
\* at least as long as an edit and a slow tick together.
ASSUME OverlapAssumption ==
    /\ {DayLen, Overlap, Lookback, Settles, MaxHold, MaxTime, MaxRecords} \subseteq Nat
    /\ DayLen > 0
    /\ Overlap >= Settles + MaxHold

VARIABLE clock

Times == 0 .. MaxTime
None  == -1000            \* a null mark
Marks == Int

Day(t)       == t \div DayLen
DayStart(d)  == d * DayLen
DayEnd(d)    == DayStart(d + 1) - 1

\* The instants a request for the UTC days of [from, to] names.
Span(from, to) == DayStart(Day(from)) .. DayEnd(Day(to))

\* Seeded fault: the overlap is forgotten.
NoOverlap(high, now) == IF high # None THEN high ELSE now - Lookback

\* windowStart of syncCalls and syncLeads.
WindowStart(high, now) == IF high # None THEN high - Overlap ELSE now - Lookback

\* What came in before this is not pulled again.
LeftBehind(high) == DayStart(Day(WindowStart(high, clock)))

\* Seeded fault: an empty pull resets the mark to the epoch.
Epoch == -999
EpochOnEmpty(got, old) == IF got # {} THEN Max(got) ELSE Epoch

\* The newest record of a pull becomes the mark; an empty pull keeps the old one.
NewHigh(got, old) == IF got # {} THEN Max(got) ELSE old

=============================================================================
