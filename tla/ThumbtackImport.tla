--------------------------- MODULE ThumbtackImport ---------------------------
(***************************************************************************)
(* The import of the shared Thumbtack sheet (src/workflows/                *)
(* hvac-thumbtack-import/stages/01-import-thumbtack-sheet.stage.ts): a run *)
(* opens a log row, reads the whole sheet, upserts what it could parse by  *)
(* day, and closes its row. People edit the sheet meanwhile, and a run     *)
(* started by hand may overlap the scheduled one. A cell is the version of *)
(* a day's figures, 0 before the day has a row, or one that does not parse.*)
(* An emptied cell is a version too: it parses as zero (lines 149 and 157),*)
(* which is written over the day like any other figure.                    *)
(***************************************************************************)
EXTENDS Integers, FiniteSets

CONSTANTS
    Days,        \* days the sheet has rows for
    Imports,     \* runs of the stage
    MaxEdits,    \* bound: edits of the sheet
    Malformed    \* what a cell that does not parse holds

ASSUME MalformedAssumption == Malformed \notin Nat /\ MaxEdits \in Nat

VARIABLES
    sheet,       \* the cell of each day
    doubled,     \* the days that have two rows
    edits,       \* number of edits so far; an edit writes this number
    stored,      \* thumbtack_daily_sessions: the version of each day, 0 without a row
    import       \* the runs: where each is, what it read, its log row and its output

importVars == <<sheet, doubled, edits, stored, import>>

\* overtaken is history: another run has upserted since this one read the sheet.
NewImport == [at |-> "unstarted", rows |-> [d \in {} |-> 0], double |-> FALSE,
              log |-> "none", status |-> "none", overtaken |-> FALSE]

ImportTypeOK ==
    /\ sheet \in [Days -> 0 .. MaxEdits \union {Malformed}]
    /\ doubled \subseteq Days /\ edits \in 0 .. MaxEdits
    /\ stored \in [Days -> 0 .. MaxEdits]
    /\ \A i \in Imports :
         /\ import[i].at \in {"unstarted", "fetch", "upsert", "close", "ended", "died"}
         /\ DOMAIN import[i].rows \subseteq Days
         /\ import[i].log \in {"none", "running", "ok", "error"}
         /\ import[i].status \in {"none", "ok", "error"}

ImportInit ==
    /\ sheet = [d \in Days |-> 0] /\ doubled = {} /\ edits = 0
    /\ stored = [d \in Days |-> 0]
    /\ import = [i \in Imports |-> NewImport]

\* Somebody corrects or empties a day's cell, either is a new version of it,
\* breaks it, or adds a second row for the day.
EditSheet(d) ==
    /\ edits < MaxEdits
    /\ edits' = edits + 1
    /\ \/ sheet' \in {[sheet EXCEPT ![d] = v] : v \in {edits + 1, Malformed}} /\ UNCHANGED doubled
       \/ sheet[d] # 0 /\ doubled' = doubled \union {d} /\ UNCHANGED sheet
    /\ UNCHANGED <<stored, import>>

\* The log row; nobody looks whether it could be inserted.
OpenRun(i) ==
    /\ import[i].at = "unstarted"
    /\ \E log \in {"running", "none"} : import' = [import EXCEPT ![i].at = "fetch", ![i].log = log]
    /\ UNCHANGED <<sheet, doubled, edits, stored>>

Parses(d) == sheet[d] \notin {0, Malformed}

\* The rows the CSV yields: those with a day and two numbers, zero where a cell
\* is empty.
ParsedRows == [d \in {e \in Days : Parses(e)} |-> sheet[d]]

\* Every failure, a missing column as well as an HTTP error, reads as no rows.
FetchSheetRows(i) ==
    /\ import[i].at = "fetch"
    /\ import' = [import EXCEPT ![i].at = "upsert", ![i].rows = [d \in {} |-> 0]]
         \/ import' = [import EXCEPT ![i].at = "upsert", ![i].rows = ParsedRows,
                                     ![i].double = \E d \in doubled : Parses(d)]
    /\ UNCHANGED <<sheet, doubled, edits, stored>>

\* Seeded fault: the rows of the source are replaced instead of merged.
ReplacesAll(rows) == [d \in Days |-> IF d \in DOMAIN rows THEN rows[d] ELSE 0]

\* onConflict "source,day": the days read are written, the others stay.
Merged(rows) == [d \in Days |-> IF d \in DOMAIN rows THEN rows[d] ELSE stored[d]]

Ends(i, status) == [import EXCEPT ![i].at = "close", ![i].status = status]

\* One statement for all rows. It fails as a whole, for one when a day occurs
\* twice. Without rows there is nothing to do, which counts as success.
Upsert(i) ==
    /\ import[i].at = "upsert"
    /\ \/ import[i].rows = [d \in {} |-> 0] /\ import' = Ends(i, "ok") /\ UNCHANGED stored
       \/ /\ import[i].rows # [d \in {} |-> 0]
          /\ \/ import' = Ends(i, "error") /\ UNCHANGED stored
             \/ /\ ~import[i].double
                /\ stored' = Merged(import[i].rows)
                /\ import' = [k \in Imports |->
                     IF k # i /\ import[k].at = "upsert" THEN [import[k] EXCEPT !.overtaken = TRUE]
                     ELSE Ends(i, "ok")[k]]
    /\ UNCHANGED <<sheet, doubled, edits>>

\* The row is closed if it was opened; an update that fails leaves it running.
\* The stage returns in either case and is never tried again.
CloseRun(i) ==
    /\ import[i].at = "close"
    /\ \E log \in {import[i].log, IF import[i].log = "none" THEN "none" ELSE import[i].status} :
         import' = [import EXCEPT ![i].at = "ended", ![i].log = log]
    /\ UNCHANGED <<sheet, doubled, edits, stored>>

\* The process stops in the middle of a run.
RunDies(i) ==
    /\ import[i].at \in {"fetch", "upsert", "close"}
    /\ import' = [import EXCEPT ![i].at = "died"]
    /\ UNCHANGED <<sheet, doubled, edits, stored>>

ImportNext ==
    \/ \E d \in Days : EditSheet(d)
    \/ \E i \in Imports : OpenRun(i) \/ FetchSheetRows(i) \/ Upsert(i) \/ CloseRun(i) \/ RunDies(i)

ImportSpec == ImportInit /\ [][ImportNext]_importVars

\* A day once imported is not lost, and goes back to an older version only
\* when a run writes what it read before another run's upsert: broken cells,
\* failed reads, doubled days, failing statements and a stop in the middle of
\* a run do not take figures away (import-thumbtack-sheet.stage.ts:74-77). It
\* says nothing of what a version holds: an emptied cell is a newer one.
ImportedDaysStay ==
    [][\A d \in Days : stored'[d] < stored[d] =>
         /\ stored'[d] # 0
         /\ \E i \in Imports : import[i].overtaken /\ import[i].at = "upsert" /\ import'[i].at = "close"]_importVars
=============================================================================
