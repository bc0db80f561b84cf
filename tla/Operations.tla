------------------------------ MODULE Operations ------------------------------
(***************************************************************************)
(* The daemon's background operations: the scheduled reports, the import   *)
(* of the Thumbtack sheet, the intake of requests, the notices of jobs and *)
(* the dates that reports ask for. They share nothing but the Graph token, *)
(* which intake and notices each see used by the other                     *)
(* (GraphToken!OthersUseToken), so a behaviour shows one of them: focus    *)
(* names it and never changes.                                             *)
(***************************************************************************)
EXTENDS ScheduledReports, ThumbtackImport, Notifiers, Intake, PacificDates

VARIABLE focus

operationVars == <<focus, reportVars, importVars, noticeVars, intakeVars, dateVars>>

OperationsInit ==
    /\ focus \in {"reports", "import", "notices", "intake", "dates"}
    /\ ReportsInit /\ ImportInit /\ NoticesInit /\ IntakeInit /\ DatesInit
    /\ focus # "reports" => today = CHOOSE d \in DaysOfMonth : TRUE
    /\ focus # "dates" => now = CHOOSE t \in Instants : t - 1 \notin Instants

OperationsNext ==
    /\ \/ /\ focus = "reports" /\ ReportsNext
          /\ UNCHANGED <<importVars, noticeVars, intakeVars, dateVars>>
       \/ /\ focus = "import" /\ ImportNext
          /\ UNCHANGED <<reportVars, noticeVars, intakeVars, dateVars>>
       \/ /\ focus = "notices" /\ NoticesNext
          /\ UNCHANGED <<reportVars, importVars, processed, openTasks, unread, received,
                         running, poller, queue, jobs, dropped, lapsed, lapses, dateVars>>
       \/ /\ focus = "intake" /\ IntakeNext
          /\ UNCHANGED <<reportVars, importVars, noticed, threadTs, channel, mails, forgot, dateVars>>
       \/ /\ focus = "dates" /\ DatesNext
          /\ UNCHANGED <<reportVars, importVars, noticeVars, intakeVars>>
    /\ UNCHANGED focus

OperationsSpec == OperationsInit /\ [][OperationsNext]_operationVars

\* Every variable of the parts has its type.
OperationsTypeOK == ReportsTypeOK /\ ImportTypeOK /\ NoticesTypeOK /\ IntakeTypeOK
=============================================================================
