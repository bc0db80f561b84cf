------------------------------- MODULE MCJobs -------------------------------
(* JobOrchestrator's runs: the model values of the configurations stand    *)
(* for the jobs and for the HTTP requests about them.                      *)
EXTENDS JobProperties
=============================================================================
