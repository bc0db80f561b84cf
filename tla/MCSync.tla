------------------------------- MODULE MCSync -------------------------------
(* Small instance of DataSync for TLC. *)
EXTENDS DataSync

\* A month of the past, a walk from today without --from, and the last months.
MCRanges == {[from |-> 0, to |-> 0], [from |-> None, to |-> 2], [from |-> 1, to |-> 2]}

\* After the first unreported failure nothing is claimed any more.
NothingLapsed == lapse = "none" /\ leadLapse = "none"

\* A backfill that leaves a hole is followed further.
AtMostAHole == lapse \in {"none", "hole"}
=============================================================================
