---------------------------- MODULE MCOperations ----------------------------
(* Small instance of Operations for TLC. *)
EXTENDS Operations

\* The jobs of one agent come in company, those of the others alone.
MCOverlaps == {U65}

Hours(from, to) == from * 24 .. to * 24 + 23

\* The end of a leap February and the change to summer time, the end of another
\* month, the change back, and the end of the year.
MCInstants == Hours(DateOf(2024, 2, 27), DateOf(2024, 3, 12))
              \union Hours(DateOf(2024, 10, 30), DateOf(2024, 11, 1))
              \union Hours(DateOf(2024, 11, 3), DateOf(2024, 11, 6))
              \union Hours(DateOf(2024, 12, 28), DateOf(2025, 1, 7))
=============================================================================
