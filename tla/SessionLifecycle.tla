------------------------- MODULE SessionLifecycle -------------------------
(***************************************************************************)
(* What an Agent Builder session promises to whoever reads its row         *)
(* (docs/prd-agent-builder.md, src/core/agent-builder/types.ts): questions *)
(* are answered one at a time and in order, a ticket exists only when all  *)
(* of them are, and a session that has left `open` never goes back to it.  *)
(***************************************************************************)
EXTENDS Naturals

CONSTANTS
  Sessions,      \* session ids
  NumQuestions   \* CANONICAL_COUNT

VARIABLES
  status,        \* status[s]: the status of s, "none" before it exists
  answered       \* answered[s]: how many questions of s are answered

lifeVars == <<status, answered>>

Init ==
  /\ status = [s \in Sessions |-> "none"]
  /\ answered = [s \in Sessions |-> 0]

Open(s) ==
  /\ status[s] = "none"
  /\ status' = [status EXCEPT ![s] = "open"]
  /\ UNCHANGED answered

(* An answer that was on its way when the session was closed still counts. *)
Answer(s) ==
  /\ status[s] # "none"
  /\ answered[s] < NumQuestions
  /\ answered' = [answered EXCEPT ![s] = @ + 1]
  /\ UNCHANGED status

Submit(s) ==
  /\ status[s] # "none"
  /\ answered[s] = NumQuestions
  /\ status' = [status EXCEPT ![s] = "submitted"]
  /\ UNCHANGED answered

Abandon(s) ==
  /\ status[s] # "none"
  /\ status' = [status EXCEPT ![s] = "abandoned"]
  /\ UNCHANGED answered

(* The idle sweep closes any number of open sessions with one statement.   *)
Sweep(idle) ==
  /\ \A s \in idle : status[s] = "open"
  /\ status' = [s \in Sessions |-> IF s \in idle THEN "abandoned" ELSE status[s]]
  /\ UNCHANGED answered

Next ==
  \/ \E s \in Sessions : Open(s) \/ Answer(s) \/ Submit(s) \/ Abandon(s)
  \/ \E idle \in SUBSET Sessions : Sweep(idle)

Spec == Init /\ [][Next]_lifeVars

=============================================================================
