------------------------------ MODULE MCBuilder ------------------------------
EXTENDS AgentBuilder, TLC

(* Sessions affect each other only by being open in the same thread, so    *)
(* the run lets one of them at a time have answers.                        *)
OneAnswered == Cardinality({s \in Sessions : row[s].answers # <<>>}) <= 1

(* A digest that swept nothing changes nothing and has nothing to check.   *)
SweptSomething == digest.pc = "idle" \/ digest.swept # {}

(* The sessions of a thread and those of the wizards share no state, so    *)
(* the run explores each side by itself.                                   *)
OneFrontEnd ==
  \/ \A c \in Messages : At(c, "idle") /\ Thread = {}
  \/ \A w \in Wizards : At(w, "idle") /\ wiz[w].session = 0

Symmetry == Permutations(Messages) \cup Permutations(Wizards)

=============================================================================
