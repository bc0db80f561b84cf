--------------------------- MODULE ApprovalStore ---------------------------
(***************************************************************************)
(* The in-process approval gate, src/core/approval-store.ts.               *)
(*                                                                         *)
(* waitForApproval(job) hands out a promise and stores its resolve         *)
(* function in a Map keyed by the job; notifyApproval(job, decision), or   *)
(* the timer armed with the promise, takes the function out of the Map     *)
(* and settles the promise.  Here the promises of a job are numbered       *)
(* 1 .. waits[j] in the order they were created.  The code resolves with   *)
(* `false` both for a rejection and for a timeout; the two are kept apart  *)
(* so that properties can name the cause.                                  *)
(***************************************************************************)
EXTENDS Naturals

CONSTANTS
  Jobs,      \* ids of jobs that may wait at the gate
  MaxWaits   \* bound: calls of waitForApproval for one job

VARIABLES
  callbacks, \* callbacks[j]: the promise whose resolve function the Map
             \* holds for j, 0 when the Map has no entry
  waits,     \* waits[j]: number of promises created for j so far
  timers,    \* timers[j]: the promises whose 24 h timer has not fired yet
  outcome,   \* outcome[j][w]: what promise w of j is settled with
  acked      \* history: acked[j][w], the decisions for which notifyApproval
             \* returned true while the Map held promise w

gateVars == <<callbacks, waits, timers, outcome, acked>>

Promise   == 1..MaxWaits
Decisions == {"approved", "rejected"}
Outcomes  == Decisions \cup {"pending", "timeout", "lost"}

TypeOK ==
  /\ callbacks \in [Jobs -> 0..MaxWaits]
  /\ waits \in [Jobs -> 0..MaxWaits]
  /\ timers \in [Jobs -> SUBSET Promise]
  /\ outcome \in [Jobs -> [Promise -> Outcomes]]
  /\ acked \in [Jobs -> [Promise -> SUBSET Decisions]]

Init ==
  /\ callbacks = [j \in Jobs |-> 0]
  /\ waits = [j \in Jobs |-> 0]
  /\ timers = [j \in Jobs |-> {}]
  /\ outcome = [j \in Jobs |-> [w \in Promise |-> "pending"]]
  /\ acked = [j \in Jobs |-> [w \in Promise |-> {}]]

(***************************************************************************)
(* Operations                                                              *)
(***************************************************************************)

HasPending(j) == callbacks[j] # 0

(* A promise is settled by the first call of its resolve function; later   *)
(* calls do nothing.                                                       *)
Settle(j, w, result) ==
  outcome' = [outcome EXCEPT ![j][w] = IF @ = "pending" THEN result ELSE @]

(* The Map entry is overwritten whatever it held: the promise of an        *)
(* earlier wait keeps its timer but can no longer be notified.             *)
WaitForApproval(j) ==
  /\ waits[j] < MaxWaits
  /\ waits' = [waits EXCEPT ![j] = @ + 1]
  /\ callbacks' = [callbacks EXCEPT ![j] = waits[j] + 1]
  /\ timers' = [timers EXCEPT ![j] = @ \cup {waits[j] + 1}]
  /\ UNCHANGED <<outcome, acked>>

(* Seeded fault: the entry is not deleted when it is used.                 *)
NotifyKeepsEntry(j, decision) ==
  /\ HasPending(j)
  /\ Settle(j, callbacks[j], decision)
  /\ acked' = [acked EXCEPT ![j][callbacks[j]] = @ \cup {decision}]
  /\ UNCHANGED <<callbacks, waits, timers>>

(* The call that finds an entry and returns true.  Without an entry the    *)
(* code returns false and changes nothing.                                 *)
NotifyApproval(j, decision) ==
  /\ HasPending(j)
  /\ callbacks' = [callbacks EXCEPT ![j] = 0]
  /\ Settle(j, callbacks[j], decision)
  /\ acked' = [acked EXCEPT ![j][callbacks[j]] = @ \cup {decision}]
  /\ UNCHANGED <<waits, timers>>

NotifyOrIgnore(j, decision) ==
  \/ NotifyApproval(j, decision)
  \/ ~HasPending(j) /\ UNCHANGED gateVars

(* Seeded faults: the timer deletes the entry and forgets to resolve the   *)
(* promise, or resolves it and leaves the entry.                           *)
TimeoutForgetsPromise(j, w) ==
  /\ w \in timers[j]
  /\ timers' = [timers EXCEPT ![j] = @ \ {w}]
  /\ callbacks' = [callbacks EXCEPT ![j] = 0]
  /\ UNCHANGED <<waits, outcome, acked>>

TimeoutKeepsEntry(j, w) ==
  /\ w \in timers[j]
  /\ timers' = [timers EXCEPT ![j] = @ \ {w}]
  /\ IF HasPending(j) THEN Settle(j, w, "timeout") ELSE UNCHANGED outcome
  /\ UNCHANGED <<callbacks, waits, acked>>

(* All timers run for the same 24 h, so those of one job fire in the order *)
(* they were armed.  The timer asks the Map for an entry of the JOB, and   *)
(* resolves its OWN promise; notifyApproval never clears it.               *)
TimeoutFires(j, w) ==
  /\ w \in timers[j]
  /\ \A v \in timers[j] : w <= v
  /\ timers' = [timers EXCEPT ![j] = @ \ {w}]
  /\ IF HasPending(j)
     THEN /\ callbacks' = [callbacks EXCEPT ![j] = 0]
          /\ Settle(j, w, "timeout")
     ELSE UNCHANGED <<callbacks, outcome>>
  /\ UNCHANGED <<waits, acked>>

(* The process dies: the Map and the timers are gone, the promises nobody  *)
(* settled never will be.                                                  *)
Restart ==
  /\ callbacks' = [j \in Jobs |-> 0]
  /\ timers' = [j \in Jobs |-> {}]
  /\ outcome' = [j \in Jobs |-> [w \in Promise |->
                   IF w <= waits[j] /\ outcome[j][w] = "pending"
                   THEN "lost" ELSE outcome[j][w]]]
  /\ UNCHANGED <<waits, acked>>

Next ==
  \/ \E j \in Jobs : WaitForApproval(j)
  \/ \E j \in Jobs, decision \in Decisions : NotifyApproval(j, decision)
  \/ \E j \in Jobs, w \in Promise : TimeoutFires(j, w)
  \/ Restart

Spec == Init /\ [][Next]_gateVars

(***************************************************************************)
(* Properties                                                              *)
(***************************************************************************)

(* A decision that was acknowledged (notifyApproval returned true, which   *)
(* the API reports as "resolved") is the one its promise is settled with:  *)
(* no second notifier, no timer and no restart can turn it into another.   *)
AckedDecisionWins ==
  \A j \in Jobs, w \in Promise : acked[j][w] \subseteq {outcome[j][w]}

(* The entry of a job in the Map belongs to its latest promise, and that   *)
(* promise is still open: a notification can never be spent on a promise   *)
(* that is already settled.                                                *)
EntryIsOpen ==
  \A j \in Jobs : HasPending(j) =>
    /\ callbacks[j] = waits[j]
    /\ outcome[j][callbacks[j]] = "pending"

=============================================================================
