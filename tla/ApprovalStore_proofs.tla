----------------------- MODULE ApprovalStore_proofs ------------------------
(***************************************************************************)
(* Proofs about ApprovalStore, for any set of jobs and any bound on waits. *)
(***************************************************************************)
EXTENDS ApprovalStore, TLAPS

(* Every lemma assumes that a job may wait at least once.                  *)
MaxWaitsType == MaxWaits \in Nat \ {0}

(* Timers belong to promises that exist, and promises not yet created are  *)
(* open; with the two the safety properties are inductive.                 *)
TimersArePast == \A j \in Jobs, w \in Promise : w \in timers[j] => w <= waits[j]

FutureIsOpen ==
  \A j \in Jobs, w \in Promise : w > waits[j] => outcome[j][w] = "pending"

GateInv ==
  /\ TypeOK
  /\ TimersArePast
  /\ FutureIsOpen
  /\ EntryIsOpen
  /\ AckedDecisionWins

LEMMA InitGateInv == MaxWaitsType /\ Init => GateInv
BY DEF MaxWaitsType, Init, GateInv, TypeOK, TimersArePast, FutureIsOpen, EntryIsOpen, AckedDecisionWins,
       HasPending, Promise, Outcomes, Decisions

(* The invariant does not depend on anything but the store's variables.    *)
LEMMA GateStutter == GateInv /\ UNCHANGED gateVars => GateInv'
BY DEF gateVars, GateInv, TypeOK, TimersArePast, FutureIsOpen, EntryIsOpen,
       AckedDecisionWins, HasPending

(* Every operation of the store keeps the invariant.                       *)
LEMMA WaitKeepsInv ==
  ASSUME MaxWaitsType, NEW j \in Jobs, GateInv, WaitForApproval(j)
  PROVE  GateInv'
BY DEF MaxWaitsType, WaitForApproval, GateInv, TypeOK, TimersArePast, FutureIsOpen, EntryIsOpen,
       AckedDecisionWins, HasPending, Promise, Outcomes, Decisions

LEMMA NotifyKeepsInv ==
  ASSUME MaxWaitsType, NEW j \in Jobs, NEW decision \in Decisions, GateInv, NotifyApproval(j, decision)
  PROVE  GateInv'
BY DEF MaxWaitsType, NotifyApproval, Settle, GateInv, TypeOK, TimersArePast, FutureIsOpen, EntryIsOpen,
       AckedDecisionWins, HasPending, Promise, Outcomes, Decisions

LEMMA TimeoutKeepsInv ==
  ASSUME MaxWaitsType, NEW j \in Jobs, NEW w \in Promise, GateInv, TimeoutFires(j, w)
  PROVE  GateInv'
<1> USE DEF MaxWaitsType
<1> DEFINE settled == [outcome EXCEPT ![j][w] = IF @ = "pending" THEN "timeout" ELSE @]
<1>0. /\ timers' = [timers EXCEPT ![j] = @ \ {w}]
      /\ waits' = waits /\ acked' = acked
      /\ callbacks' \in {callbacks, [callbacks EXCEPT ![j] = 0]}
      /\ outcome' \in {outcome, settled}
  BY DEF TimeoutFires, Settle
<1>1. TypeOK'
  <2>1. callbacks' \in [Jobs -> 0..MaxWaits]
    <3>1. 0 \in 0..MaxWaits
      OBVIOUS
    <3>2. [callbacks EXCEPT ![j] = 0] \in [Jobs -> 0..MaxWaits]
      BY <3>1 DEF GateInv, TypeOK
    <3> QED
      BY <1>0, <3>2 DEF GateInv, TypeOK
  <2>2. timers' \in [Jobs -> SUBSET Promise]
    BY <1>0 DEF GateInv, TypeOK
  <2>3. outcome' \in [Jobs -> [Promise -> Outcomes]]
    <3>1. "timeout" \in Outcomes
      BY DEF Outcomes
    <3>2. settled \in [Jobs -> [Promise -> Outcomes]]
      BY <3>1 DEF GateInv, TypeOK
    <3> QED
      BY <1>0, <3>2 DEF GateInv, TypeOK
  <2> QED
    BY <1>0, <2>1, <2>2, <2>3 DEF GateInv, TypeOK
<1>2. TimersArePast'
  BY DEF TimeoutFires, GateInv, TypeOK, TimersArePast
<1>3. FutureIsOpen'
  <2>1. w <= waits[j] /\ waits[j] \in Nat /\ w \in Nat
    BY DEF TimeoutFires, GateInv, TypeOK, TimersArePast, Promise
  <2>2. ASSUME NEW i \in Jobs, NEW v \in Promise, v > waits[i]
        PROVE  outcome'[i][v] = outcome[i][v]
    <3>1. i # j \/ v # w
      BY <2>1, <2>2 DEF Promise
    <3>2. settled[i][v] = outcome[i][v]
      BY <3>1 DEF GateInv, TypeOK
    <3> QED
      BY <1>0, <3>2
  <2> QED
    BY <1>0, <2>2 DEF GateInv, FutureIsOpen
<1>4. EntryIsOpen'
  BY DEF TimeoutFires, Settle, GateInv, TypeOK, EntryIsOpen, HasPending, Promise
<1>5. AckedDecisionWins'
  <2>1. ASSUME NEW i \in Jobs, NEW v \in Promise, NEW d \in acked[i][v]
        PROVE  d = outcome'[i][v]
    <3>1. d \in Decisions /\ d = outcome[i][v]
      BY <2>1 DEF GateInv, TypeOK, AckedDecisionWins
    <3>2. outcome[i][v] # "pending"
      BY <3>1 DEF Decisions
    <3> QED
      BY <3>1, <3>2 DEF TimeoutFires, Settle, GateInv, TypeOK
  <2> QED
    BY <2>1 DEF TimeoutFires, AckedDecisionWins
<1> QED
  BY <1>1, <1>2, <1>3, <1>4, <1>5 DEF GateInv

LEMMA RestartKeepsInv == MaxWaitsType /\ GateInv /\ Restart => GateInv'
<1> SUFFICES ASSUME MaxWaitsType, GateInv, Restart PROVE GateInv'
  OBVIOUS
<1> USE DEF MaxWaitsType
<1>1. TypeOK'
  BY DEF Restart, GateInv, TypeOK, Promise, Outcomes
<1>2. TimersArePast' /\ EntryIsOpen'
  BY DEF Restart, TimersArePast, EntryIsOpen, HasPending
<1>3. FutureIsOpen'
  <2>1. ASSUME NEW i \in Jobs, NEW v \in Promise, v > waits[i]
        PROVE  outcome'[i][v] = outcome[i][v]
    <3>1. ~(v <= waits[i])
      BY <2>1 DEF GateInv, TypeOK, Promise
    <3> QED
      BY <3>1 DEF Restart
  <2> QED
    BY <2>1 DEF Restart, GateInv, FutureIsOpen
<1>4. AckedDecisionWins'
  <2>1. ASSUME NEW i \in Jobs, NEW v \in Promise, NEW d \in acked[i][v]
        PROVE  d = outcome'[i][v]
    <3>1. d \in Decisions /\ d = outcome[i][v]
      BY <2>1 DEF GateInv, TypeOK, AckedDecisionWins
    <3>2. outcome[i][v] # "pending"
      BY <3>1 DEF Decisions
    <3> QED
      BY <3>1, <3>2 DEF Restart
  <2> QED
    BY <2>1 DEF Restart, AckedDecisionWins
<1> QED
  BY <1>1, <1>2, <1>3, <1>4 DEF GateInv

LEMMA GateStep == MaxWaitsType /\ GateInv /\ [Next]_gateVars => GateInv'
BY GateStutter, WaitKeepsInv, NotifyKeepsInv, TimeoutKeepsInv, RestartKeepsInv DEF Next

(* No acknowledged decision is ever turned into another, and the Map only  *)
(* holds entries of open promises: notifyApproval, the timers and a        *)
(* restart cannot conflict, however many waits a job makes.                *)
THEOREM GateSafety == MaxWaitsType => (Spec => [](AckedDecisionWins /\ EntryIsOpen))
<1> SUFFICES ASSUME MaxWaitsType PROVE Spec => [](AckedDecisionWins /\ EntryIsOpen)
  OBVIOUS
<1>a. Init => GateInv
  BY InitGateInv
<1>b. GateInv /\ [Next]_gateVars => GateInv'
  BY GateStep
<1>1. Spec => []GateInv
  BY <1>a, <1>b, PTL DEF Spec
<1>2. GateInv => AckedDecisionWins /\ EntryIsOpen
  BY DEF GateInv
<1> QED
  BY <1>1, <1>2, PTL

=============================================================================
