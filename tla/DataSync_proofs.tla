---------------------------- MODULE DataSync_proofs ----------------------------
(***************************************************************************)
(* Proofs of the safety properties of the sync workers: the log of the     *)
(* Google Ads runs, the mirror of LeadsProsper's leads and the mirror of   *)
(* Ringba's calls. A behaviour shows one of them.                          *)
(***************************************************************************)
EXTENDS DataSync, FiniteSetTheorems, TLAPS

-----------------------------------------------------------------------------
(* The Google Ads runs. The counters of a run and what it has yet to pull  *)
(* add up to what it listed; and as long as no two runs overlapped, what   *)
(* a table holds only grows newer.                                         *)

Pulling == {"daily", "dailyRows", "campaign", "campaignRows"}

AdsRecord ==
    [pc : {"rest", "list", "pick"} \union Pulling, run : Nat, todo : SUBSET Accounts, account : SUBSET Accounts,
     got : Nat, synced : Nat, failed : Nat, error : BOOLEAN]

LogRecord == [status : {"none", "running", "ok", "partial", "error"}, synced : Nat, failed : Nat]

TraceRecord == [began : Nat, leaves : SUBSET Accounts, alone : BOOLEAN]

AdsShape ==
    /\ figures \in Nat /\ daily \in [Accounts -> Nat] /\ campaign \in [Accounts -> Nat]
    /\ adsRuns \in [RunIds -> LogRecord] /\ adsTrace \in [RunIds -> TraceRecord]
    /\ adsProc \in [AdsCallers -> AdsRecord]

\* Nothing is newer than Google's figures.
AdsBounds ==
    /\ \A a \in Accounts : daily[a] <= figures /\ campaign[a] <= figures
    /\ \A i \in RunIds : adsTrace[i].began <= figures
    /\ \A p \in AdsCallers : adsProc[p].got <= figures

\* What the caller s of run t counts and has left.
AddsUp(s, t) ==
    /\ s.pc = "list" => s.todo = {} /\ s.account = {} /\ s.synced = 0 /\ s.failed = 0 /\ s.error = FALSE
    /\ s.pc = "pick" => s.account = {}
    /\ s.pc \in Pulling => \E a \in Accounts : s.account = {a} /\ a \notin s.todo
    /\ s.pc # "list" =>
         /\ s.todo \subseteq t.leaves /\ s.account \subseteq t.leaves
         /\ s.synced + s.failed + Cardinality(s.todo) + Cardinality(s.account) = Cardinality(t.leaves)
         /\ s.error = TRUE <=> s.failed > 0

RunsAddUp ==
    /\ \A p \in AdsCallers :
         IF adsProc[p].pc = "rest" THEN adsProc[p].run = 0 /\ adsProc[p].account = {}
         ELSE /\ adsProc[p].run \in RunIds /\ adsRuns[adsProc[p].run].status = "running"
              /\ AddsUp(adsProc[p], adsTrace[adsProc[p].run])
    /\ \A p, q \in AdsCallers : p # q /\ adsProc[p].pc # "rest" => adsProc[p].run # adsProc[q].run
    /\ \A i \in RunIds :
         /\ adsRuns[i].status = "none" => adsTrace[i].alone = TRUE
         /\ adsRuns[i].status \in {"ok", "partial"} =>
              adsRuns[i].synced + adsRuns[i].failed = Cardinality(adsTrace[i].leaves)
         /\ adsRuns[i].status = "error" => adsRuns[i].synced = 0

AllAlone == \A i \in RunIds : adsTrace[i].alone = TRUE

\* What caller s of run t has stored is as fresh as the beginning of the run.
FreshSoFar(s, t) ==
    /\ s.pc \in {"dailyRows", "campaignRows"} => s.got >= t.began
    /\ s.pc = "dailyRows" => \A a \in s.account : daily[a] <= s.got
    /\ s.pc = "campaignRows" => \A a \in s.account : campaign[a] <= s.got
    /\ s.pc \in {"campaign", "campaignRows"} => \A a \in s.account : daily[a] >= t.began
    /\ s.pc # "list" /\ s.failed = 0 =>
         \A a \in t.leaves \ (s.todo \union s.account) : daily[a] >= t.began /\ campaign[a] >= t.began

RunsAreFresh ==
    AllAlone =>
      /\ \A p, q \in AdsCallers : p # q => adsProc[p].pc = "rest" \/ adsProc[q].pc = "rest"
      /\ \A p \in AdsCallers : adsProc[p].pc # "rest" => FreshSoFar(adsProc[p], adsTrace[adsProc[p].run])
      /\ \A i \in RunIds : adsRuns[i].status = "ok" =>
           \A a \in adsTrace[i].leaves : daily[a] >= adsTrace[i].began /\ campaign[a] >= adsTrace[i].began

AdsInv == AdsShape /\ AdsBounds /\ RunsAddUp /\ RunsAreFresh

LEMMA AdsStart == AdsInit => AdsInv
<1> SUFFICES ASSUME AdsInit PROVE AdsInv
  OBVIOUS
<1>1. /\ NoRun \in LogRecord /\ NoRun.status = "none" /\ NoTrace \in TraceRecord /\ NoTrace.alone = TRUE
      /\ NoTrace.began = 0 /\ AtRest \in AdsRecord /\ AtRest.pc = "rest" /\ AtRest.run = 0 /\ AtRest.got = 0 /\ AtRest.account = {}
  BY DEF NoRun, LogRecord, NoTrace, TraceRecord, AtRest, AdsRecord
<1>2. AdsShape
  BY <1>1 DEF AdsInit, AdsShape
<1>3. AdsBounds
  BY <1>1 DEF AdsInit, AdsBounds
<1>4. RunsAddUp
  BY <1>1 DEF AdsInit, RunsAddUp
<1>5. RunsAreFresh
  BY <1>1 DEF AdsInit, RunsAreFresh
<1> QED BY <1>2, <1>3, <1>4, <1>5 DEF AdsInv

\* A caller goes on within its run.
LEMMA RunGoesOn ==
    ASSUME AdsInv, AdsShape', AdsBounds', NEW p \in AdsCallers,
           adsProc[p].pc # "rest", adsProc'[p].pc # "rest", adsProc'[p].run = adsProc[p].run,
           \A q \in AdsCallers : q # p => adsProc'[q] = adsProc[q], UNCHANGED adsRuns,
           \A i \in RunIds : /\ adsTrace'[i].began = adsTrace[i].began /\ adsTrace'[i].alone = adsTrace[i].alone
                             /\ i # adsProc[p].run => adsTrace'[i] = adsTrace[i],
           AllAlone => \A a \in Accounts : daily[a] <= daily'[a] /\ campaign[a] <= campaign'[a],
           AddsUp(adsProc'[p], adsTrace'[adsProc[p].run]),
           AllAlone => FreshSoFar(adsProc[p], adsTrace[adsProc[p].run])'
    PROVE  AdsInv'
<1>1. adsProc[p].run \in RunIds /\ adsRuns[adsProc[p].run].status = "running"
  BY DEF AdsInv, RunsAddUp
<1>2. RunsAddUp'
  <2>1. ASSUME NEW q \in AdsCallers, q # p, adsProc[q].pc # "rest"
        PROVE  /\ adsProc[q].run \in RunIds /\ adsRuns[adsProc[q].run].status = "running"
               /\ AddsUp(adsProc[q], adsTrace'[adsProc[q].run])
    BY <2>1 DEF AdsInv, RunsAddUp
  <2>2. \A q, r \in AdsCallers : q # r /\ adsProc'[q].pc # "rest" => adsProc'[q].run # adsProc'[r].run
    BY DEF AdsInv, RunsAddUp
  <2>3. ASSUME NEW i \in RunIds
        PROVE  /\ adsRuns[i].status = "none" => adsTrace'[i].alone = TRUE
               /\ adsRuns[i].status \in {"ok", "partial"} =>
                    adsRuns[i].synced + adsRuns[i].failed = Cardinality(adsTrace'[i].leaves)
               /\ adsRuns[i].status = "error" => adsRuns[i].synced = 0
    <3>1. CASE i = adsProc[p].run
      BY <1>1, <3>1
    <3>2. CASE i # adsProc[p].run
      BY <3>2 DEF AdsInv, RunsAddUp
    <3> QED BY <3>1, <3>2
  <2>4. \A q \in AdsCallers :
          IF adsProc'[q].pc = "rest" THEN adsProc'[q].run = 0 /\ adsProc'[q].account = {}
          ELSE /\ adsProc'[q].run \in RunIds /\ adsRuns[adsProc'[q].run].status = "running"
               /\ AddsUp(adsProc'[q], adsTrace'[adsProc'[q].run])
    BY <1>1, <2>1 DEF AdsInv, RunsAddUp
  <2> QED BY <2>2, <2>3, <2>4 DEF RunsAddUp, AddsUp
<1>3. RunsAreFresh'
  <2> SUFFICES ASSUME AllAlone'
               PROVE  /\ \A q, r \in AdsCallers : q # r => adsProc'[q].pc = "rest" \/ adsProc'[r].pc = "rest"
                      /\ \A q \in AdsCallers : adsProc'[q].pc # "rest" =>
                           FreshSoFar(adsProc[q], adsTrace[adsProc[q].run])'
                      /\ \A i \in RunIds : adsRuns[i].status = "ok" =>
                           \A a \in adsTrace'[i].leaves : daily'[a] >= adsTrace'[i].began /\ campaign'[a] >= adsTrace'[i].began
    BY DEF RunsAreFresh, FreshSoFar
  <2>1. AllAlone
    BY DEF AllAlone
  <2>2. \A q \in AdsCallers : q # p => adsProc[q].pc = "rest"
    BY <2>1 DEF AdsInv, RunsAreFresh
  <2>3. ASSUME NEW i \in RunIds, adsRuns[i].status = "ok", NEW a \in adsTrace'[i].leaves
        PROVE  daily'[a] >= adsTrace'[i].began /\ campaign'[a] >= adsTrace'[i].began
    <3>1. i # adsProc[p].run /\ adsTrace'[i] = adsTrace[i]
      BY <1>1, <2>3
    <3>2. a \in Accounts /\ adsTrace[i].began \in Nat
      BY <3>1 DEF AdsInv, AdsShape, TraceRecord
    <3>3. daily[a] >= adsTrace[i].began /\ campaign[a] >= adsTrace[i].began
      BY <2>1, <2>3, <3>1 DEF AdsInv, RunsAreFresh
    <3>4. daily[a] \in Nat /\ campaign[a] \in Nat /\ daily'[a] \in Nat /\ campaign'[a] \in Nat
      BY <3>2 DEF AdsInv, AdsShape
    <3>5. daily[a] <= daily'[a] /\ campaign[a] <= campaign'[a]
      BY <2>1, <3>2
    <3> QED BY <3>1, <3>2, <3>3, <3>4, <3>5
  <2> QED BY <2>1, <2>2, <2>3
<1> QED BY <1>2, <1>3 DEF AdsInv

\* A caller ends its run, by the log row r or by none.
LEMMA RunEnds ==
    ASSUME AdsInv, NEW p \in AdsCallers, adsProc[p].pc # "rest", adsProc' = [adsProc EXCEPT ![p] = AtRest],
           UNCHANGED <<figures, daily, campaign, adsTrace>>, NEW r \in LogRecord,
           adsRuns' = adsRuns \/ adsRuns' = [adsRuns EXCEPT ![adsProc[p].run] = r],
           r.status \in {"ok", "partial", "error"},
           r.status \in {"ok", "partial"} => r.synced + r.failed = Cardinality(adsTrace[adsProc[p].run].leaves),
           r.status = "error" => r.synced = 0,
           r.status = "ok" /\ AllAlone =>
             \A a \in adsTrace[adsProc[p].run].leaves :
               daily[a] >= adsTrace[adsProc[p].run].began /\ campaign[a] >= adsTrace[adsProc[p].run].began
    PROVE  AdsInv'
<1> DEFINE n == adsProc[p].run
<1>0. AtRest \in AdsRecord /\ AtRest.pc = "rest" /\ AtRest.run = 0 /\ AtRest.got = 0 /\ AtRest.account = {}
  BY DEF AtRest, AdsRecord
<1>1. n \in RunIds /\ adsRuns[n].status = "running"
  BY DEF AdsInv, RunsAddUp
<1>2. adsProc' \in [AdsCallers -> AdsRecord] /\ adsProc'[p] = AtRest
      /\ \A q \in AdsCallers : q # p => adsProc'[q] = adsProc[q]
  BY <1>0 DEF AdsInv, AdsShape
<1>3. adsRuns' \in [RunIds -> LogRecord] /\ \A i \in RunIds : adsRuns'[i] = adsRuns[i] \/ (i = n /\ adsRuns'[i] = r)
  BY <1>1 DEF AdsInv, AdsShape
<1>4. AdsShape'
  BY <1>2, <1>3 DEF AdsInv, AdsShape
<1>5. AdsBounds'
  <2>1. \A q \in AdsCallers : adsProc'[q].got <= figures
    <3>1. 0 <= figures
      BY DEF AdsInv, AdsShape
    <3> QED BY <1>0, <1>2, <3>1 DEF AdsInv, AdsBounds
  <2> QED BY <2>1 DEF AdsInv, AdsBounds
<1>6. \A q \in AdsCallers : adsProc'[q].pc # "rest" => q # p /\ adsProc'[q] = adsProc[q] /\ adsProc[q].run # n
                                                      /\ adsRuns'[adsProc[q].run] = adsRuns[adsProc[q].run]
  <2> SUFFICES ASSUME NEW q \in AdsCallers, adsProc'[q].pc # "rest"
               PROVE  q # p /\ adsProc'[q] = adsProc[q] /\ adsProc[q].run # n
                      /\ adsRuns'[adsProc[q].run] = adsRuns[adsProc[q].run]
    OBVIOUS
  <2>1. q # p /\ adsProc'[q] = adsProc[q]
    BY <1>0, <1>2
  <2>2. adsProc[q].run # n /\ adsProc[q].run \in RunIds
    BY <2>1 DEF AdsInv, RunsAddUp
  <2> QED BY <1>3, <2>1, <2>2
<1> HIDE DEF n
<1>7. RunsAddUp'
  <2>1. ASSUME NEW q \in AdsCallers
        PROVE  IF adsProc'[q].pc = "rest" THEN adsProc'[q].run = 0 /\ adsProc'[q].account = {}
               ELSE /\ adsProc'[q].run \in RunIds /\ adsRuns'[adsProc'[q].run].status = "running"
                    /\ AddsUp(adsProc'[q], adsTrace[adsProc'[q].run])
    <3>1. CASE q = p
      BY <1>0, <1>2, <3>1
    <3>2. CASE q # p
      BY <1>2, <1>6, <3>2 DEF AdsInv, RunsAddUp
    <3> QED BY <3>1, <3>2
  <2>2. ASSUME NEW q \in AdsCallers, NEW k \in AdsCallers, q # k, adsProc'[q].pc # "rest"
        PROVE  adsProc'[q].run # adsProc'[k].run
    <3>1. adsProc'[q] = adsProc[q] /\ adsProc[q].run \in RunIds /\ adsProc[q].pc # "rest"
      BY <1>6, <2>2 DEF AdsInv, RunsAddUp
    <3>2. CASE k = p
      <4>1. adsProc'[k].run = 0 /\ adsProc[q].run # 0
        BY <1>0, <1>2, <3>1, <3>2, AdsAssumption DEF RunIds
      <4> QED BY <3>1, <4>1
    <3>3. CASE k # p
      BY <1>2, <2>2, <3>1, <3>3 DEF AdsInv, RunsAddUp
    <3> QED BY <3>2, <3>3
  <2>3. ASSUME NEW i \in RunIds
        PROVE  /\ adsRuns'[i].status = "none" => adsTrace[i].alone = TRUE
               /\ adsRuns'[i].status \in {"ok", "partial"} =>
                    adsRuns'[i].synced + adsRuns'[i].failed = Cardinality(adsTrace[i].leaves)
               /\ adsRuns'[i].status = "error" => adsRuns'[i].synced = 0
    <3>1. CASE adsRuns'[i] = adsRuns[i]
      BY <3>1 DEF AdsInv, RunsAddUp
    <3>2. CASE i = n /\ adsRuns'[i] = r
      BY <3>2 DEF n
    <3> QED BY <1>3, <3>1, <3>2
  <2> QED BY <2>1, <2>2, <2>3 DEF RunsAddUp, AddsUp
<1>8. RunsAreFresh'
  <2> SUFFICES ASSUME AllAlone
               PROVE  /\ \A q, k \in AdsCallers : q # k => adsProc'[q].pc = "rest" \/ adsProc'[k].pc = "rest"
                      /\ \A q \in AdsCallers : adsProc'[q].pc # "rest" =>
                           FreshSoFar(adsProc'[q], adsTrace[adsProc'[q].run])
                      /\ \A i \in RunIds : adsRuns'[i].status = "ok" =>
                           \A a \in adsTrace[i].leaves : daily[a] >= adsTrace[i].began /\ campaign[a] >= adsTrace[i].began
    BY DEF RunsAreFresh, FreshSoFar, AllAlone
  <2>1. \A q \in AdsCallers : adsProc'[q].pc = "rest"
    BY <1>6 DEF AdsInv, RunsAreFresh
  <2>2. ASSUME NEW i \in RunIds, adsRuns'[i].status = "ok"
        PROVE  \A a \in adsTrace[i].leaves : daily[a] >= adsTrace[i].began /\ campaign[a] >= adsTrace[i].began
    <3>1. CASE adsRuns'[i] = adsRuns[i]
      BY <2>2, <3>1 DEF AdsInv, RunsAreFresh
    <3>2. CASE i = n /\ adsRuns'[i] = r
      BY <2>2, <3>2 DEF n
    <3> QED BY <1>3, <3>1, <3>2
  <2> QED BY <2>1, <2>2
<1> QED BY <1>4, <1>5, <1>7, <1>8 DEF AdsInv

LEMMA BeginsKeeps == ASSUME AdsInv, NEW p \in AdsCallers, AdsRunBegins(p) PROVE AdsInv'
<1>1. PICK i \in RunIds :
        /\ adsRuns[i].status = "none"
        /\ adsRuns' = [adsRuns EXCEPT ![i].status = "running"]
        /\ adsProc' = [adsProc EXCEPT ![p] = [AtRest EXCEPT !.pc = "list", !.run = i]]
        /\ adsTrace' = [j \in RunIds |->
              IF j = i THEN [began |-> figures, leaves |-> {},
                             alone |-> \A q \in AdsCallers : adsProc[q].pc = "rest"]
              ELSE IF \E q \in AdsCallers : adsProc[q].run = j THEN [adsTrace[j] EXCEPT !.alone = FALSE]
              ELSE adsTrace[j]]
  BY DEF AdsRunBegins
<1>2. adsProc[p].pc = "rest" /\ UNCHANGED <<figures, daily, campaign>> /\ i \in Nat /\ i # 0
  BY AdsAssumption DEF AdsRunBegins, RunIds
<1> DEFINE s == [AtRest EXCEPT !.pc = "list", !.run = i]
<1>3. /\ s \in AdsRecord /\ s.pc = "list" /\ s.run = i /\ s.todo = {} /\ s.account = {} /\ s.got = 0
      /\ s.synced = 0 /\ s.failed = 0 /\ s.error = FALSE
  BY <1>2 DEF AtRest, AdsRecord
<1>4. adsProc' = [adsProc EXCEPT ![p] = s]
  BY <1>1
<1> HIDE DEF s
<1>5. /\ adsProc' \in [AdsCallers -> AdsRecord] /\ adsProc'[p] = s
      /\ \A q \in AdsCallers : q # p => adsProc'[q] = adsProc[q]
  BY <1>3, <1>4 DEF AdsInv, AdsShape
<1>6. /\ adsRuns' \in [RunIds -> LogRecord] /\ adsRuns'[i].status = "running"
      /\ \A j \in RunIds : j # i => adsRuns'[j] = adsRuns[j]
  BY <1>1 DEF AdsInv, AdsShape, LogRecord
<1>7. /\ adsTrace'[i] \in TraceRecord /\ adsTrace'[i].began = figures /\ adsTrace'[i].leaves = {}
      /\ adsTrace'[i].alone = TRUE => \A q \in AdsCallers : adsProc[q].pc = "rest"
  <2>1. adsTrace'[i] = [began |-> figures, leaves |-> {}, alone |-> \A q \in AdsCallers : adsProc[q].pc = "rest"]
    BY <1>1
  <2>2. figures \in Nat /\ (\A q \in AdsCallers : adsProc[q].pc = "rest") \in BOOLEAN
    BY DEF AdsInv, AdsShape
  <2> QED BY <2>1, <2>2 DEF TraceRecord
<1>8. ASSUME NEW j \in RunIds, j # i
      PROVE  /\ adsTrace'[j] \in TraceRecord /\ adsTrace'[j].began = adsTrace[j].began
             /\ adsTrace'[j].leaves = adsTrace[j].leaves
             /\ adsTrace'[j].alone = TRUE => adsTrace[j].alone = TRUE
             /\ adsRuns[j].status = "none" => adsTrace'[j].alone = TRUE
  <2>1. adsTrace[j] \in TraceRecord
    BY DEF AdsInv, AdsShape
  <2>2. CASE \E q \in AdsCallers : adsProc[q].run = j
    <3>1. adsTrace'[j] = [adsTrace[j] EXCEPT !.alone = FALSE]
      BY <1>1, <1>8, <2>2
    <3>2. adsRuns[j].status = "running"
      BY <2>2, AdsAssumption DEF AdsInv, RunsAddUp, RunIds
    <3> QED BY <2>1, <3>1, <3>2 DEF TraceRecord
  <2>3. CASE ~\E q \in AdsCallers : adsProc[q].run = j
    <3>1. adsTrace'[j] = adsTrace[j]
      BY <1>1, <1>8, <2>3
    <3> QED BY <2>1, <3>1 DEF AdsInv, RunsAddUp
  <2> QED BY <2>2, <2>3
<1>9. AdsShape'
  <2>1. adsTrace' = [j \in RunIds |-> adsTrace'[j]]
    BY <1>1
  <2>2. adsTrace' \in [RunIds -> TraceRecord]
    BY <1>7, <1>8, <2>1
  <2> QED BY <1>2, <1>5, <1>6, <2>2 DEF AdsInv, AdsShape
<1>10. AdsBounds'
  <2>1. \A q \in AdsCallers : adsProc'[q].got <= figures
    <3>1. 0 <= figures
      BY DEF AdsInv, AdsShape
    <3> QED BY <1>3, <1>5, <3>1 DEF AdsInv, AdsBounds
  <2>2. \A j \in RunIds : adsTrace'[j].began <= figures
    <3>1. figures <= figures
      BY DEF AdsInv, AdsShape
    <3> QED BY <1>7, <1>8, <3>1 DEF AdsInv, AdsBounds
  <2> QED BY <1>2, <2>1, <2>2 DEF AdsInv, AdsBounds
<1>11. RunsAddUp'
  <2>1. ASSUME NEW q \in AdsCallers, q # p, adsProc[q].pc # "rest"
        PROVE  /\ adsProc[q].run \in RunIds /\ adsProc[q].run # i
               /\ adsRuns'[adsProc[q].run].status = "running" /\ AddsUp(adsProc[q], adsTrace'[adsProc[q].run])
    <3>1. /\ adsProc[q].run \in RunIds /\ adsRuns[adsProc[q].run].status = "running"
          /\ AddsUp(adsProc[q], adsTrace[adsProc[q].run])
      BY <2>1 DEF AdsInv, RunsAddUp
    <3>2. adsProc[q].run # i
      BY <1>1, <3>1
    <3> QED BY <1>6, <1>8, <3>1, <3>2 DEF AddsUp
  <2>2. ASSUME NEW q \in AdsCallers
        PROVE  IF adsProc'[q].pc = "rest" THEN adsProc'[q].run = 0 /\ adsProc'[q].account = {}
               ELSE /\ adsProc'[q].run \in RunIds /\ adsRuns'[adsProc'[q].run].status = "running"
                    /\ AddsUp(adsProc'[q], adsTrace'[adsProc'[q].run])
    <3>1. CASE q = p
      BY <1>3, <1>5, <1>6, <3>1 DEF AddsUp, Pulling
    <3>2. CASE q # p
      BY <1>5, <2>1, <3>2 DEF AdsInv, RunsAddUp
    <3> QED BY <3>1, <3>2
  <2>3. ASSUME NEW q \in AdsCallers, NEW k \in AdsCallers, q # k, adsProc'[q].pc # "rest"
        PROVE  adsProc'[q].run # adsProc'[k].run
    <3>1. CASE q = p
      <4>1. adsProc'[k] = adsProc[k] /\ (adsProc[k].pc = "rest" => adsProc[k].run = 0)
        BY <1>5, <2>3, <3>1 DEF AdsInv, RunsAddUp
      <4>2. adsProc[k].run # i
        BY <1>2, <2>1, <2>3, <3>1, <4>1
      <4> QED BY <1>3, <1>5, <3>1, <4>1, <4>2
    <3>2. CASE k = p
      BY <1>3, <1>5, <2>1, <2>3, <3>2
    <3>3. CASE q # p /\ k # p
      BY <1>5, <2>3, <3>3 DEF AdsInv, RunsAddUp
    <3> QED BY <3>1, <3>2, <3>3
  <2>4. ASSUME NEW j \in RunIds
        PROVE  /\ adsRuns'[j].status = "none" => adsTrace'[j].alone = TRUE
               /\ adsRuns'[j].status \in {"ok", "partial"} =>
                    adsRuns'[j].synced + adsRuns'[j].failed = Cardinality(adsTrace'[j].leaves)
               /\ adsRuns'[j].status = "error" => adsRuns'[j].synced = 0
    <3>1. CASE j = i
      BY <1>6, <3>1
    <3>2. CASE j # i
      BY <1>6, <1>8, <3>2 DEF AdsInv, RunsAddUp
    <3> QED BY <3>1, <3>2
  <2> QED BY <2>2, <2>3, <2>4 DEF RunsAddUp, AddsUp
<1>12. RunsAreFresh'
  <2> SUFFICES ASSUME AllAlone'
               PROVE  /\ \A q, k \in AdsCallers : q # k => adsProc'[q].pc = "rest" \/ adsProc'[k].pc = "rest"
                      /\ \A q \in AdsCallers : adsProc'[q].pc # "rest" =>
                           FreshSoFar(adsProc[q], adsTrace[adsProc[q].run])'
                      /\ \A j \in RunIds : adsRuns'[j].status = "ok" =>
                           \A a \in adsTrace'[j].leaves : daily'[a] >= adsTrace'[j].began /\ campaign'[a] >= adsTrace'[j].began
    BY DEF RunsAreFresh, FreshSoFar
  <2>1. (\A q \in AdsCallers : adsProc[q].pc = "rest") /\ AllAlone
    BY <1>1, <1>7, <1>8 DEF AllAlone, AdsInv, RunsAddUp
  <2>2. \A q \in AdsCallers : q # p => adsProc'[q].pc = "rest"
    BY <1>5, <2>1
  <2>3. FreshSoFar(adsProc[p], adsTrace[adsProc[p].run])'
    BY <1>3, <1>5 DEF FreshSoFar
  <2>4. ASSUME NEW j \in RunIds, adsRuns'[j].status = "ok"
        PROVE  \A a \in adsTrace'[j].leaves : daily'[a] >= adsTrace'[j].began /\ campaign'[a] >= adsTrace'[j].began
    <3>1. j # i
      BY <1>6, <2>4
    <3> QED BY <1>2, <1>6, <1>8, <2>1, <2>4, <3>1 DEF AdsInv, RunsAreFresh
  <2> QED BY <2>2, <2>3, <2>4
<1> QED BY <1>9, <1>10, <1>11, <1>12 DEF AdsInv

LEMMA ListKeeps == ASSUME AdsInv, NEW p \in AdsCallers, ListCustomers(p) PROVE AdsInv'
<1> DEFINE n == adsProc[p].run
<1>1. /\ adsProc[p] \in AdsRecord /\ adsProc[p].pc = "list" /\ n \in RunIds /\ AddsUp(adsProc[p], adsTrace[n])
      /\ adsTrace[n] \in TraceRecord /\ UNCHANGED <<figures, daily, campaign>>
  BY DEF ListCustomers, AdsInv, AdsShape, RunsAddUp
<1>2. ASSUME NEW leaves \in SUBSET Accounts, adsProc' = [adsProc EXCEPT ![p].pc = "pick", ![p].todo = leaves],
             adsTrace' = [adsTrace EXCEPT ![n].leaves = leaves], UNCHANGED adsRuns
      PROVE  AdsInv'
  <2> DEFINE s == [adsProc[p] EXCEPT !.pc = "pick", !.todo = leaves]
             t == [adsTrace[n] EXCEPT !.leaves = leaves]
  <2>1. adsProc' = [adsProc EXCEPT ![p] = s] /\ adsTrace' = [adsTrace EXCEPT ![n] = t]
    BY <1>2 DEF AdsInv, AdsShape
  <2>2. /\ s \in AdsRecord /\ s.pc = "pick" /\ s.todo = leaves /\ s.account = {} /\ s.synced = 0 /\ s.failed = 0
        /\ s.error = FALSE /\ s.run = n /\ s.got = adsProc[p].got
    BY <1>1 DEF AdsRecord, AddsUp
  <2>3. /\ t \in TraceRecord /\ t.leaves = leaves /\ t.began = adsTrace[n].began /\ t.alone = adsTrace[n].alone
    BY <1>1 DEF TraceRecord
  <2> HIDE DEF s, t, n
  <2>4. /\ adsProc' \in [AdsCallers -> AdsRecord] /\ adsProc'[p] = s
        /\ \A q \in AdsCallers : q # p => adsProc'[q] = adsProc[q]
        /\ adsTrace' \in [RunIds -> TraceRecord] /\ adsTrace'[n] = t
        /\ \A i \in RunIds : i # n => adsTrace'[i] = adsTrace[i]
    BY <1>1, <2>1, <2>2, <2>3 DEF AdsInv, AdsShape
  <2>5. AdsShape'
    BY <1>1, <1>2, <2>4 DEF AdsInv, AdsShape
  <2>6. \A i \in RunIds : /\ adsTrace'[i].began = adsTrace[i].began /\ adsTrace'[i].alone = adsTrace[i].alone
                          /\ i # n => adsTrace'[i] = adsTrace[i]
    BY <2>3, <2>4
  <2>7. AdsBounds'
    BY <1>1, <2>2, <2>4, <2>6 DEF AdsInv, AdsBounds
  <2>8. AddsUp(s, t)
    <3>1. Cardinality({}) = 0 /\ Cardinality(leaves) \in Nat
      BY AdsAssumption, FS_EmptySet, FS_Subset, FS_CardinalityType
    <3> QED BY <2>2, <2>3, <3>1 DEF AddsUp, Pulling
  <2>9. FreshSoFar(adsProc[p], adsTrace[adsProc[p].run])'
    BY <2>2, <2>3, <2>4 DEF FreshSoFar
  <2>10. \A a \in Accounts : daily[a] <= daily'[a] /\ campaign[a] <= campaign'[a]
    BY <1>1 DEF AdsInv, AdsShape
  <2> QED BY <1>1, <1>2, <2>2, <2>4, <2>5, <2>6, <2>7, <2>8, <2>9, <2>10, RunGoesOn DEF n
<1>3. CASE AdsRunEnds(p, [adsProc[p] EXCEPT !.error = TRUE]) /\ UNCHANGED adsTrace
  <2> DEFINE s == [adsProc[p] EXCEPT !.error = TRUE]
             r == [status |-> AdsStatus(s), synced |-> s.synced, failed |-> s.failed]
  <2>1. s.run = n /\ s.error = TRUE /\ s.synced = 0 /\ s.failed = 0
    BY <1>1 DEF AdsRecord, AddsUp
  <2>2. r \in LogRecord /\ r.status = "error" /\ r.synced = 0
    BY <2>1 DEF LogRecord, AdsStatus
  <2>3. /\ adsProc' = [adsProc EXCEPT ![p] = AtRest]
        /\ adsRuns' = adsRuns \/ adsRuns' = [adsRuns EXCEPT ![n] = r]
    BY <1>3, <2>1 DEF AdsRunEnds
  <2> HIDE DEF s, r
  <2> QED BY <1>1, <1>3, <2>2, <2>3, RunEnds
<1> QED BY <1>2, <1>3 DEF ListCustomers

\* Taking an account out of what is left keeps the sum.
LEMMA OneLess ==
    ASSUME NEW todo \in SUBSET Accounts, NEW a \in todo
    PROVE  /\ Cardinality(todo \ {a}) + 1 = Cardinality(todo) /\ Cardinality({a}) = 1 /\ Cardinality({}) = 0
           /\ Cardinality(todo) \in Nat /\ Cardinality(todo \ {a}) \in Nat
<1>1. IsFiniteSet(todo)
  BY AdsAssumption, FS_Subset
<1>2. Cardinality(todo \ {a}) = Cardinality(todo) - 1 /\ Cardinality(todo) \in Nat
  BY <1>1, FS_RemoveElement, FS_CardinalityType
<1>3. Cardinality(todo \ {a}) \in Nat
  BY <1>1, FS_Subset, FS_CardinalityType
<1>4. Cardinality({a}) = 1 /\ Cardinality({}) = 0
  BY FS_Singleton, FS_EmptySet
<1>5. Cardinality(todo \ {a}) + 1 = Cardinality(todo)
  BY <1>2
<1> QED BY <1>2, <1>3, <1>4, <1>5

\* A caller moves, and of the tables it changes at most what is its own.
LEMMA CallerMoves ==
    ASSUME AdsInv, NEW p \in AdsCallers, adsProc[p].pc # "rest", NEW s \in AdsRecord, s.pc # "rest",
           s.run = adsProc[p].run, s.got <= figures, adsProc' = [adsProc EXCEPT ![p] = s],
           UNCHANGED <<figures, adsRuns, adsTrace>>,
           daily' \in [Accounts -> Nat], campaign' \in [Accounts -> Nat],
           \A a \in Accounts : daily'[a] <= figures /\ campaign'[a] <= figures,
           AllAlone => \A a \in Accounts : daily[a] <= daily'[a] /\ campaign[a] <= campaign'[a],
           AddsUp(s, adsTrace[adsProc[p].run]),
           AllAlone => /\ s.pc \in {"dailyRows", "campaignRows"} => s.got >= adsTrace[adsProc[p].run].began
                       /\ s.pc = "dailyRows" => \A a \in s.account : daily'[a] <= s.got
                       /\ s.pc = "campaignRows" => \A a \in s.account : campaign'[a] <= s.got
                       /\ s.pc \in {"campaign", "campaignRows"} =>
                            \A a \in s.account : daily'[a] >= adsTrace[adsProc[p].run].began
                       /\ s.pc # "list" /\ s.failed = 0 =>
                            \A a \in adsTrace[adsProc[p].run].leaves \ (s.todo \union s.account) :
                              /\ daily'[a] >= adsTrace[adsProc[p].run].began
                              /\ campaign'[a] >= adsTrace[adsProc[p].run].began
    PROVE  AdsInv'
<1>1. /\ adsProc' \in [AdsCallers -> AdsRecord] /\ adsProc'[p] = s
      /\ \A q \in AdsCallers : q # p => adsProc'[q] = adsProc[q]
  BY DEF AdsInv, AdsShape
<1>2. AdsShape'
  BY <1>1 DEF AdsInv, AdsShape
<1>3. AdsBounds'
  BY <1>1 DEF AdsInv, AdsBounds
<1>4. AllAlone => FreshSoFar(adsProc[p], adsTrace[adsProc[p].run])'
  BY <1>1 DEF FreshSoFar
<1> QED BY <1>1, <1>2, <1>3, <1>4, RunGoesOn

LEMMA PickKeeps == ASSUME AdsInv, NEW p \in AdsCallers, PickAccount(p) PROVE AdsInv'
<1> DEFINE n == adsProc[p].run
           t == adsTrace[n]
<1>1. /\ adsProc[p] \in AdsRecord /\ adsProc[p].pc = "pick" /\ n \in RunIds /\ AddsUp(adsProc[p], t)
      /\ t \in TraceRecord /\ UNCHANGED <<figures, daily, campaign, adsTrace>> /\ adsProc[p].got <= figures
  BY DEF PickAccount, AdsInv, AdsShape, RunsAddUp, AdsBounds
<1>2. /\ adsProc[p].account = {} /\ adsProc[p].todo \subseteq t.leaves /\ adsProc[p].todo \subseteq Accounts
      /\ adsProc[p].synced + adsProc[p].failed + Cardinality(adsProc[p].todo) + Cardinality({}) = Cardinality(t.leaves)
      /\ adsProc[p].error = TRUE <=> adsProc[p].failed > 0
      /\ adsProc[p].synced \in Nat /\ adsProc[p].failed \in Nat /\ adsProc[p].error \in BOOLEAN
  BY <1>1 DEF AddsUp, AdsRecord
<1>3. AllAlone /\ adsProc[p].failed = 0 =>
        \A a \in t.leaves \ adsProc[p].todo : daily[a] >= t.began /\ campaign[a] >= t.began
  BY <1>1, <1>2 DEF AdsInv, RunsAreFresh, FreshSoFar
<1>4. ASSUME NEW a \in adsProc[p].todo, UNCHANGED adsRuns,
             adsProc' = [adsProc EXCEPT ![p].pc = "daily", ![p].account = {a}, ![p].todo = @ \ {a}]
      PROVE  AdsInv'
  <2> DEFINE s == [adsProc[p] EXCEPT !.pc = "daily", !.account = {a}, !.todo = adsProc[p].todo \ {a}]
  <2>1. adsProc' = [adsProc EXCEPT ![p] = s]
    BY <1>4 DEF AdsInv, AdsShape
  <2>2. /\ s \in AdsRecord /\ s.pc = "daily" /\ s.todo = adsProc[p].todo \ {a} /\ s.account = {a} /\ s.run = n
        /\ s.synced = adsProc[p].synced /\ s.failed = adsProc[p].failed /\ s.error = adsProc[p].error
        /\ s.got = adsProc[p].got
    BY <1>1, <1>2 DEF AdsRecord, Pulling
  <2>3. a \in Accounts /\ a \in t.leaves
    BY <1>2
  <2> HIDE DEF s, n, t
  <2>4. AddsUp(s, t)
    <3>1. /\ Cardinality(adsProc[p].todo \ {a}) + 1 = Cardinality(adsProc[p].todo)
          /\ Cardinality({a}) = 1 /\ Cardinality({}) = 0
          /\ Cardinality(adsProc[p].todo) \in Nat /\ Cardinality(adsProc[p].todo \ {a}) \in Nat
      BY <1>2, OneLess
    <3>2. s.synced + s.failed + Cardinality(s.todo) + Cardinality(s.account) = Cardinality(t.leaves)
      BY <1>2, <2>2, <3>1
    <3> QED BY <1>2, <2>2, <2>3, <3>2 DEF AddsUp, Pulling
  <2>5. AllAlone /\ s.failed = 0 =>
          \A b \in t.leaves \ (s.todo \union s.account) : daily[b] >= t.began /\ campaign[b] >= t.began
    BY <1>3, <2>2
  <2>6. /\ daily \in [Accounts -> Nat] /\ campaign \in [Accounts -> Nat]
        /\ \A b \in Accounts : daily[b] <= figures /\ campaign[b] <= figures
        /\ \A b \in Accounts : daily[b] <= daily[b] /\ campaign[b] <= campaign[b]
    BY DEF AdsInv, AdsShape, AdsBounds
  <2> QED BY <1>1, <1>4, <2>1, <2>2, <2>4, <2>5, <2>6, CallerMoves DEF n, t
<1>5. CASE adsProc[p].todo = {} /\ AdsRunEnds(p, adsProc[p])
  <2> DEFINE s == adsProc[p]
             r == [status |-> AdsStatus(s), synced |-> s.synced, failed |-> s.failed]
  <2>1. s.synced + s.failed = Cardinality(t.leaves)
    BY <1>2, <1>5, FS_EmptySet
  <2>2. /\ r \in LogRecord /\ r.status \in {"ok", "partial", "error"} /\ r.synced = s.synced /\ r.failed = s.failed
        /\ r.status = "error" => s.synced = 0
        /\ r.status = "ok" => s.failed = 0
    BY <1>2 DEF LogRecord, AdsStatus
  <2>3. /\ adsProc' = [adsProc EXCEPT ![p] = AtRest]
        /\ adsRuns' = adsRuns \/ adsRuns' = [adsRuns EXCEPT ![n] = r]
    BY <1>5 DEF AdsRunEnds
  <2>4. r.status = "ok" /\ AllAlone => \A a \in t.leaves : daily[a] >= t.began /\ campaign[a] >= t.began
    BY <1>3, <1>5, <2>2
  <2> HIDE DEF r
  <2> QED BY <1>1, <2>1, <2>2, <2>3, <2>4, RunEnds
<1> QED BY <1>4, <1>5 DEF PickAccount

LEMMA FetchMetricsKeeps == ASSUME AdsInv, NEW p \in AdsCallers, FetchMetrics(p) PROVE AdsInv'
<1> DEFINE n == adsProc[p].run
           t == adsTrace[n]
<1>1. /\ adsProc[p] \in AdsRecord /\ adsProc[p].pc \in {"daily", "campaign"} /\ n \in RunIds
      /\ AddsUp(adsProc[p], t) /\ t \in TraceRecord /\ UNCHANGED <<figures, daily, campaign, adsRuns, adsTrace>>
  BY DEF FetchMetrics, AdsInv, AdsShape, RunsAddUp
<1>2. /\ figures \in Nat /\ figures <= figures /\ t.began <= figures /\ t.began \in Nat
      /\ daily \in [Accounts -> Nat] /\ campaign \in [Accounts -> Nat]
      /\ \A a \in Accounts : daily[a] <= figures /\ campaign[a] <= figures
      /\ \A a \in Accounts : daily[a] <= daily[a] /\ campaign[a] <= campaign[a]
  BY <1>1 DEF AdsInv, AdsShape, AdsBounds, TraceRecord
<1>3. AllAlone => FreshSoFar(adsProc[p], t)
  BY <1>1 DEF AdsInv, RunsAreFresh
<1>4. PICK w \in {"dailyRows", "campaignRows"} :
        /\ (w = "dailyRows" <=> adsProc[p].pc = "daily")
        /\ adsProc' = [adsProc EXCEPT ![p] = [adsProc[p] EXCEPT !.got = figures, !.pc = w]]
  <2>1. CASE adsProc[p].pc = "daily"
    <3>1. adsProc' = [adsProc EXCEPT ![p] = [adsProc[p] EXCEPT !.got = figures, !.pc = "dailyRows"]]
      BY <1>1, <2>1 DEF FetchMetrics, AdsInv, AdsShape, AdsRecord
    <3> QED BY <2>1, <3>1
  <2>2. CASE adsProc[p].pc = "campaign"
    <3>1. adsProc' = [adsProc EXCEPT ![p] = [adsProc[p] EXCEPT !.got = figures, !.pc = "campaignRows"]]
      BY <1>1, <2>2 DEF FetchMetrics, AdsInv, AdsShape, AdsRecord
    <3> QED BY <2>2, <3>1
  <2> QED BY <1>1, <2>1, <2>2
<1> DEFINE s == [adsProc[p] EXCEPT !.got = figures, !.pc = w]
<1>5. /\ s \in AdsRecord /\ s.pc = w /\ s.todo = adsProc[p].todo /\ s.account = adsProc[p].account /\ s.run = n
      /\ s.synced = adsProc[p].synced /\ s.failed = adsProc[p].failed /\ s.error = adsProc[p].error
      /\ s.got = figures
  BY <1>1, <1>2 DEF AdsRecord, Pulling
<1>6. adsProc' = [adsProc EXCEPT ![p] = s]
  BY <1>4
<1> HIDE DEF s, n, t
<1>7. AddsUp(s, t)
  BY <1>1, <1>5 DEF AddsUp, Pulling
<1>8. s.account \subseteq Accounts
  BY <1>5 DEF AdsRecord
<1>9. s.got >= t.began /\ \A a \in s.account : daily[a] <= s.got /\ campaign[a] <= s.got
  BY <1>2, <1>5, <1>8
<1>10. AllAlone /\ w = "campaignRows" => \A a \in s.account : daily[a] >= t.began
  BY <1>1, <1>3, <1>4, <1>5 DEF FreshSoFar
<1>11. AllAlone /\ s.failed = 0 =>
         \A a \in t.leaves \ (s.todo \union s.account) : daily[a] >= t.began /\ campaign[a] >= t.began
  BY <1>1, <1>3, <1>5 DEF FreshSoFar
<1> QED BY <1>1, <1>2, <1>5, <1>6, <1>7, <1>9, <1>10, <1>11, CallerMoves DEF n, t

LEMMA UpsertDailyKeeps == ASSUME AdsInv, NEW p \in AdsCallers, UpsertDaily(p) PROVE AdsInv'
<1> DEFINE n == adsProc[p].run
           t == adsTrace[n]
<1>1. /\ adsProc[p] \in AdsRecord /\ adsProc[p].pc = "dailyRows" /\ n \in RunIds
      /\ AddsUp(adsProc[p], t) /\ t \in TraceRecord /\ UNCHANGED <<figures, campaign, adsRuns, adsTrace>>
  BY DEF UpsertDaily, AdsInv, AdsShape, RunsAddUp
<1>2. /\ adsProc[p].got \in Nat /\ adsProc[p].got <= figures /\ t.began \in Nat /\ figures \in Nat
      /\ daily \in [Accounts -> Nat] /\ campaign \in [Accounts -> Nat]
      /\ \A a \in Accounts : daily[a] <= figures /\ campaign[a] <= figures
  BY <1>1 DEF AdsInv, AdsShape, AdsBounds, TraceRecord, AdsRecord
<1>3. AllAlone => FreshSoFar(adsProc[p], t)
  BY <1>1 DEF AdsInv, RunsAreFresh
<1>4. /\ daily' \in [Accounts -> Nat]
      /\ \A a \in Accounts : daily'[a] = IF a \in adsProc[p].account THEN adsProc[p].got ELSE daily[a]
  BY <1>2 DEF UpsertDaily, Stored
<1> DEFINE s == [adsProc[p] EXCEPT !.pc = "campaign"]
<1>5. /\ s \in AdsRecord /\ s.pc = "campaign" /\ s.todo = adsProc[p].todo /\ s.account = adsProc[p].account
      /\ s.run = n /\ s.synced = adsProc[p].synced /\ s.failed = adsProc[p].failed
      /\ s.error = adsProc[p].error /\ s.got = adsProc[p].got /\ s.account \subseteq Accounts
  BY <1>1, <1>2 DEF AdsRecord, Pulling
<1>6. adsProc' = [adsProc EXCEPT ![p] = s]
  BY DEF UpsertDaily, AdsInv, AdsShape
<1> HIDE DEF s, n, t
<1>7. AddsUp(s, t)
  BY <1>1, <1>5 DEF AddsUp, Pulling
<1>8. \A a \in Accounts : daily'[a] <= figures /\ campaign'[a] <= figures
  BY <1>1, <1>2, <1>4
<1>9. AllAlone => \A a \in Accounts : daily[a] <= daily'[a] /\ campaign[a] <= campaign'[a]
  BY <1>1, <1>2, <1>3, <1>4 DEF FreshSoFar
<1>10. AllAlone => \A a \in s.account : daily'[a] >= t.began
  BY <1>1, <1>2, <1>3, <1>4, <1>5 DEF FreshSoFar
<1>11. AllAlone /\ s.failed = 0 =>
         \A a \in t.leaves \ (s.todo \union s.account) : daily'[a] >= t.began /\ campaign'[a] >= t.began
  <2>1. t.leaves \subseteq Accounts
    BY <1>1 DEF TraceRecord
  <2> QED BY <1>1, <1>3, <1>4, <1>5, <2>1 DEF FreshSoFar
<1> QED BY <1>1, <1>2, <1>4, <1>5, <1>6, <1>7, <1>8, <1>9, <1>10, <1>11, CallerMoves DEF n, t

LEMMA UpsertCampaignsKeeps == ASSUME AdsInv, NEW p \in AdsCallers, UpsertCampaigns(p) PROVE AdsInv'
<1> DEFINE n == adsProc[p].run
           t == adsTrace[n]
<1>1. /\ adsProc[p] \in AdsRecord /\ adsProc[p].pc = "campaignRows" /\ n \in RunIds
      /\ AddsUp(adsProc[p], t) /\ t \in TraceRecord /\ UNCHANGED <<figures, daily, adsRuns, adsTrace>>
  BY DEF UpsertCampaigns, AdsInv, AdsShape, RunsAddUp
<1>2. /\ adsProc[p].got \in Nat /\ adsProc[p].got <= figures /\ t.began \in Nat /\ figures \in Nat
      /\ daily \in [Accounts -> Nat] /\ campaign \in [Accounts -> Nat]
      /\ \A a \in Accounts : daily[a] <= figures /\ campaign[a] <= figures
      /\ adsProc[p].synced \in Nat /\ adsProc[p].synced + 1 \in Nat /\ adsProc[p].failed \in Nat
  BY <1>1 DEF AdsInv, AdsShape, AdsBounds, TraceRecord, AdsRecord
<1>3. AllAlone => FreshSoFar(adsProc[p], t)
  BY <1>1 DEF AdsInv, RunsAreFresh
<1>4. /\ campaign' \in [Accounts -> Nat]
      /\ \A a \in Accounts : campaign'[a] = IF a \in adsProc[p].account THEN adsProc[p].got ELSE campaign[a]
  BY <1>2 DEF UpsertCampaigns, Stored
<1> DEFINE s == [adsProc[p] EXCEPT !.pc = "pick", !.account = {}, !.synced = adsProc[p].synced + 1]
<1>5. /\ s \in AdsRecord /\ s.pc = "pick" /\ s.todo = adsProc[p].todo /\ s.account = {}
      /\ s.run = n /\ s.synced = adsProc[p].synced + 1 /\ s.failed = adsProc[p].failed
      /\ s.error = adsProc[p].error /\ s.got = adsProc[p].got
  BY <1>1, <1>2 DEF AdsRecord, Pulling
<1>6. adsProc' = [adsProc EXCEPT ![p] = s]
  BY DEF UpsertCampaigns, AdsInv, AdsShape
<1>7. adsProc[p].account \subseteq Accounts /\ t.leaves \subseteq Accounts
  BY <1>1 DEF AdsRecord, TraceRecord
<1> HIDE DEF s, n, t
<1>8. AddsUp(s, t)
  <2>1. PICK a \in Accounts : adsProc[p].account = {a}
    BY <1>1 DEF AddsUp, Pulling
  <2>2. Cardinality({a}) = 1 /\ Cardinality({}) = 0 /\ Cardinality(adsProc[p].todo) \in Nat
    <3>1. adsProc[p].todo \in SUBSET Accounts
      BY <1>1 DEF AdsRecord
    <3> QED BY <3>1, AdsAssumption, FS_Singleton, FS_EmptySet, FS_Subset, FS_CardinalityType
  <2>3. adsProc[p].synced + adsProc[p].failed + Cardinality(adsProc[p].todo) + 1 = Cardinality(t.leaves)
    BY <1>1, <2>1, <2>2 DEF AddsUp
  <2>4. s.synced + s.failed + Cardinality(s.todo) + Cardinality(s.account) = Cardinality(t.leaves)
    BY <1>2, <1>5, <2>2, <2>3
  <2> QED BY <1>1, <1>5, <2>4 DEF AddsUp, Pulling
<1>9. \A a \in Accounts : daily'[a] <= figures /\ campaign'[a] <= figures
  BY <1>1, <1>2, <1>4
<1>10. AllAlone => \A a \in Accounts : daily[a] <= daily'[a] /\ campaign[a] <= campaign'[a]
  BY <1>1, <1>2, <1>3, <1>4 DEF FreshSoFar
<1>11. AllAlone /\ s.failed = 0 =>
         \A a \in t.leaves \ (s.todo \union s.account) : daily'[a] >= t.began /\ campaign'[a] >= t.began
  BY <1>1, <1>2, <1>3, <1>4, <1>5, <1>7 DEF FreshSoFar
<1> QED BY <1>1, <1>2, <1>4, <1>5, <1>6, <1>8, <1>9, <1>10, <1>11, CallerMoves DEF n, t

LEMMA AccountFailsKeeps == ASSUME AdsInv, NEW p \in AdsCallers, AccountFails(p) PROVE AdsInv'
<1> DEFINE n == adsProc[p].run
           t == adsTrace[n]
<1>1. adsProc[p] \in AdsRecord /\ adsProc[p].account # {} /\ UNCHANGED <<figures, daily, campaign, adsRuns, adsTrace>>
  BY DEF AccountFails, AdsInv, AdsShape
<1>2. adsProc[p].pc \in Pulling /\ n \in RunIds /\ AddsUp(adsProc[p], t) /\ t \in TraceRecord
  <2>1. adsProc[p].pc # "rest" /\ n \in RunIds /\ AddsUp(adsProc[p], t)
    BY <1>1 DEF AdsInv, RunsAddUp
  <2>2. t \in TraceRecord
    BY <2>1 DEF AdsInv, AdsShape
  <2> HIDE DEF n, t
  <2>3. adsProc[p].pc \in Pulling
    BY <1>1, <2>1 DEF AddsUp, AdsRecord
  <2> QED BY <2>1, <2>2, <2>3
<1>3. /\ adsProc[p].got <= figures /\ daily \in [Accounts -> Nat] /\ campaign \in [Accounts -> Nat]
      /\ \A a \in Accounts : daily[a] <= figures /\ campaign[a] <= figures
      /\ \A a \in Accounts : daily[a] <= daily[a] /\ campaign[a] <= campaign[a]
      /\ adsProc[p].synced \in Nat /\ adsProc[p].failed + 1 \in Nat /\ adsProc[p].failed \in Nat
  BY <1>1 DEF AdsInv, AdsShape, AdsBounds, AdsRecord
<1> DEFINE s == [adsProc[p] EXCEPT !.pc = "pick", !.account = {}, !.failed = adsProc[p].failed + 1, !.error = TRUE]
<1>4. /\ s \in AdsRecord /\ s.pc = "pick" /\ s.todo = adsProc[p].todo /\ s.account = {}
      /\ s.run = n /\ s.synced = adsProc[p].synced /\ s.failed = adsProc[p].failed + 1
      /\ s.error = TRUE /\ s.got = adsProc[p].got
  BY <1>1, <1>3 DEF AdsRecord, Pulling
<1>5. adsProc' = [adsProc EXCEPT ![p] = s]
  BY DEF AccountFails, AdsInv, AdsShape
<1> HIDE DEF s, n, t
<1>6. AddsUp(s, t)
  <2>1. PICK a \in Accounts : adsProc[p].account = {a}
    BY <1>2 DEF AddsUp, Pulling
  <2>2. Cardinality({a}) = 1 /\ Cardinality({}) = 0 /\ Cardinality(adsProc[p].todo) \in Nat
    <3>1. adsProc[p].todo \in SUBSET Accounts
      BY <1>1 DEF AdsRecord
    <3> QED BY <3>1, AdsAssumption, FS_Singleton, FS_EmptySet, FS_Subset, FS_CardinalityType
  <2>3. adsProc[p].synced + adsProc[p].failed + Cardinality(adsProc[p].todo) + 1 = Cardinality(t.leaves)
    BY <1>2, <2>1, <2>2 DEF AddsUp, Pulling
  <2>4. s.synced + s.failed + Cardinality(s.todo) + Cardinality(s.account) = Cardinality(t.leaves)
    BY <1>3, <1>4, <2>2, <2>3
  <2>5. s.failed > 0 /\ s.failed # 0
    BY <1>3, <1>4
  <2> QED BY <1>2, <1>4, <2>4, <2>5 DEF AddsUp, Pulling
<1>7. s.failed # 0
  BY <1>3, <1>4
<1>8. adsProc[p].pc # "rest"
  BY <1>2 DEF Pulling
<1> QED BY <1>1, <1>2, <1>3, <1>4, <1>5, <1>6, <1>7, <1>8, CallerMoves DEF n, t

LEMMA AdsSteps == ASSUME AdsInv, [AdsNext]_adsVars PROVE AdsInv'
<1>1. CASE UNCHANGED adsVars
  <2>1. /\ AdsShape' <=> AdsShape
        /\ AdsBounds' <=> AdsBounds
        /\ RunsAddUp' <=> RunsAddUp
        /\ RunsAreFresh' <=> RunsAreFresh
    BY <1>1 DEF adsVars, AdsShape, AdsBounds, RunsAddUp, RunsAreFresh, AllAlone, FreshSoFar, AddsUp
  <2> QED BY <2>1 DEF AdsInv
<1>2. CASE FiguresChange
  <2>1. figures' = figures + 1 /\ UNCHANGED <<daily, campaign, adsRuns, adsProc, adsTrace>> /\ figures \in Nat
    BY <1>2 DEF FiguresChange, AdsInv, AdsShape
  <2>2. AdsShape'
    BY <2>1 DEF AdsInv, AdsShape
  <2>3. AdsBounds'
    <3>1. \A a \in Accounts : daily[a] \in Nat /\ campaign[a] \in Nat
      BY DEF AdsInv, AdsShape
    <3>2. (\A i \in RunIds : adsTrace[i].began \in Nat) /\ \A p \in AdsCallers : adsProc[p].got \in Nat
      BY DEF AdsInv, AdsShape, TraceRecord, AdsRecord
    <3> QED BY <2>1, <3>1, <3>2 DEF AdsInv, AdsBounds
  <2>4. RunsAddUp'
    BY <2>1 DEF AdsInv, RunsAddUp, AddsUp
  <2>5. RunsAreFresh'
    BY <2>1 DEF AdsInv, RunsAreFresh, AllAlone, FreshSoFar
  <2> QED BY <2>2, <2>3, <2>4, <2>5 DEF AdsInv
<1>3. ASSUME NEW p \in AdsCallers, AdsCallerDies(p) PROVE AdsInv'
  <2> DEFINE r == [status |-> "error", synced |-> 0, failed |-> 0]
  <2>1. r \in LogRecord /\ r.status = "error" /\ r.synced = 0
    BY DEF LogRecord
  <2> HIDE DEF r
  <2> QED BY <1>3, <2>1, RunEnds DEF AdsCallerDies
<1> QED
  BY <1>1, <1>2, <1>3, BeginsKeeps, ListKeeps, PickKeeps, FetchMetricsKeeps, UpsertDailyKeeps, UpsertCampaignsKeeps,
     AccountFailsKeeps DEF AdsNext

LEMMA SyncApart ==
    [SyncNext]_syncVars =>
        /\ [AdsNext]_adsVars
        /\ focus' = focus
        /\ focus = "ringba" => [RingbaNext]_ringbaVars
        /\ focus # "ringba" => UNCHANGED ringbaOwn
        /\ focus = "leadsprosper" => [LeadsNext]_leadVars
        /\ focus # "leadsprosper" => UNCHANGED leadOwn
BY DEF SyncNext, syncVars, ringbaVars, leadVars, adsVars

-----------------------------------------------------------------------------
(* Time. A behaviour carries with it that what lies between 0 and its      *)
(* clock has a newest and an oldest element: each tick adds one instant.   *)

LEMMA DayBounds ==
    ASSUME NEW t \in Int
    PROVE  /\ Day(t) \in Int /\ DayStart(Day(t)) \in Int /\ DayEnd(Day(t)) \in Int
           /\ DayStart(Day(t)) <= t /\ t <= DayEnd(Day(t))
BY OverlapAssumption DEF Day, DayStart, DayEnd

LEMMA DayStarts ==
    ASSUME NEW d \in Int
    PROVE  /\ DayStart(d) \in Int /\ DayEnd(d) \in Int /\ Day(DayStart(d)) = d
           /\ DayStart(d) + DayLen = DayStart(d + 1) /\ DayEnd(d) = DayStart(d + 1) - 1
           /\ DayStart(d) <= DayEnd(d)
BY OverlapAssumption DEF Day, DayStart, DayEnd

LEMMA StartOfItsDay ==
    ASSUME NEW d \in Int, NEW t \in Int, DayStart(d) <= t
    PROVE  DayStart(d) <= DayStart(Day(t))
BY OverlapAssumption DEF Day, DayStart, DayEnd

Extremes ==
    \A S \in SUBSET (0 .. clock) : S # {} =>
        /\ \E m \in S : \A n \in S : m >= n
        /\ \E m \in S : \A n \in S : m =< n

LEMMA FirstInstant == clock = 0 => Extremes
<1> SUFFICES ASSUME clock = 0, NEW S \in SUBSET {0}, S # {}
             PROVE  0 \in S /\ \A n \in S : 0 >= n /\ 0 =< n
  BY DEF Extremes
<1>1. \A n \in S : n = 0
  OBVIOUS
<1>2. PICK n \in S : TRUE
  OBVIOUS
<1> QED BY <1>1, <1>2

LEMMA NextInstant ==
    ASSUME Extremes, clock \in Nat, clock' = clock + 1
    PROVE  Extremes'
<1> SUFFICES ASSUME NEW S \in SUBSET (0 .. clock + 1), S # {}
             PROVE  /\ \E m \in S : \A n \in S : m >= n
                    /\ \E m \in S : \A n \in S : m =< n
  BY DEF Extremes
<1> DEFINE T == S \ {clock + 1}
<1>1. T \in SUBSET (0 .. clock)
  OBVIOUS
<1>2. CASE clock + 1 \notin S
  BY <1>1, <1>2 DEF Extremes
<1>3. CASE clock + 1 \in S /\ T = {}
  BY <1>3
<1>4. CASE clock + 1 \in S /\ T # {}
  <2>1. PICK m \in T : \A n \in T : m =< n
    BY <1>1, <1>4 DEF Extremes
  <2>2. m \in S /\ \A n \in S : m =< n
    BY <2>1
  <2> QED BY <1>4, <2>2
<1> QED BY <1>2, <1>3, <1>4

LEMMA NewestAndOldest ==
    ASSUME Extremes, NEW S \in SUBSET (0 .. clock), S # {}
    PROVE  /\ Max(S) \in S /\ \A n \in S : n <= Max(S)
           /\ Min(S) \in S /\ \A n \in S : Min(S) <= n
<1>1. \E m \in S : \A n \in S : m >= n
  BY DEF Extremes
<1>2. \E m \in S : \A n \in S : m =< n
  BY DEF Extremes
<1> QED BY <1>1, <1>2 DEF Max, Min

LEMMA OldestOfTwo ==
    ASSUME NEW a \in Int, NEW b \in Int
    PROVE  Min({a, b}) \in {a, b} /\ Min({a, b}) <= a /\ Min({a, b}) <= b
<1>1. \E m \in {a, b} : \A n \in {a, b} : m =< n
  <2>1. CASE a <= b
    BY <2>1
  <2>2. CASE b <= a
    BY <2>2
  <2> QED BY <2>1, <2>2
<1> QED BY <1>1 DEF Min

LEMMA Behind ==
    ASSUME NEW h \in Nat
    PROVE  /\ LeftBehind(h) = DayStart(Day(h - Overlap)) /\ LeftBehind(h) \in Int
           /\ LeftBehind(h) <= h - Overlap /\ h - Overlap \in Int /\ LeftBehind(h) <= h
<1>1. h # None /\ h - Overlap \in Int /\ h - Overlap <= h
  BY OverlapAssumption DEF None
<1> QED BY <1>1, DayBounds DEF LeftBehind, WindowStart

-----------------------------------------------------------------------------
(* LeadsProsper. Every mark that is stored, held by the worker or by the   *)
(* script, or about to be written claims that what it leaves behind is     *)
(* final; a copy that is not final yet is too young for any claim.         *)

LeadRecord == [campaign : Campaigns, at : 0 .. clock]
LeadMarks == [high : (0 .. clock) \union {None}, since : Int]

LeadsShape ==
    /\ leads \subseteq LeadRecord /\ leadFinal \subseteq leadRows /\ leadRows \subseteq leads
    /\ leadMark \in LeadMarks
    /\ leadWorker \in [pc : {"idle", "list", "fetch", "mark"}, at : 0 .. clock, from : Int, to : 0 .. clock,
                        mark : LeadMarks, todo : SUBSET Campaigns, got : SUBSET leads, fin : SUBSET leads]
    /\ leadScript \in [pc : {"off", "upsert", "read", "mark", "done"}, at : 0 .. clock, month : Int,
                        mark : LeadMarks, got : SUBSET leads, fin : SUBSET leads]
    /\ leadWorker.fin \subseteq leadWorker.got /\ leadScript.fin \subseteq leadScript.got
    /\ leadScript.pc \in {"read", "mark"} => leadScript.got # {}
    /\ leadLapse \in {"none", "page", "batch", "read", "hole"}

\* What a mark says.
ClaimHolds(m) ==
    m.high # None => \A l \in leads : l.at >= m.since /\ l.at < LeftBehind(m.high) => l \in leadFinal

\* The marks the worker w holds or may write, and those of the script s.
WorkerClaims(w) ==
    {w.mark} \union {[high |-> h, since |-> IF w.mark.high = None THEN w.from ELSE w.mark.since] :
                     h \in IF w.pc = "mark" THEN Dates(w.got) ELSE {}}
ScriptClaims(s) ==
    {s.mark} \union {[high |-> h, since |-> DayStart(s.month)] :
                     h \in IF s.pc \in {"read", "mark"} THEN Dates(s.got) ELSE {}}

LeadClaims == {leadMark} \union WorkerClaims(leadWorker) \union ScriptClaims(leadScript)

\* A copy in w's hands that is not final was not at the beginning of the pull
\* either, which is no longer ago than MaxHold.
YoungCopies(w) ==
    /\ clock <= w.at + MaxHold
    /\ \A l \in w.got \ w.fin : l.at + Settles > w.at

\* What the worker w has pulled so far; without campaigns there is nothing.
WorkerPulls(w) ==
    /\ w.pc # "idle" => w.from = WindowStart(w.mark.high, w.to)
    /\ w.pc = "list" => w.got = {} /\ w.fin = {} /\ w.todo = {}
    /\ w.pc = "fetch" =>
         /\ YoungCopies(w)
         /\ \A l \in w.got : l.at <= DayEnd(Day(w.to))
         /\ \/ w.todo = {} /\ w.got = {}
            \/ \A l \in leads : l.campaign \notin w.todo /\ l.at \in Span(w.from, w.to)
                                  /\ l.at + Settles < w.at => l \in w.fin

ScriptPulls(s) ==
    s.pc = "upsert" =>
      /\ YoungCopies(s)
      /\ \A l \in s.got : l.at <= DayEnd(s.month) /\ l.at <= s.at
      /\ \A l \in leads : l.at \in DayStart(s.month) .. DayEnd(s.month) /\ l.at + Settles < s.at => l \in s.fin

LeadsSound ==
    leadLapse = "none" =>
        (\A m \in LeadClaims : ClaimHolds(m)) /\ WorkerPulls(leadWorker) /\ ScriptPulls(leadScript)

LeadsInv == clock \in Times /\ Extremes /\ LeadsShape /\ LeadsSound

LEMMA LeadsStart == LeadsInit => LeadsInv
<1> SUFFICES ASSUME LeadsInit PROVE LeadsInv
  OBVIOUS
<1>1. clock \in Times /\ Extremes
  BY FirstInstant, OverlapAssumption DEF LeadsInit, Times
<1>2. NoMark \in LeadMarks /\ NoMark.high = None
  BY DEF NoMark, LeadMarks, None
<1>3. LeadsShape
  BY <1>2 DEF LeadsInit, LeadsShape, IdleLeadWorker, IdleLeadScript
<1>4. LeadsSound
  BY <1>2 DEF LeadsInit, LeadsSound, LeadClaims, WorkerClaims, ScriptClaims, ClaimHolds, WorkerPulls, ScriptPulls,
              IdleLeadWorker, IdleLeadScript
<1> QED BY <1>1, <1>3, <1>4 DEF LeadsInv

LEMMA ClaimTypes == LeadsShape => LeadClaims \subseteq LeadMarks
<1> SUFFICES ASSUME LeadsShape PROVE LeadClaims \subseteq LeadMarks
  OBVIOUS
<1>1. ASSUME NEW s \in SUBSET leads PROVE Dates(s) \subseteq 0 .. clock
  BY DEF LeadsShape, LeadRecord, Dates
<1>2. WorkerClaims(leadWorker) \subseteq LeadMarks
  <2>1. leadWorker.mark \in LeadMarks /\ leadWorker.from \in Int /\ leadWorker.mark.since \in Int /\ leadWorker.got \in SUBSET leads
    BY DEF LeadsShape, LeadMarks
  <2> QED BY <1>1, <2>1 DEF WorkerClaims, LeadMarks
<1>3. ScriptClaims(leadScript) \subseteq LeadMarks
  <2>1. leadScript.mark \in LeadMarks /\ DayStart(leadScript.month) \in Int /\ leadScript.got \in SUBSET leads
    BY DayStarts DEF LeadsShape
  <2> QED BY <1>1, <2>1 DEF ScriptClaims, LeadMarks
<1> QED BY <1>2, <1>3 DEF LeadClaims, LeadsShape

\* Claims outlive new leads and time.
LEMMA ClaimsKept ==
    ASSUME LeadsShape, clock \in Times, \A l \in leads' \ leads : l.at = clock, leadFinal \subseteq leadFinal'
    PROVE  \A m \in LeadMarks : ClaimHolds(m) => ClaimHolds(m)'
<1> SUFFICES ASSUME NEW m \in LeadMarks, ClaimHolds(m), m.high # None, NEW l \in leads',
                    l.at >= m.since, l.at < LeftBehind(m.high)'
             PROVE  l \in leadFinal'
  BY DEF ClaimHolds
<1>1. m.high \in 0 .. clock /\ m.high \in Nat
  BY DEF LeadMarks, Times
<1>2. LeftBehind(m.high)' = LeftBehind(m.high)
  BY DEF LeftBehind, WindowStart
<1>3. LeftBehind(m.high) <= m.high /\ LeftBehind(m.high) \in Int
  BY <1>1, Behind
<1>4. l \in leads
  <2>1. clock \in Int
    BY OverlapAssumption DEF Times
  <2>2. ~(clock < LeftBehind(m.high))
    BY <1>1, <1>3, <2>1
  <2> QED BY <1>2, <2>2
<1> QED BY <1>2, <1>4 DEF ClaimHolds

\* They outlive the upsert of a pull by whoever made it.
LEMMA ClaimsUpserted ==
    ASSUME LeadsShape, clock \in Times, NEW w, w.at \in Int, w.got \subseteq leads, w.fin \subseteq w.got, YoungCopies(w),
           UNCHANGED <<clock, leads>>, UpsertLeads(w.got, w.fin, {})
    PROVE  \A m \in LeadMarks : ClaimHolds(m) => ClaimHolds(m)'
<1> SUFFICES ASSUME NEW m \in LeadMarks, ClaimHolds(m), m.high # None, NEW l \in leads,
                    l.at >= m.since, l.at < LeftBehind(m.high)
             PROVE  l \in leadFinal'
  BY DEF ClaimHolds, LeftBehind
<1>1. m.high \in 0 .. clock /\ m.high \in Nat /\ l.at \in Int
  BY DEF LeadMarks, Times, LeadsShape, LeadRecord
<1>2. LeftBehind(m.high) <= m.high - Overlap /\ LeftBehind(m.high) \in Int
  BY <1>1, Behind
<1>3. l \in leadFinal
  BY DEF ClaimHolds
<1>4. ASSUME l \in w.got \ w.fin PROVE FALSE
  BY <1>1, <1>2, <1>4, OverlapAssumption DEF YoungCopies, Times
<1> QED BY <1>3, <1>4 DEF UpsertLeads

LEMMA LeadsKept ==
    ASSUME LeadsInv, clock' \in Times, Extremes', LeadsShape',
           leadLapse' = "none" =>
             /\ leadLapse = "none"
             /\ \A m \in LeadMarks : ClaimHolds(m) => ClaimHolds(m)'
             /\ \A m \in LeadClaims' : m \in LeadClaims \/ ClaimHolds(m)'
             /\ WorkerPulls(leadWorker)' /\ ScriptPulls(leadScript)'
    PROVE  LeadsInv'
BY ClaimTypes DEF LeadsInv, LeadsSound

LEMMA SameClaims ==
    ASSUME UNCHANGED <<clock, leads, leadFinal>>
    PROVE  \A m : ClaimHolds(m)' <=> ClaimHolds(m)
BY DEF ClaimHolds, LeftBehind, WindowStart

LEMMA LeadTimePasses ==
    ASSUME LeadsInv, LeadClockTicks \/ LeadComesIn
    PROVE  LeadsInv'
<1>1. clock \in Nat /\ clock' \in Times /\ (clock' = clock \/ clock' = clock + 1)
  BY OverlapAssumption DEF LeadsInv, Times, LeadClockTicks, LeadComesIn
<1>2. Extremes'
  <2>1. CASE clock' = clock
    BY <2>1 DEF LeadsInv, Extremes
  <2>2. CASE clock' = clock + 1
    BY <1>1, <2>2, NextInstant DEF LeadsInv
  <2> QED BY <1>1, <2>1, <2>2
<1>3. /\ UNCHANGED <<leadRows, leadFinal, leadMark, leadWorker, leadScript, leadLapse>>
      /\ leads \subseteq leads' /\ \A l \in leads' \ leads : l.at = clock /\ l \in LeadRecord
  <2>1. CASE LeadClockTicks
    BY <2>1 DEF LeadClockTicks
  <2>2. CASE LeadComesIn
    <3>1. clock \in 0 .. clock
      BY <1>1
    <3> QED BY <2>2, <3>1 DEF LeadComesIn, LeadRecord
  <2> QED BY <2>1, <2>2
<1>4. LeadRecord \subseteq LeadRecord' /\ LeadMarks \subseteq LeadMarks' /\ 0 .. clock \subseteq 0 .. clock'
  <2>1. 0 .. clock \subseteq 0 .. clock'
    BY <1>1
  <2> QED BY <2>1 DEF LeadRecord, LeadMarks
<1>5. LeadsShape'
  <2>1. leads' \subseteq LeadRecord'
    BY <1>3, <1>4 DEF LeadsInv, LeadsShape
  <2>2. leadWorker \in [pc : {"idle", "list", "fetch", "mark"}, at : 0 .. clock', from : Int, to : 0 .. clock',
                        mark : LeadMarks', todo : SUBSET Campaigns, got : SUBSET leads', fin : SUBSET leads']
    BY <1>3, <1>4 DEF LeadsInv, LeadsShape
  <2>3. leadScript \in [pc : {"off", "upsert", "read", "mark", "done"}, at : 0 .. clock', month : Int,
                        mark : LeadMarks', got : SUBSET leads', fin : SUBSET leads']
    BY <1>3, <1>4 DEF LeadsInv, LeadsShape
  <2> QED BY <1>3, <1>4, <2>1, <2>2, <2>3 DEF LeadsInv, LeadsShape
<1>6. \A m \in LeadMarks : ClaimHolds(m) => ClaimHolds(m)'
  BY <1>3, ClaimsKept DEF LeadsInv
<1>7. LeadClaims' = LeadClaims
  BY <1>3 DEF LeadClaims
<1>8. ASSUME leadLapse = "none" PROVE WorkerPulls(leadWorker)'
  <2>0. WorkerPulls(leadWorker) /\ leadWorker.at \in 0 .. clock
    BY <1>8 DEF LeadsInv, LeadsSound, LeadsShape
  <2>1. leadWorker.pc = "fetch" => clock' <= leadWorker.at + MaxHold
    BY <1>1, <2>0, OverlapAssumption DEF LeadClockTicks, LeadComesIn, WorkerPulls, YoungCopies
  <2>2. ASSUME leadWorker.pc = "fetch", leadWorker.todo # {} \/ leadWorker.got # {}, NEW l \in leads',
               l.campaign \notin leadWorker.todo, l.at \in Span(leadWorker.from, leadWorker.to),
               l.at + Settles < leadWorker.at
        PROVE  l \in leadWorker.fin
    <3>1. l \in leads
      BY <1>1, <1>3, <2>0, <2>2, OverlapAssumption
    <3> QED BY <2>0, <2>2, <3>1 DEF WorkerPulls
  <2> QED BY <1>3, <2>0, <2>1, <2>2 DEF WorkerPulls, YoungCopies, WindowStart
<1>9. ASSUME leadLapse = "none" PROVE ScriptPulls(leadScript)'
  <2>0. ScriptPulls(leadScript) /\ leadScript.at \in 0 .. clock
    BY <1>9 DEF LeadsInv, LeadsSound, LeadsShape
  <2>1. leadScript.pc = "upsert" => clock' <= leadScript.at + MaxHold
    BY <1>1, <2>0, OverlapAssumption DEF LeadClockTicks, LeadComesIn, ScriptPulls, YoungCopies
  <2>2. ASSUME leadScript.pc = "upsert", NEW l \in leads',
               l.at \in DayStart(leadScript.month) .. DayEnd(leadScript.month),
               l.at + Settles < leadScript.at
        PROVE  l \in leadScript.fin
    <3>1. l \in leads
      BY <1>1, <1>3, <2>0, <2>2, OverlapAssumption
    <3> QED BY <2>0, <2>2, <3>1 DEF ScriptPulls
  <2> QED BY <1>3, <2>0, <2>1, <2>2 DEF ScriptPulls, YoungCopies
<1> QED BY <1>1, <1>2, <1>3, <1>5, <1>6, <1>7, <1>8, <1>9, LeadsKept

LEMMA NoClaim == \A m : m.high = None => ClaimHolds(m)
BY DEF ClaimHolds

LEMMA SameTime == UNCHANGED clock /\ LeadsInv => clock' \in Times /\ Extremes'
BY DEF LeadsInv, Extremes

\* The worker reads the mark, lists the campaigns, gives up or dies.
LEMMA LeadWorkerMoves ==
    ASSUME LeadsInv, LeadTickStarts \/ LeadListsCampaigns \/ LeadSyncThrows \/ LeadWorkerDies
    PROVE  LeadsInv'
<1>0. /\ UNCHANGED <<clock, leads, leadRows, leadFinal, leadScript>>
      /\ clock \in Nat /\ clock \in 0 .. clock /\ 0 \in 0 .. clock
  <2>1. clock \in Nat
    BY OverlapAssumption DEF LeadsInv, Times
  <2> QED BY <2>1 DEF LeadTickStarts, LeadListsCampaigns, LeadSyncThrows, LeadWorkerDies
<1>1. NoMark \in LeadMarks /\ NoMark.high = None
  BY DEF NoMark, LeadMarks, None
<1> DEFINE W == [pc : {"idle", "list", "fetch", "mark"}, at : 0 .. clock, from : Int, to : 0 .. clock,
                 mark : LeadMarks, todo : SUBSET Campaigns, got : SUBSET leads, fin : SUBSET leads]
<1>2. /\ leadWorker \in W /\ leadMark \in LeadMarks /\ leadWorker.mark \in LeadMarks
      /\ leadWorker.mark \in LeadClaims /\ leadMark \in LeadClaims
  BY DEF LeadsInv, LeadsShape, LeadClaims, WorkerClaims
<1>3. IdleLeadWorker \in W /\ IdleLeadWorker.fin \subseteq IdleLeadWorker.got
  BY <1>0, <1>1 DEF IdleLeadWorker
<1>4. LeadMarks' = LeadMarks /\ LeadRecord' = LeadRecord /\ W' = W
  BY <1>0 DEF LeadMarks, LeadRecord
<1>5. ASSUME leadWorker' \in W, leadWorker'.fin \subseteq leadWorker'.got, leadMark' \in LeadMarks,
             leadLapse' \in {"none", "page", "batch", "read", "hole"}
      PROVE  LeadsShape'
  BY <1>0, <1>4, <1>5 DEF LeadsInv, LeadsShape
<1>6. ASSUME leadMark' \in {leadMark, leadWorker.mark}, leadWorker'.pc # "mark",
             leadWorker'.mark \in {NoMark, leadMark, leadWorker.mark}
      PROVE  \A m \in LeadClaims' : m \in LeadClaims \/ ClaimHolds(m)'
  <2>1. WorkerClaims(leadWorker') = {leadWorker'.mark}
    BY <1>6 DEF WorkerClaims
  <2>2. LeadClaims' = {leadMark'} \union {leadWorker'.mark} \union ScriptClaims(leadScript)
    BY <1>0, <2>1 DEF LeadClaims
  <2>3. ClaimHolds(NoMark)'
    BY <1>0, <1>1, NoClaim, SameClaims
  <2> QED BY <1>2, <1>6, <2>2, <2>3 DEF LeadClaims
<1>7. ASSUME leadLapse = "none" PROVE ScriptPulls(leadScript)' /\ WorkerPulls(leadWorker)
  BY <1>0, <1>7 DEF LeadsInv, LeadsSound, ScriptPulls, YoungCopies
<1>8. \A m \in LeadMarks : ClaimHolds(m) => ClaimHolds(m)'
  BY <1>0, SameClaims
<1>9. clock' \in Times /\ Extremes'
  BY <1>0, SameTime
<1>10. CASE LeadTickStarts
  <2>1. PICK m \in {leadMark, NoMark} :
          LET from == WindowStart(m.high, clock) IN
          /\ leadWorker' = [IdleLeadWorker EXCEPT !.pc = "list", !.from = from, !.to = clock, !.mark = m]
          /\ leadLapse' = IF /\ m # leadMark /\ leadMark.high # None
                             /\ DayStart(Day(from)) > leadMark.high - Overlap
                          THEN LeadLapse("read") ELSE leadLapse
    BY <1>10 DEF LeadTickStarts
  <2>2. m \in LeadMarks /\ m.high \in Int
    BY <1>0, <1>1, <1>2, <2>1 DEF LeadMarks, None
  <2>3. WindowStart(m.high, clock) \in Int
    BY <1>0, <2>2, OverlapAssumption DEF WindowStart
  <2>4. /\ leadWorker' \in W /\ leadWorker'.pc = "list" /\ leadWorker'.mark = m /\ leadWorker'.got = {}
        /\ leadWorker'.fin = {} /\ leadWorker'.todo = {} /\ leadWorker'.to = clock
        /\ leadWorker'.from = WindowStart(m.high, clock)
    BY <1>0, <2>1, <2>2, <2>3 DEF IdleLeadWorker
  <2>5. UNCHANGED leadMark /\ leadLapse' \in {"none", "page", "batch", "read", "hole"} /\ (leadLapse' = "none" => leadLapse = "none")
    BY <1>10, <2>1 DEF LeadTickStarts, LeadLapse, LeadsInv, LeadsShape
  <2>6. WorkerPulls(leadWorker)'
    BY <2>4 DEF WorkerPulls, WindowStart
  <2> QED BY <1>2, <1>5, <1>6, <1>7, <1>8, <1>9, <2>1, <2>4, <2>5, <2>6, LeadsKept
<1>11. CASE LeadListsCampaigns
  <2>1. PICK cs \in {Campaigns, {}} : leadWorker' = [leadWorker EXCEPT !.pc = "fetch", !.at = clock, !.todo = cs]
    BY <1>11 DEF LeadListsCampaigns
  <2>2. /\ leadWorker' \in W /\ leadWorker'.pc = "fetch" /\ leadWorker'.at = clock /\ leadWorker'.todo = cs
        /\ leadWorker'.mark = leadWorker.mark /\ leadWorker'.got = leadWorker.got /\ leadWorker'.fin = leadWorker.fin
        /\ leadWorker'.from = leadWorker.from /\ leadWorker'.to = leadWorker.to
    BY <1>0, <1>2, <2>1
  <2>3. leadWorker'.fin \subseteq leadWorker'.got /\ UNCHANGED <<leadMark, leadLapse>> /\ leadWorker.pc = "list"
    BY <1>11, <2>2 DEF LeadListsCampaigns, LeadsInv, LeadsShape
  <2>4. ASSUME leadLapse = "none" PROVE WorkerPulls(leadWorker)'
    <3>1. leadWorker.got = {} /\ leadWorker.fin = {} /\ leadWorker.from = WindowStart(leadWorker.mark.high, leadWorker.to)
      BY <1>7, <2>3, <2>4 DEF WorkerPulls
    <3>2. \A l \in leads : l.campaign \in Campaigns
      BY DEF LeadsInv, LeadsShape, LeadRecord
    <3>3. clock <= clock + MaxHold
      BY <1>0, OverlapAssumption
    <3> QED BY <1>0, <2>2, <3>1, <3>2, <3>3 DEF WorkerPulls, YoungCopies, WindowStart
  <2> QED BY <1>2, <1>5, <1>6, <1>7, <1>8, <1>9, <2>2, <2>3, <2>4, LeadsKept DEF LeadsInv, LeadsShape
<1>12. CASE LeadSyncThrows \/ LeadWorkerDies
  <2>1. leadWorker' = IdleLeadWorker /\ leadMark' \in {leadMark, leadWorker.mark} /\ UNCHANGED leadLapse
    BY <1>12 DEF LeadSyncThrows, LeadWorkerDies, MarkAsRead
  <2>2. leadWorker'.pc = "idle" /\ leadWorker'.mark = NoMark
    BY <2>1 DEF IdleLeadWorker
  <2>3. WorkerPulls(leadWorker)'
    BY <2>2 DEF WorkerPulls
  <2> QED BY <1>2, <1>3, <1>5, <1>6, <1>7, <1>8, <1>9, <2>1, <2>2, <2>3, LeadsKept DEF LeadsInv, LeadsShape
<1> QED BY <1>10, <1>11, <1>12

LEMMA LeadWorkerFetches ==
    ASSUME LeadsInv, NEW c \in Campaigns, FetchCampaignLeads(c)
    PROVE  LeadsInv'
<1> DEFINE all == LeadsIn({c}, Span(leadWorker.from, leadWorker.to))
<1>1. PICK got \in SUBSET all :
        /\ leadWorker' = [leadWorker EXCEPT !.todo = @ \ {c}, !.got = @ \union got,
                                            !.fin = @ \union FinalLeads(got)]
        /\ leadLapse' = IF got = all THEN leadLapse ELSE LeadLapse("page")
  BY DEF FetchCampaignLeads
<1>2. /\ UNCHANGED <<clock, leads, leadRows, leadFinal, leadMark, leadScript>>
      /\ leadWorker.pc = "fetch" /\ c \in leadWorker.todo
  BY DEF FetchCampaignLeads
<1>3. all \subseteq leads /\ \A l \in leads : l \in all <=> l.campaign = c /\ l.at \in Span(leadWorker.from, leadWorker.to)
  BY DEF LeadsIn
<1> HIDE DEF all
<1>4. FinalLeads(got) \subseteq got
  BY DEF FinalLeads
<1>5. /\ leadWorker'.pc = "fetch" /\ leadWorker'.at = leadWorker.at /\ leadWorker'.mark = leadWorker.mark
      /\ leadWorker'.from = leadWorker.from /\ leadWorker'.to = leadWorker.to
      /\ leadWorker'.todo = leadWorker.todo \ {c} /\ leadWorker'.got = leadWorker.got \union got
      /\ leadWorker'.fin = leadWorker.fin \union FinalLeads(got)
  BY <1>1, <1>2 DEF LeadsInv, LeadsShape
<1>6. LeadsShape'
  <2>1. LeadMarks' = LeadMarks /\ LeadRecord' = LeadRecord
    BY <1>2 DEF LeadMarks, LeadRecord
  <2>2. leadWorker' \in [pc : {"idle", "list", "fetch", "mark"}, at : 0 .. clock, from : Int, to : 0 .. clock,
                         mark : LeadMarks, todo : SUBSET Campaigns, got : SUBSET leads, fin : SUBSET leads]
    BY <1>1, <1>3, <1>4 DEF LeadsInv, LeadsShape
  <2>3. leadLapse' \in {"none", "page", "batch", "read", "hole"}
    BY <1>1 DEF LeadsInv, LeadsShape, LeadLapse
  <2>4. leadWorker'.fin \subseteq leadWorker'.got
    BY <1>4, <1>5 DEF LeadsInv, LeadsShape
  <2> QED BY <1>2, <2>1, <2>2, <2>3, <2>4 DEF LeadsInv, LeadsShape
<1>7. ASSUME leadLapse' = "none" PROVE leadLapse = "none" /\ got = all
  BY <1>1, <1>7 DEF LeadLapse
<1>8. ASSUME leadLapse' = "none" PROVE WorkerPulls(leadWorker)' /\ ScriptPulls(leadScript)'
  <2>1. WorkerPulls(leadWorker) /\ ScriptPulls(leadScript) /\ got = all
    BY <1>7, <1>8 DEF LeadsInv, LeadsSound
  <2>2. /\ YoungCopies(leadWorker) /\ leadWorker.from = WindowStart(leadWorker.mark.high, leadWorker.to)
        /\ leadWorker.at \in 0 .. clock /\ clock \in Nat
    BY <1>2, <2>1, OverlapAssumption DEF WorkerPulls, LeadsInv, LeadsShape, Times
  <2>3. ASSUME NEW l \in leadWorker'.got \ leadWorker'.fin PROVE l.at + Settles > leadWorker.at
    <3>1. CASE l \in leadWorker.got
      BY <1>5, <2>2, <2>3, <3>1 DEF YoungCopies
    <3>2. CASE l \in got
      <4>1. l.at \in Int /\ ~(l.at + Settles <= clock)
        BY <1>3, <1>5, <2>3, <3>2 DEF FinalLeads, LeadsInv, LeadsShape, LeadRecord
      <4> QED BY <2>2, <4>1, OverlapAssumption
    <3> QED BY <1>5, <2>3, <3>1, <3>2
  <2>4. ASSUME NEW l \in leadWorker'.got PROVE l.at <= DayEnd(Day(leadWorker.to))
    <3>1. CASE l \in leadWorker.got
      BY <1>2, <2>1, <3>1 DEF WorkerPulls
    <3>2. CASE l \in got
      BY <1>3, <3>2 DEF Span
    <3> QED BY <1>5, <2>4, <3>1, <3>2
  <2>5. ASSUME NEW l \in leads, l.campaign \notin leadWorker'.todo, l.at \in Span(leadWorker.from, leadWorker.to),
               l.at + Settles < leadWorker.at
        PROVE  l \in leadWorker'.fin
    <3>1. CASE l.campaign = c
      <4>1. l \in got /\ l.at \in Int
        BY <1>3, <2>1, <2>5, <3>1 DEF LeadsInv, LeadsShape, LeadRecord
      <4>2. l.at + Settles <= clock
        BY <2>2, <2>5, <4>1, OverlapAssumption
      <4> QED BY <1>5, <4>1, <4>2 DEF FinalLeads
    <3>2. CASE l.campaign # c
      <4>1. leadWorker.todo # {} /\ l.campaign \notin leadWorker.todo
        BY <1>2, <1>5, <2>5, <3>2
      <4>2. l \in leadWorker.fin
        BY <1>2, <2>1, <2>5, <4>1 DEF WorkerPulls
      <4> QED BY <1>5, <4>2
    <3> QED BY <3>1, <3>2
  <2>6. WorkerPulls(leadWorker)'
    BY <1>2, <1>5, <2>2, <2>3, <2>4, <2>5 DEF WorkerPulls, YoungCopies, WindowStart
  <2> QED BY <1>2, <2>1, <2>6 DEF ScriptPulls, YoungCopies
<1>9. LeadClaims' = LeadClaims
  <2>1. WorkerClaims(leadWorker') = WorkerClaims(leadWorker)
    BY <1>2, <1>5 DEF WorkerClaims
  <2> QED BY <1>2, <2>1 DEF LeadClaims
<1> QED BY <1>2, <1>6, <1>7, <1>8, <1>9, SameTime, SameClaims, LeadsKept

LEMMA LeadWorkerStores ==
    ASSUME LeadsInv, LeadWorkerUpserts
    PROVE  LeadsInv'
<1>1. PICK lost \in SUBSET leadWorker.got : UpsertLeads(leadWorker.got, leadWorker.fin, lost)
  BY DEF LeadWorkerUpserts
<1>2. /\ UNCHANGED <<clock, leads, leadMark, leadScript>> /\ leadWorker.pc = "fetch" /\ leadWorker.todo = {}
      /\ leadWorker' = [leadWorker EXCEPT !.pc = "mark", !.todo = {}]
  BY DEF LeadWorkerUpserts
<1>3. /\ leadWorker'.pc = "mark" /\ leadWorker'.at = leadWorker.at /\ leadWorker'.mark = leadWorker.mark
      /\ leadWorker'.from = leadWorker.from /\ leadWorker'.to = leadWorker.to
      /\ leadWorker'.got = leadWorker.got /\ leadWorker'.fin = leadWorker.fin
  BY <1>2 DEF LeadsInv, LeadsShape
<1>4. LeadsShape'
  <2>1. LeadMarks' = LeadMarks /\ LeadRecord' = LeadRecord
    BY <1>2 DEF LeadMarks, LeadRecord
  <2>2. leadWorker' \in [pc : {"idle", "list", "fetch", "mark"}, at : 0 .. clock, from : Int, to : 0 .. clock,
                         mark : LeadMarks, todo : SUBSET Campaigns, got : SUBSET leads, fin : SUBSET leads]
    BY <1>2 DEF LeadsInv, LeadsShape
  <2>3. leadFinal' \subseteq leadRows' /\ leadRows' \subseteq leads
    BY <1>1 DEF LeadsInv, LeadsShape, UpsertLeads
  <2>4. leadLapse' \in {"none", "page", "batch", "read", "hole"}
    BY <1>1 DEF LeadsInv, LeadsShape, LeadLapse, UpsertLeads
  <2> QED BY <1>2, <1>3, <2>1, <2>2, <2>3, <2>4 DEF LeadsInv, LeadsShape
<1>5. ASSUME leadLapse' = "none"
      PROVE  /\ leadLapse = "none" /\ \A m \in LeadMarks : ClaimHolds(m) => ClaimHolds(m)'
             /\ \A m \in LeadClaims' : m \in LeadClaims \/ ClaimHolds(m)'
             /\ WorkerPulls(leadWorker)' /\ ScriptPulls(leadScript)'
  <2>1. leadLapse = "none" /\ lost = {}
    BY <1>1, <1>5 DEF LeadLapse, UpsertLeads
  <2>2. /\ WorkerPulls(leadWorker) /\ ScriptPulls(leadScript) /\ \A m \in LeadClaims : ClaimHolds(m)
        /\ YoungCopies(leadWorker) /\ clock \in Times /\ leadWorker.at \in Int /\ leadWorker.got \subseteq leads
        /\ leadWorker.fin \subseteq leadWorker.got
    BY <1>2, <2>1 DEF LeadsInv, LeadsSound, WorkerPulls, LeadsShape
  <2>3. \A m \in LeadMarks : ClaimHolds(m) => ClaimHolds(m)'
    BY <1>1, <1>2, <2>1, <2>2, ClaimsUpserted DEF LeadsInv
  <2>4. ScriptPulls(leadScript)'
    BY <1>2, <2>2 DEF ScriptPulls, YoungCopies
  <2>5. WorkerPulls(leadWorker)'
    BY <1>2, <1>3, <2>2 DEF WorkerPulls, WindowStart
  <2>6. ASSUME NEW h \in Dates(leadWorker.got),
               NEW since, since = IF leadWorker.mark.high = None THEN leadWorker.from ELSE leadWorker.mark.since,
               NEW l \in leads, l.at >= since, l.at < LeftBehind(h)
        PROVE  l \in leadFinal'
    <3>1. PICK k \in leadWorker.got : h = k.at
      BY DEF Dates
    <3>2. h \in 0 .. clock /\ h <= DayEnd(Day(leadWorker.to)) /\ clock <= leadWorker.at + MaxHold /\ leadWorker.got # {}
      BY <1>2, <2>2, <3>1 DEF WorkerPulls, YoungCopies, LeadsInv, LeadsShape, LeadRecord
    <3>3. h \in Nat /\ LeftBehind(h) \in Int /\ LeftBehind(h) <= h - Overlap /\ l.at \in Int /\ clock \in Nat
      BY <3>2, Behind, OverlapAssumption DEF LeadsInv, LeadsShape, LeadRecord, Times
    <3>4. l.at + Settles < leadWorker.at /\ l.at <= h
      BY <2>2, <2>6, <3>2, <3>3, OverlapAssumption
    <3>5. leadWorker.from \in Int /\ leadWorker.to \in Int /\ leadWorker.mark \in LeadMarks
      BY DEF LeadsInv, LeadsShape
    <3>6. /\ DayStart(Day(leadWorker.from)) \in Int /\ DayStart(Day(leadWorker.from)) <= leadWorker.from
          /\ DayEnd(Day(leadWorker.to)) \in Int
      BY <3>5, DayBounds
    <3>7. CASE l.at >= DayStart(Day(leadWorker.from))
      <4>1. l.at \in Span(leadWorker.from, leadWorker.to)
        BY <3>2, <3>3, <3>4, <3>6, <3>7 DEF Span
      <4>2. l \in leadWorker.fin
        BY <1>2, <2>2, <3>2, <3>4, <4>1 DEF WorkerPulls
      <4> QED BY <1>1, <2>1, <4>2 DEF UpsertLeads
    <3>8. CASE l.at < DayStart(Day(leadWorker.from))
      <4>1. leadWorker.mark.high # None /\ l.at >= leadWorker.mark.since
        BY <2>6, <3>3, <3>5, <3>6, <3>8
      <4>2. leadWorker.mark.high \in Nat /\ leadWorker.from = leadWorker.mark.high - Overlap
        BY <1>2, <2>2, <3>5, <4>1 DEF LeadMarks, WorkerPulls, WindowStart
      <4>3. l.at < LeftBehind(leadWorker.mark.high)
        BY <3>8, <4>2, Behind
      <4>4. leadWorker.mark \in LeadClaims
        BY DEF LeadClaims, WorkerClaims
      <4>5. \A m \in LeadMarks : m = leadWorker.mark => ClaimHolds(m)'
        BY <2>2, <2>3, <4>4
      <4>6. \A m \in LeadMarks : ClaimHolds(m)' /\ m.high # None /\ l.at >= m.since /\ l.at < LeftBehind(m.high)
                                => l \in leadFinal'
        BY <1>2 DEF ClaimHolds, LeftBehind, WindowStart
      <4> QED BY <3>5, <4>1, <4>3, <4>5, <4>6
    <3> QED BY <3>3, <3>6, <3>7, <3>8
  <2>7. \A m \in LeadClaims' : m \in LeadClaims \/ ClaimHolds(m)'
    <3>1. ASSUME NEW h \in Dates(leadWorker.got), NEW m,
                 m = [high |-> h, since |-> IF leadWorker.mark.high = None THEN leadWorker.from ELSE leadWorker.mark.since]
          PROVE  ClaimHolds(m)'
      <4>1. m.high = h /\ m.since = IF leadWorker.mark.high = None THEN leadWorker.from ELSE leadWorker.mark.since
        BY <3>1
      <4>2. \A l \in leads : l.at >= m.since /\ l.at < LeftBehind(h) => l \in leadFinal'
        BY <2>6, <4>1
      <4>3. h # None => LeftBehind(h)' = LeftBehind(h)
        BY DEF LeftBehind, WindowStart
      <4> QED BY <1>2, <4>1, <4>2, <4>3 DEF ClaimHolds
    <3>2. WorkerClaims(leadWorker') =
            {leadWorker.mark} \union
            {[high |-> h, since |-> IF leadWorker.mark.high = None THEN leadWorker.from ELSE leadWorker.mark.since] :
               h \in Dates(leadWorker.got)}
      BY <1>3 DEF WorkerClaims
    <3>3. leadWorker.mark \in LeadClaims
      BY DEF LeadClaims, WorkerClaims
    <3>4. LeadClaims' = {leadMark} \union WorkerClaims(leadWorker') \union ScriptClaims(leadScript)
      BY <1>2 DEF LeadClaims
    <3> SUFFICES ASSUME NEW m \in LeadClaims' PROVE m \in LeadClaims \/ ClaimHolds(m)'
      OBVIOUS
    <3>5. m \in {leadMark} \union WorkerClaims(leadWorker') \union ScriptClaims(leadScript)
      BY <3>4
    <3>6. CASE m \in WorkerClaims(leadWorker')
      BY <3>1, <3>2, <3>3, <3>6
    <3> QED BY <3>5, <3>6 DEF LeadClaims
  <2> QED BY <2>1, <2>3, <2>4, <2>5, <2>7
<1> QED BY <1>2, <1>4, <1>5, SameTime, LeadsKept

LEMMA LeadWorkerMarks ==
    ASSUME LeadsInv, LeadSetsMark
    PROVE  LeadsInv'
<1> DEFINE since == IF leadWorker.mark.high = None THEN leadWorker.from ELSE leadWorker.mark.since
<1>1. /\ UNCHANGED <<clock, leads, leadRows, leadFinal, leadScript, leadLapse>> /\ leadWorker.pc = "mark"
      /\ leadWorker' = IdleLeadWorker
      /\ leadMark' = leadMark \/ leadMark' = [high |-> NewestLead(leadWorker), since |-> since]
  BY DEF LeadSetsMark
<1>2. /\ leadWorker.mark \in LeadMarks /\ leadWorker.from \in Int /\ Dates(leadWorker.got) \in SUBSET (0 .. clock)
      /\ clock \in Nat /\ 0 \in 0 .. clock /\ since \in Int
  <2>1. clock \in Nat
    BY OverlapAssumption DEF LeadsInv, Times
  <2> QED BY <2>1 DEF LeadsInv, LeadsShape, LeadRecord, Dates, LeadMarks
<1>3. \/ /\ Dates(leadWorker.got) # {} /\ NewestLead(leadWorker) \in Dates(leadWorker.got)
      \/ NewestLead(leadWorker) = leadWorker.mark.high
  BY <1>2, NewestAndOldest DEF NewestLead, NewHigh, LeadsInv
<1>4. NewestLead(leadWorker) \in (0 .. clock) \union {None}
  BY <1>2, <1>3 DEF LeadMarks
<1>5. LeadMarks' = LeadMarks /\ LeadRecord' = LeadRecord
  BY <1>1 DEF LeadMarks, LeadRecord
<1>6. leadMark' \in LeadMarks
  BY <1>1, <1>2, <1>4 DEF LeadMarks, LeadsInv, LeadsShape
<1>7. /\ IdleLeadWorker \in [pc : {"idle", "list", "fetch", "mark"}, at : 0 .. clock, from : Int, to : 0 .. clock,
                              mark : LeadMarks, todo : SUBSET Campaigns, got : SUBSET leads, fin : SUBSET leads]
      /\ IdleLeadWorker.pc = "idle" /\ IdleLeadWorker.mark = NoMark /\ IdleLeadWorker.fin = {} /\ NoMark.high = None
  <2>1. NoMark \in LeadMarks /\ NoMark.high = None
    BY DEF NoMark, LeadMarks, None
  <2> QED BY <1>2, <2>1 DEF IdleLeadWorker
<1>8. LeadsShape'
  BY <1>1, <1>5, <1>6, <1>7 DEF LeadsInv, LeadsShape
<1>9. leadMark' \in LeadClaims \/ leadMark'.high = None
  <2>1. CASE leadMark' = leadMark
    BY <2>1 DEF LeadClaims
  <2>2. CASE leadMark' = [high |-> NewestLead(leadWorker), since |-> since]
    <3>1. CASE NewestLead(leadWorker) \in Dates(leadWorker.got)
      BY <1>1, <2>2, <3>1 DEF LeadClaims, WorkerClaims
    <3>2. CASE NewestLead(leadWorker) = leadWorker.mark.high /\ leadWorker.mark.high # None
      <4>1. leadMark' = leadWorker.mark
        BY <1>2, <2>2, <3>2 DEF LeadMarks
      <4> QED BY <4>1 DEF LeadClaims, WorkerClaims
    <3> QED BY <1>3, <2>2, <3>1, <3>2
  <2> QED BY <1>1, <2>1, <2>2
<1>10. \A m \in LeadClaims' : m \in LeadClaims \/ ClaimHolds(m)'
  <2>1. LeadClaims' = {leadMark'} \union {NoMark} \union ScriptClaims(leadScript)
    BY <1>1, <1>7 DEF LeadClaims, WorkerClaims
  <2>2. \A m : m.high = None => ClaimHolds(m)'
    BY DEF ClaimHolds
  <2> QED BY <1>7, <1>9, <2>1, <2>2 DEF LeadClaims
<1>11. leadLapse = "none" => WorkerPulls(leadWorker)' /\ ScriptPulls(leadScript)'
  BY <1>1, <1>7 DEF LeadsInv, LeadsSound, WorkerPulls, ScriptPulls, YoungCopies
<1> QED BY <1>1, <1>8, <1>10, <1>11, SameTime, SameClaims, LeadsKept

\* The script pulls its month.
LEMMA LeadScriptFetches ==
    ASSUME LeadsInv, LeadBackfillFetches
    PROVE  LeadsInv'
<1>1. PICK d \in LeadMonths : LET all == LeadsIn(Campaigns, Span(DayStart(d), DayStart(d))) IN
         /\ d <= Day(clock)
         /\ \E got \in SUBSET all :
              /\ leadScript' = [IdleLeadScript EXCEPT !.pc = "upsert", !.at = clock, !.month = d,
                                                      !.got = got, !.fin = FinalLeads(got)]
              /\ leadLapse' = IF got = all THEN leadLapse ELSE LeadLapse("page")
  BY DEF LeadBackfillFetches
<1> DEFINE all == LeadsIn(Campaigns, Span(DayStart(d), DayStart(d)))
<1>2. PICK got \in SUBSET all :
        /\ leadScript' = [IdleLeadScript EXCEPT !.pc = "upsert", !.at = clock, !.month = d,
                                                !.got = got, !.fin = FinalLeads(got)]
        /\ leadLapse' = IF got = all THEN leadLapse ELSE LeadLapse("page")
  BY <1>1
<1>3. UNCHANGED <<clock, leads, leadRows, leadFinal, leadMark, leadWorker>>
  BY DEF LeadBackfillFetches
<1>4. d \in Int /\ Day(DayStart(d)) = d /\ DayStart(d) \in Int /\ DayEnd(d) \in Int
  BY MonthsAssumption, DayStarts
<1>5. all \subseteq leads /\ \A l \in leads : l \in all <=> l.at \in DayStart(d) .. DayEnd(d)
  BY <1>4 DEF LeadsIn, Span, LeadsInv, LeadsShape, LeadRecord
<1> HIDE DEF all
<1>6. /\ leadScript'.pc = "upsert" /\ leadScript'.at = clock /\ leadScript'.month = d /\ leadScript'.mark = NoMark
      /\ leadScript'.got = got /\ leadScript'.fin = FinalLeads(got)
  BY <1>2 DEF IdleLeadScript
<1>7. FinalLeads(got) \subseteq got /\ clock \in Nat
  BY OverlapAssumption DEF FinalLeads, LeadsInv, Times
<1>8. LeadsShape'
  <2>1. LeadMarks' = LeadMarks /\ LeadRecord' = LeadRecord
    BY <1>3 DEF LeadMarks, LeadRecord
  <2>2. NoMark \in LeadMarks /\ clock \in 0 .. clock
    BY <1>7 DEF NoMark, LeadMarks, None
  <2>3. leadScript' \in [pc : {"off", "upsert", "read", "mark", "done"}, at : 0 .. clock, month : Int,
                         mark : LeadMarks, got : SUBSET leads, fin : SUBSET leads]
    BY <1>2, <1>4, <1>5, <1>7, <2>2 DEF IdleLeadScript
  <2>4. leadLapse' \in {"none", "page", "batch", "read", "hole"}
    BY <1>2 DEF LeadsInv, LeadsShape, LeadLapse
  <2> QED BY <1>3, <1>6, <1>7, <2>1, <2>3, <2>4 DEF LeadsInv, LeadsShape
<1>9. leadLapse' = "none" => leadLapse = "none" /\ got = all
  BY <1>2 DEF LeadLapse
<1>10. \A m \in LeadClaims' : m \in LeadClaims \/ ClaimHolds(m)'
  <2>1. LeadClaims' = {leadMark} \union WorkerClaims(leadWorker) \union {NoMark}
    BY <1>3, <1>6 DEF LeadClaims, ScriptClaims
  <2>2. NoMark.high = None /\ \A m : m.high = None => ClaimHolds(m)'
    BY DEF ClaimHolds, NoMark
  <2> QED BY <2>1, <2>2 DEF LeadClaims
<1>11. ASSUME leadLapse' = "none" PROVE WorkerPulls(leadWorker)' /\ ScriptPulls(leadScript)'
  <2>1. WorkerPulls(leadWorker)'
    BY <1>3, <1>9, <1>11 DEF LeadsInv, LeadsSound, WorkerPulls, YoungCopies, WindowStart
  <2>2. \A l \in leads : l.at \in 0 .. clock
    BY DEF LeadsInv, LeadsShape, LeadRecord
  <2>3. ASSUME NEW l \in got \ FinalLeads(got) PROVE l.at + Settles > clock
    <3>1. l.at \in Int /\ ~(l.at + Settles <= clock)
      BY <1>5, <2>2, <2>3 DEF FinalLeads
    <3> QED BY <1>7, <3>1, OverlapAssumption
  <2>4. \A l \in got : l.at <= DayEnd(d) /\ l.at <= clock
    BY <1>4, <1>5, <1>7, <2>2
  <2>5. ASSUME NEW l \in leads, l.at \in DayStart(d) .. DayEnd(d), l.at + Settles < clock PROVE l \in FinalLeads(got)
    BY <1>5, <1>7, <1>9, <1>11, <2>2, <2>5, OverlapAssumption DEF FinalLeads
  <2>6. clock <= clock + MaxHold
    BY <1>7, OverlapAssumption
  <2> QED BY <1>3, <1>6, <2>1, <2>3, <2>4, <2>5, <2>6 DEF ScriptPulls, YoungCopies
<1> QED BY <1>3, <1>8, <1>9, <1>10, <1>11, SameTime, SameClaims, LeadsKept

\* It stores them; the marks it may write claim its month.
LEMMA LeadScriptStores ==
    ASSUME LeadsInv, LeadBackfillUpserts
    PROVE  LeadsInv'
<1>1. PICK lost \in SUBSET leadScript.got : UpsertLeads(leadScript.got, leadScript.fin, lost)
  BY DEF LeadBackfillUpserts
<1>2. /\ UNCHANGED <<clock, leads, leadMark, leadWorker>> /\ leadScript.pc = "upsert"
      /\ leadScript' = [leadScript EXCEPT !.pc = IF leadScript.got = {} THEN "done" ELSE "read"]
  BY DEF LeadBackfillUpserts
<1>3. /\ leadScript'.pc = IF leadScript.got = {} THEN "done" ELSE "read"
      /\ leadScript'.mark = leadScript.mark /\ leadScript'.month = leadScript.month
      /\ leadScript'.got = leadScript.got /\ leadScript'.fin = leadScript.fin
  BY <1>2 DEF LeadsInv, LeadsShape
<1>4. LeadsShape'
  <2>1. LeadMarks' = LeadMarks /\ LeadRecord' = LeadRecord
    BY <1>2 DEF LeadMarks, LeadRecord
  <2>2. leadScript' \in [pc : {"off", "upsert", "read", "mark", "done"}, at : 0 .. clock, month : Int,
                         mark : LeadMarks, got : SUBSET leads, fin : SUBSET leads]
    BY <1>2 DEF LeadsInv, LeadsShape
  <2>3. leadFinal' \subseteq leadRows' /\ leadRows' \subseteq leads
    BY <1>1 DEF LeadsInv, LeadsShape, UpsertLeads
  <2>4. leadLapse' \in {"none", "page", "batch", "read", "hole"}
    BY <1>1 DEF LeadsInv, LeadsShape, LeadLapse, UpsertLeads
  <2>5. leadScript'.pc \in {"read", "mark"} => leadScript'.got # {}
    BY <1>3
  <2> QED BY <1>2, <1>3, <2>1, <2>2, <2>3, <2>4, <2>5 DEF LeadsInv, LeadsShape
<1>5. ASSUME leadLapse' = "none"
      PROVE  /\ leadLapse = "none" /\ \A m \in LeadMarks : ClaimHolds(m) => ClaimHolds(m)'
             /\ \A m \in LeadClaims' : m \in LeadClaims \/ ClaimHolds(m)'
             /\ WorkerPulls(leadWorker)' /\ ScriptPulls(leadScript)'
  <2>1. leadLapse = "none" /\ lost = {}
    BY <1>1, <1>5 DEF LeadLapse, UpsertLeads
  <2>2. /\ WorkerPulls(leadWorker) /\ ScriptPulls(leadScript) /\ YoungCopies(leadScript) /\ clock \in Times
        /\ leadScript.at \in Int /\ leadScript.got \subseteq leads /\ leadScript.fin \subseteq leadScript.got
        /\ leadScript.month \in Int
    BY <1>2, <2>1 DEF LeadsInv, LeadsSound, ScriptPulls, LeadsShape
  <2>3. \A m \in LeadMarks : ClaimHolds(m) => ClaimHolds(m)'
    BY <1>1, <1>2, <2>1, <2>2, ClaimsUpserted DEF LeadsInv
  <2>4. WorkerPulls(leadWorker)'
    BY <1>2, <2>2 DEF WorkerPulls, YoungCopies, WindowStart
  <2>5. ScriptPulls(leadScript)'
    BY <1>3 DEF ScriptPulls
  <2>6. ASSUME NEW h \in Dates(leadScript.got), NEW l \in leads, l.at >= DayStart(leadScript.month), l.at < LeftBehind(h)
        PROVE  l \in leadFinal'
    <3>1. PICK k \in leadScript.got : h = k.at
      BY DEF Dates
    <3>2. h \in 0 .. clock /\ h <= DayEnd(leadScript.month) /\ h <= leadScript.at
      BY <1>2, <2>2, <3>1 DEF ScriptPulls, LeadsInv, LeadsShape, LeadRecord
    <3>3. /\ h \in Nat /\ LeftBehind(h) \in Int /\ LeftBehind(h) <= h - Overlap /\ l.at \in Int
          /\ DayStart(leadScript.month) \in Int /\ DayEnd(leadScript.month) \in Int
      BY <2>2, <3>2, Behind, DayStarts, OverlapAssumption DEF LeadsInv, LeadsShape, LeadRecord, Times
    <3>4. l.at + Settles < leadScript.at /\ l.at \in DayStart(leadScript.month) .. DayEnd(leadScript.month)
      BY <2>2, <2>6, <3>2, <3>3, OverlapAssumption
    <3>5. l \in leadScript.fin
      BY <1>2, <2>2, <3>4 DEF ScriptPulls
    <3> QED BY <1>1, <2>1, <3>5 DEF UpsertLeads
  <2>7. ASSUME NEW m \in LeadClaims' PROVE m \in LeadClaims \/ ClaimHolds(m)'
    <3>1. ASSUME NEW h \in Dates(leadScript.got), m = [high |-> h, since |-> DayStart(leadScript.month)]
          PROVE  ClaimHolds(m)'
      <4>1. m.high = h /\ m.since = DayStart(leadScript.month)
        BY <3>1
      <4>2. \A l \in leads : l.at >= m.since /\ l.at < LeftBehind(h) => l \in leadFinal'
        BY <2>6, <4>1
      <4>3. h # None => LeftBehind(h)' = LeftBehind(h)
        BY DEF LeftBehind, WindowStart
      <4> QED BY <1>2, <4>1, <4>2, <4>3 DEF ClaimHolds
    <3>2. ScriptClaims(leadScript') \subseteq {leadScript.mark} \union
            {[high |-> h, since |-> DayStart(leadScript.month)] : h \in Dates(leadScript.got)}
      BY <1>3 DEF ScriptClaims
    <3>3. m \in {leadMark} \union WorkerClaims(leadWorker) \union ScriptClaims(leadScript')
      BY <1>2, <2>7 DEF LeadClaims
    <3>4. CASE m \in ScriptClaims(leadScript')
      <4>1. leadScript.mark \in LeadClaims
        BY DEF LeadClaims, ScriptClaims
      <4> QED BY <3>1, <3>2, <3>4, <4>1
    <3> QED BY <3>3, <3>4 DEF LeadClaims
  <2> QED BY <2>1, <2>3, <2>4, <2>5, <2>7
<1> QED BY <1>2, <1>4, <1>5, SameTime, LeadsKept

\* It reads the mark, writes its own if that is newer and leaves no hole, or dies.
LEMMA LeadScriptMarks ==
    ASSUME LeadsInv, LeadBackfillReads \/ LeadBackfillMarks \/ LeadBackfillDies
    PROVE  LeadsInv'
<1>0. /\ UNCHANGED <<clock, leads, leadRows, leadFinal, leadWorker>>
      /\ clock \in Nat /\ 0 \in 0 .. clock
  <2>1. clock \in Nat
    BY OverlapAssumption DEF LeadsInv, Times
  <2> QED BY <2>1 DEF LeadBackfillReads, LeadBackfillMarks, LeadBackfillDies
<1>1. NoMark \in LeadMarks /\ NoMark.high = None
  BY DEF NoMark, LeadMarks, None
<1> DEFINE S == [pc : {"off", "upsert", "read", "mark", "done"}, at : 0 .. clock, month : Int,
                 mark : LeadMarks, got : SUBSET leads, fin : SUBSET leads]
<1>2. leadScript \in S /\ leadMark \in LeadMarks /\ leadScript.mark \in LeadMarks /\ leadScript.month \in Int
  BY DEF LeadsInv, LeadsShape
<1>3. LeadMarks' = LeadMarks /\ LeadRecord' = LeadRecord /\ S' = S
  BY <1>0 DEF LeadMarks, LeadRecord
<1>4. ASSUME leadScript' \in S, leadScript'.fin \subseteq leadScript'.got, leadMark' \in LeadMarks,
             leadScript'.pc \in {"read", "mark"} => leadScript'.got # {},
             leadLapse' \in {"none", "page", "batch", "read", "hole"}
      PROVE  LeadsShape'
  BY <1>0, <1>3, <1>4 DEF LeadsInv, LeadsShape
<1>5. ASSUME leadLapse = "none" PROVE WorkerPulls(leadWorker)'
  BY <1>0, <1>5 DEF LeadsInv, LeadsSound, WorkerPulls, YoungCopies, WindowStart
<1>6. \A m \in LeadMarks : ClaimHolds(m) => ClaimHolds(m)'
  BY <1>0, SameClaims
<1>7. clock' \in Times /\ Extremes'
  BY <1>0, SameTime
<1>8. \A m : m.high = None => ClaimHolds(m)'
  BY DEF ClaimHolds
<1>9. CASE LeadBackfillReads
  <2>1. PICK m \in {leadMark, NoMark} :
          leadScript' = [leadScript EXCEPT
             !.pc = IF Max(Dates(leadScript.got)) > (IF m.high = None THEN 0 ELSE m.high) THEN "mark" ELSE "done",
             !.mark = m]
    BY <1>9 DEF LeadBackfillReads
  <2>2. /\ leadScript' \in S /\ leadScript'.pc \in {"mark", "done"} /\ leadScript'.mark = m
        /\ leadScript'.month = leadScript.month /\ leadScript'.got = leadScript.got /\ leadScript'.fin = leadScript.fin
    BY <1>1, <1>2, <2>1
  <2>3. UNCHANGED <<leadMark, leadLapse>> /\ leadScript.pc = "read"
    BY <1>9 DEF LeadBackfillReads
  <2>4. LeadsShape'
    BY <1>2, <1>4, <2>2, <2>3 DEF LeadsInv, LeadsShape
  <2>5. ScriptPulls(leadScript)'
    BY <2>2 DEF ScriptPulls
  <2>6. ScriptClaims(leadScript') \subseteq {leadMark, NoMark} \union ScriptClaims(leadScript)
    BY <2>1, <2>2, <2>3 DEF ScriptClaims
  <2>7. \A n \in LeadClaims' : n \in LeadClaims \/ ClaimHolds(n)'
    <3>1. LeadClaims' \subseteq LeadClaims \union {NoMark}
      BY <1>0, <2>3, <2>6 DEF LeadClaims
    <3> QED BY <1>1, <1>8, <3>1
  <2> QED BY <1>5, <1>6, <1>7, <2>3, <2>4, <2>5, <2>7, LeadsKept
<1>10. CASE LeadBackfillMarks \/ LeadBackfillDies
  <2>1. leadScript' = [IdleLeadScript EXCEPT !.pc = "done"]
    BY <1>10 DEF LeadBackfillMarks, LeadBackfillDies
  <2>2. /\ leadScript' \in S /\ leadScript'.pc = "done" /\ leadScript'.mark = NoMark /\ leadScript'.fin = {}
    BY <1>0, <1>1, <2>1 DEF IdleLeadScript
  <2>3. ScriptPulls(leadScript)'
    BY <2>2 DEF ScriptPulls
  <2>4. LeadClaims' = {leadMark'} \union WorkerClaims(leadWorker) \union {NoMark}
    BY <1>0, <2>2 DEF LeadClaims, ScriptClaims
  <2>5. CASE LeadBackfillDies
    <3>1. UNCHANGED <<leadMark, leadLapse>>
      BY <2>5 DEF LeadBackfillDies
    <3>2. LeadsShape'
      BY <1>2, <1>4, <2>2, <3>1 DEF LeadsInv, LeadsShape
    <3>3. \A n \in LeadClaims' : n \in LeadClaims \/ ClaimHolds(n)'
      BY <1>1, <1>8, <2>4, <3>1 DEF LeadClaims
    <3> QED BY <1>5, <1>6, <1>7, <2>3, <3>1, <3>2, <3>3, LeadsKept
  <2>6. CASE LeadBackfillMarks
    <3> DEFINE h == Max(Dates(leadScript.got))
               since == IF leadScript.mark.high = None THEN DayStart(leadScript.month) ELSE leadScript.mark.since
    <3>1. /\ leadScript.pc = "mark" /\ leadMark' = [high |-> h, since |-> since]
          /\ leadLapse' = IF /\ leadScript.mark.high # None
                             /\ DayStart(leadScript.month) > leadScript.mark.high - Overlap
                          THEN LeadLapse("hole") ELSE leadLapse
      BY <2>6 DEF LeadBackfillMarks
    <3>2. Dates(leadScript.got) \in SUBSET (0 .. clock) /\ Dates(leadScript.got) # {}
      BY <3>1 DEF LeadsInv, LeadsShape, LeadRecord, Dates
    <3>3. h \in Dates(leadScript.got) /\ h \in 0 .. clock /\ h \in Nat
      BY <1>0, <3>2, NewestAndOldest DEF LeadsInv
    <3>4. DayStart(leadScript.month) \in Int /\ since \in Int
      BY <1>2, DayStarts DEF LeadMarks
    <3> HIDE DEF h, since
    <3>5. leadMark' \in LeadMarks /\ leadMark'.high = h /\ leadMark'.since = since
      BY <3>1, <3>3, <3>4 DEF LeadMarks
    <3>6. leadLapse' \in {"none", "page", "batch", "read", "hole"} /\ (leadLapse' = "none" => leadLapse = "none")
      BY <3>1 DEF LeadsInv, LeadsShape, LeadLapse
    <3>7. LeadsShape'
      BY <1>4, <2>2, <3>5, <3>6
    <3>8. ASSUME leadLapse' = "none" PROVE \A l \in leads : l.at >= since /\ l.at < LeftBehind(h) => l \in leadFinal
      <4>1. leadLapse = "none" /\ (leadScript.mark.high # None => ~(DayStart(leadScript.month) > leadScript.mark.high - Overlap))
        BY <3>1, <3>8 DEF LeadLapse
      <4>2. SUFFICES ASSUME NEW l \in leads, l.at >= since, l.at < LeftBehind(h) PROVE l \in leadFinal
        OBVIOUS
      <4>3. l.at \in Int
        BY DEF LeadsInv, LeadsShape, LeadRecord
      <4>4. [high |-> h, since |-> DayStart(leadScript.month)] \in LeadClaims
        BY <3>1, <3>3 DEF LeadClaims, ScriptClaims
      <4>5. CASE l.at >= DayStart(leadScript.month)
        <5>1. ClaimHolds([high |-> h, since |-> DayStart(leadScript.month)]) /\ h # None
          BY <3>3, <4>1, <4>4 DEF LeadsInv, LeadsSound, None
        <5> QED BY <4>2, <4>5, <5>1 DEF ClaimHolds
      <4>6. CASE l.at < DayStart(leadScript.month)
        <5>1. leadScript.mark.high # None /\ l.at >= leadScript.mark.since
          BY <3>4, <4>2, <4>3, <4>6 DEF since
        <5>2. leadScript.mark.high \in Nat /\ leadScript.mark.high - Overlap \in Int
          BY <1>2, <5>1, OverlapAssumption DEF LeadMarks
        <5>3. DayStart(leadScript.month) <= leadScript.mark.high - Overlap
          BY <3>4, <4>1, <5>1, <5>2
        <5>4. DayStart(leadScript.month) <= LeftBehind(leadScript.mark.high)
          BY <1>2, <5>2, <5>3, StartOfItsDay, Behind
        <5>5. l.at < LeftBehind(leadScript.mark.high)
          BY <3>4, <4>3, <4>6, <5>2, <5>4, Behind
        <5>6. ClaimHolds(leadScript.mark)
          BY <4>1 DEF LeadsInv, LeadsSound, LeadClaims, ScriptClaims
        <5> QED BY <5>1, <5>5, <5>6 DEF ClaimHolds
      <4> QED BY <3>4, <4>3, <4>5, <4>6
    <3>9. ASSUME leadLapse' = "none", NEW m, m = leadMark' PROVE ClaimHolds(m)'
      <4>1. m.high = h /\ m.since = since
        BY <3>5, <3>9
      <4>2. m.high # None => LeftBehind(m.high)' = LeftBehind(m.high)
        BY DEF LeftBehind, WindowStart
      <4>3. \A l \in leads : l.at >= m.since /\ l.at < LeftBehind(m.high) => l \in leadFinal
        BY <3>8, <3>9, <4>1
      <4> QED BY <1>0, <4>2, <4>3 DEF ClaimHolds
    <3>10. leadLapse' = "none" => \A n \in LeadClaims' : n \in LeadClaims \/ ClaimHolds(n)'
      BY <1>1, <1>8, <2>4, <3>9 DEF LeadClaims
    <3> QED BY <1>5, <1>6, <1>7, <2>3, <3>6, <3>7, <3>10, LeadsKept
  <2> QED BY <1>10, <2>5, <2>6
<1> QED BY <1>9, <1>10

LEMMA LeadsSteps == LeadsInv /\ LeadsNext => LeadsInv'
BY LeadTimePasses, LeadWorkerMoves, LeadWorkerFetches, LeadWorkerStores, LeadWorkerMarks, LeadScriptFetches,
   LeadScriptStores, LeadScriptMarks
   DEF LeadsNext

-----------------------------------------------------------------------------
(* Ringba. A stretch is complete when its calls are stored and those it    *)
(* leaves behind are settled. Every pair of marks, stored, held or about   *)
(* to be written, bounds a complete stretch, and so do the months the      *)
(* script has walked.                                                      *)

MarkRows == [high : (0 .. clock) \union {None}, low : Int, seen : (0 .. clock) \union {None}]

WorkerRecord ==
    [pc : {"idle", "fetch", "upsert", "mark"}, at : 0 .. clock, from : Int, to : 0 .. clock, row : MarkRows,
     got : SUBSET calls, fin : SUBSET calls]

ScriptRecord ==
    [pc : {"off", "fetch", "upsert", "mark", "done"}, at : 0 .. clock, cursor : Int, from : Int, to : Int,
     row : MarkRows, got : SUBSET calls, fin : SUBSET calls, all : SUBSET calls, empty : Int]

Lapses == {"none", "page", "batch", "outage", "hole"}

RingbaShape ==
    /\ calls \subseteq 0 .. clock /\ settled \subseteq stored /\ stored \subseteq calls
    /\ row \in MarkRows /\ worker \in WorkerRecord /\ script \in ScriptRecord /\ lapse \in Lapses
    /\ worker.fin \subseteq worker.got /\ script.fin \subseteq script.got

\* Of the calls from low on, those up to high are stored, and those that the
\* mark high leaves behind are settled.
Complete(low, high) ==
    /\ high \in stored
    /\ \A c \in calls : low <= c => (c <= high => c \in stored) /\ (c < LeftBehind(high) => c \in settled)

NoCallIn(low, seen) == \A c \in calls : ~(low <= c /\ c < seen)

\* What a row says.
RowHolds(r) ==
    /\ r.high # None => r.high \in stored
    /\ r.low # None => IF r.high = None THEN NoCallIn(r.low, r.seen) ELSE Complete(r.low, r.high)

\* The rows the worker w holds or may write.
WorkerRows(w) ==
    {w.row} \union {[high |-> h, low |-> NewLow(w.from, w.row.low), seen |-> Min({w.at, DayEnd(Day(w.to))})] :
                    h \in IF w.pc # "mark" THEN {} ELSE IF w.got = {} THEN {w.row.high} ELSE w.got}

RowClaims == {row, script.row} \union WorkerRows(worker)

\* What p has pulled and not stored yet: everything from low to high that was
\* there before the pull, and final where it was old enough.
Pulled(p, low, high) ==
    /\ clock <= p.at + MaxHold
    /\ \A c \in p.got : c <= p.at /\ low <= c /\ c <= high /\ (c \in p.fin <=> c + Settles <= p.at)
    /\ \A c \in calls : low <= c /\ c <= high /\ c < p.at => c \in p.got

WorkerWindow(w) ==
    /\ w.pc # "idle" =>
         /\ w.from = WindowStart(w.row.high, w.to)
         /\ w.row.high # None => w.row.high <= w.to
         /\ w.row.high = None /\ w.row.low # None => DayStart(Day(w.from)) <= w.row.seen
    /\ w.pc = "upsert" => w.to <= w.at /\ Pulled(w, DayStart(Day(w.from)), DayEnd(Day(w.to)))

ScriptWalk(s) ==
    /\ s.pc \in {"fetch", "upsert", "mark"} =>
         \A h \in s.all : DayStart(s.cursor + 1) <= h /\ Complete(DayStart(s.cursor + 1), h)
    /\ s.pc = "upsert" => Pulled(s, DayStart(s.cursor), DayEnd(s.cursor)) /\ \A h \in s.all : h <= s.at

RingbaSound ==
    lapse = "none" => (\A r \in RowClaims : RowHolds(r)) /\ WorkerWindow(worker) /\ ScriptWalk(script)

RingbaInv == clock \in Times /\ Extremes /\ RingbaShape /\ RingbaSound

LEMMA NoRowHolds ==
    /\ NoRow \in MarkRows /\ NoRow.high = None /\ NoRow.low = None /\ RowHolds(NoRow)
    /\ RowHolds(NoRow)'
BY DEF NoRow, MarkRows, None, RowHolds

LEMMA RingbaStart == RingbaInit => RingbaInv
<1> SUFFICES ASSUME RingbaInit PROVE RingbaInv
  OBVIOUS
<1>1. clock \in Times /\ Extremes
  BY FirstInstant, OverlapAssumption DEF RingbaInit, Times
<1>2. RingbaShape
  BY NoRowHolds DEF RingbaInit, RingbaShape, WorkerRecord, ScriptRecord, Lapses, IdleWorker, IdleScript, None
<1>3. RingbaSound
  BY NoRowHolds DEF RingbaInit, RingbaSound, RowClaims, WorkerRows, WorkerWindow, ScriptWalk, IdleWorker, IdleScript
<1> QED BY <1>1, <1>2, <1>3 DEF RingbaInv

LEMMA RowTypes == RingbaShape /\ clock \in Times => RowClaims \subseteq MarkRows
<1> SUFFICES ASSUME RingbaShape, clock \in Times PROVE RowClaims \subseteq MarkRows
  OBVIOUS
<1>1. clock \in Nat
  BY OverlapAssumption DEF Times
<1>2. worker.row \in MarkRows /\ worker.from \in Int /\ worker.to \in 0 .. clock /\ worker.at \in 0 .. clock /\ worker.got \subseteq calls
  BY DEF RingbaShape, WorkerRecord
<1>3. DayEnd(Day(worker.to)) \in Int /\ worker.to <= DayEnd(Day(worker.to))
  BY <1>2, DayBounds
<1>4. Min({worker.at, DayEnd(Day(worker.to))}) \in 0 .. clock
  <2>1. Min({worker.at, DayEnd(Day(worker.to))}) \in {worker.at, DayEnd(Day(worker.to))}
        /\ Min({worker.at, DayEnd(Day(worker.to))}) <= worker.at
    <3>1. worker.at \in Int
      BY <1>2
    <3> QED BY <1>3, <3>1, OldestOfTwo
  <2> QED BY <1>1, <1>2, <1>3, <2>1
<1>5. NewLow(worker.from, worker.row.low) \in Int
  BY <1>2 DEF NewLow, MarkRows
<1>6. WorkerRows(worker) \subseteq MarkRows
  <2> SUFFICES ASSUME NEW h \in (0 .. clock) \union {None}
               PROVE  [high |-> h, low |-> NewLow(worker.from, worker.row.low),
                       seen |-> Min({worker.at, DayEnd(Day(worker.to))})] \in MarkRows
    <3>1. worker.row.high \in (0 .. clock) \union {None} /\ worker.got \subseteq 0 .. clock
      BY <1>2 DEF MarkRows, RingbaShape
    <3> QED BY <1>2, <3>1 DEF WorkerRows
  <2> QED BY <1>4, <1>5 DEF MarkRows
<1> QED BY <1>6 DEF RowClaims, RingbaShape, ScriptRecord

\* What is complete stays so as calls come in and time passes.
LEMMA CompleteKept ==
    ASSUME RingbaShape, clock \in Times, \A c \in calls' \ calls : c = clock, stored \subseteq stored', settled \subseteq settled'
    PROVE  /\ \A low \in Int, high \in 0 .. clock : Complete(low, high) => Complete(low, high)'
           /\ \A r \in MarkRows : RowHolds(r) => RowHolds(r)'
<1>0. clock \in Nat /\ \A c \in calls : c \in 0 .. clock
  <2>1. clock \in Nat
    BY OverlapAssumption DEF Times
  <2> QED BY <2>1 DEF RingbaShape
<1>1. ASSUME NEW low \in Int, NEW high \in 0 .. clock, Complete(low, high)
      PROVE  Complete(low, high)'
  <2>1. LeftBehind(high)' = LeftBehind(high) /\ LeftBehind(high) \in Int /\ LeftBehind(high) <= high
    BY <1>0, Behind DEF LeftBehind, WindowStart, None
  <2>2. high \in calls
    BY <1>1 DEF Complete, RingbaShape
  <2>3. ASSUME NEW c \in calls', c \notin calls PROVE ~(c <= high) /\ ~(c < LeftBehind(high))
    BY <1>0, <2>1, <2>2, <2>3
  <2> QED BY <1>1, <2>1, <2>3 DEF Complete
<1>2. ASSUME NEW low \in Int, NEW seen \in (0 .. clock) \union {None}, NoCallIn(low, seen)
      PROVE  NoCallIn(low, seen)'
  <2>1. ~(clock < seen)
    BY <1>0 DEF None
  <2> QED BY <1>2, <2>1 DEF NoCallIn
<1>3. ASSUME NEW r \in MarkRows, RowHolds(r) PROVE RowHolds(r)'
  BY <1>1, <1>2, <1>3 DEF RowHolds, MarkRows
<1> QED BY <1>1, <1>3

\* And while a pull is stored, by whoever made it.
LEMMA CompleteUpserted ==
    ASSUME RingbaShape, clock \in Times, NEW p, NEW lo, NEW hi, Pulled(p, lo, hi), p.at \in Int, p.got \subseteq calls,
           p.fin \subseteq p.got, UNCHANGED <<clock, calls>>, Upsert(p.got, p.fin, {})
    PROVE  /\ \A low \in Int, high \in 0 .. clock : Complete(low, high) => Complete(low, high)'
           /\ \A r \in MarkRows : RowHolds(r) => RowHolds(r)'
<1>0. clock \in Nat /\ \A c \in calls : c \in 0 .. clock
  <2>1. clock \in Nat
    BY OverlapAssumption DEF Times
  <2> QED BY <2>1 DEF RingbaShape
<1>1. stored' = stored \union p.got /\ settled' = (settled \ p.got) \union p.fin
  BY DEF Upsert
<1>2. ASSUME NEW low \in Int, NEW high \in 0 .. clock, Complete(low, high)
      PROVE  Complete(low, high)'
  <2>1. LeftBehind(high)' = LeftBehind(high) /\ LeftBehind(high) \in Int /\ LeftBehind(high) <= high - Overlap
    BY <1>0, Behind DEF LeftBehind, WindowStart, None
  <2>2. ASSUME NEW c \in p.got, c \notin p.fin PROVE ~(c < LeftBehind(high))
    <3>1. c \in Int /\ c + Settles > p.at /\ clock <= p.at + MaxHold
      BY <1>0, <2>2, OverlapAssumption DEF Pulled
    <3> QED BY <1>0, <2>1, <3>1, OverlapAssumption
  <2>3. \A c \in calls : c < LeftBehind(high) /\ c \in settled => c \in settled'
    BY <1>1, <2>2
  <2> QED BY <1>1, <1>2, <2>1, <2>3 DEF Complete
<1>3. \A low, seen : NoCallIn(low, seen) => NoCallIn(low, seen)'
  BY DEF NoCallIn
<1>4. ASSUME NEW r \in MarkRows, RowHolds(r) PROVE RowHolds(r)'
  BY <1>1, <1>2, <1>3, <1>4 DEF RowHolds, MarkRows
<1> QED BY <1>2, <1>4

LEMMA SameRows ==
    ASSUME UNCHANGED <<clock, calls, stored, settled>>
    PROVE  /\ \A low, high : Complete(low, high)' <=> Complete(low, high)
           /\ \A r : RowHolds(r)' <=> RowHolds(r)
<1>1. \A low, high : Complete(low, high)' <=> Complete(low, high)
  BY DEF Complete, LeftBehind, WindowStart
<1>2. \A low, seen : NoCallIn(low, seen)' <=> NoCallIn(low, seen)
  BY DEF NoCallIn
<1> QED BY <1>1, <1>2 DEF RowHolds

LEMMA RingbaKept ==
    ASSUME RingbaInv, clock' \in Times, Extremes', RingbaShape',
           lapse' = "none" =>
             /\ lapse = "none"
             /\ \A r \in MarkRows : RowHolds(r) => RowHolds(r)'
             /\ \A r \in RowClaims' : r \in RowClaims \/ RowHolds(r)'
             /\ WorkerWindow(worker)' /\ ScriptWalk(script)'
    PROVE  RingbaInv'
BY RowTypes DEF RingbaInv, RingbaSound

LEMMA WindowKept ==
    ASSUME UNCHANGED <<clock, calls, worker>>, WorkerWindow(worker) PROVE WorkerWindow(worker)'
BY DEF WorkerWindow, Pulled, WindowStart

LEMMA WalkKept ==
    ASSUME RingbaInv, UNCHANGED <<clock, calls, script>>, ScriptWalk(script),
           \A low \in Int, high \in 0 .. clock : Complete(low, high) => Complete(low, high)'
    PROVE  ScriptWalk(script)'
<1>1. script.all \subseteq 0 .. clock /\ DayStart(script.cursor + 1) \in Int
  <2>1. script.all \subseteq calls /\ calls \subseteq 0 .. clock /\ script.cursor \in Int
    BY DEF RingbaInv, RingbaShape, ScriptRecord
  <2>2. script.cursor + 1 \in Int
    BY <2>1
  <2> QED BY <2>1, <2>2, DayStarts
<1>2. \A low, high : low = DayStart(script.cursor + 1) /\ high \in script.all /\ Complete(low, high) => Complete(low, high)'
  BY <1>1
<1> QED BY <1>2 DEF ScriptWalk, Pulled

LEMMA RingbaTimePasses ==
    ASSUME RingbaInv, RingbaClockTicks \/ CallComesIn
    PROVE  RingbaInv'
<1>1. clock \in Nat /\ clock' \in Times /\ (clock' = clock \/ clock' = clock + 1)
  BY OverlapAssumption DEF RingbaInv, Times, RingbaClockTicks, CallComesIn
<1>2. Extremes'
  <2>1. CASE clock' = clock
    BY <2>1 DEF RingbaInv, Extremes
  <2>2. CASE clock' = clock + 1
    BY <1>1, <2>2, NextInstant DEF RingbaInv
  <2> QED BY <1>1, <2>1, <2>2
<1>3. /\ UNCHANGED <<stored, settled, row, worker, script, lapse>>
      /\ calls \subseteq calls' /\ \A c \in calls' \ calls : c = clock
  BY <1>1 DEF RingbaClockTicks, CallComesIn
<1>4. 0 .. clock \subseteq 0 .. clock' /\ clock \in 0 .. clock'
  BY <1>1
<1>5. MarkRows \subseteq MarkRows'
  BY <1>4 DEF MarkRows
<1>6. RingbaShape'
  <2>1. calls' \subseteq 0 .. clock'
    BY <1>3, <1>4 DEF RingbaInv, RingbaShape
  <2>2. worker \in WorkerRecord'
    BY <1>3, <1>4, <1>5 DEF RingbaInv, RingbaShape, WorkerRecord
  <2>3. script \in ScriptRecord'
    BY <1>3, <1>4, <1>5 DEF RingbaInv, RingbaShape, ScriptRecord
  <2>4. row \in MarkRows'
    BY <1>5 DEF RingbaInv, RingbaShape
  <2> QED BY <1>3, <2>1, <2>2, <2>3, <2>4 DEF RingbaInv, RingbaShape
<1>7. /\ \A low \in Int, high \in 0 .. clock : Complete(low, high) => Complete(low, high)'
      /\ \A r \in MarkRows : RowHolds(r) => RowHolds(r)'
  BY <1>3, CompleteKept DEF RingbaInv
<1>8. RowClaims' = RowClaims
  BY <1>3 DEF RowClaims
<1>9. ASSUME lapse = "none" PROVE WorkerWindow(worker)'
  <2>0. WorkerWindow(worker) /\ worker.at \in 0 .. clock
    BY <1>9 DEF RingbaInv, RingbaSound, RingbaShape, WorkerRecord
  <2>1. worker.pc = "upsert" => clock' <= worker.at + MaxHold
    BY <1>1, <2>0, OverlapAssumption DEF RingbaClockTicks, CallComesIn, WorkerWindow, Pulled
  <2>2. ASSUME NEW c \in calls', c < worker.at PROVE c \in calls
    BY <1>1, <1>3, <2>0, <2>2
  <2> QED BY <1>3, <2>0, <2>1, <2>2 DEF WorkerWindow, Pulled, WindowStart
<1>10. ASSUME lapse = "none" PROVE ScriptWalk(script)'
  <2>0. ScriptWalk(script) /\ script.at \in 0 .. clock /\ script.all \subseteq 0 .. clock /\ script.cursor + 1 \in Int
    <3>1. /\ ScriptWalk(script) /\ script.at \in 0 .. clock /\ script.all \subseteq calls
          /\ calls \subseteq 0 .. clock /\ script.cursor \in Int
      BY <1>10 DEF RingbaInv, RingbaSound, RingbaShape, ScriptRecord
    <3>2. script.cursor + 1 \in Int
      BY <3>1
    <3> QED BY <3>1, <3>2
  <2>1. script.pc = "upsert" => clock' <= script.at + MaxHold
    BY <1>1, <2>0, OverlapAssumption DEF RingbaClockTicks, CallComesIn, ScriptWalk, Pulled
  <2>2. ASSUME NEW c \in calls', c < script.at PROVE c \in calls
    BY <1>1, <1>3, <2>0, <2>2
  <2>3. \A low, high : low = DayStart(script.cursor + 1) /\ high \in script.all /\ Complete(low, high) => Complete(low, high)'
    BY <1>7, <2>0, DayStarts
  <2> QED BY <1>3, <2>0, <2>1, <2>2, <2>3 DEF ScriptWalk, Pulled
<1> QED BY <1>1, <1>2, <1>3, <1>6, <1>7, <1>8, <1>9, <1>10, RingbaKept

LEMMA RingbaSameTime == UNCHANGED clock /\ RingbaInv => clock' \in Times /\ Extremes'
BY DEF RingbaInv, Extremes

\* The worker reads the row, gives up, writes what it may write, or dies.
LEMMA RingbaWorkerMoves ==
    ASSUME RingbaInv, RunOnce \/ SetSyncState \/ SyncThrows \/ DaemonDies
    PROVE  RingbaInv'
<1>0. /\ UNCHANGED <<clock, calls, stored, settled, script>>
      /\ clock \in Nat /\ clock \in 0 .. clock /\ 0 \in 0 .. clock
  <2>1. clock \in Nat
    BY OverlapAssumption DEF RingbaInv, Times
  <2> QED BY <2>1 DEF RunOnce, SetSyncState, SyncThrows, DaemonDies
<1>1. /\ NoRow \in MarkRows /\ row \in MarkRows /\ RowHolds(NoRow)' /\ RowClaims \subseteq MarkRows
      /\ NoRow.high = None /\ NoRow.low = None
  BY NoRowHolds, RowTypes DEF RingbaInv, RingbaShape
<1>2. IdleWorker \in WorkerRecord /\ IdleWorker.fin = {} /\ IdleWorker.got = {} /\ IdleWorker.pc = "idle" /\ IdleWorker.row = NoRow
  BY <1>0, <1>1 DEF IdleWorker, WorkerRecord
<1>3. MarkRows' = MarkRows /\ WorkerRecord' = WorkerRecord /\ ScriptRecord' = ScriptRecord
  BY <1>0 DEF MarkRows, WorkerRecord, ScriptRecord
<1>4. ASSUME worker' \in WorkerRecord, worker'.fin = {}, row' \in MarkRows, lapse' \in Lapses
      PROVE  RingbaShape'
  BY <1>0, <1>3, <1>4 DEF RingbaInv, RingbaShape
<1>5. ASSUME lapse = "none" PROVE ScriptWalk(script)' /\ WorkerWindow(worker)
  BY <1>0, <1>5, SameRows, WalkKept DEF RingbaInv, RingbaSound
<1>6. \A r \in MarkRows : RowHolds(r) => RowHolds(r)'
  BY <1>0, SameRows
<1>7. clock' \in Times /\ Extremes'
  BY <1>0, RingbaSameTime
<1>8. CASE RunOnce
  <2>1. PICK r \in {row, NoRow} :
          LET from == WindowStart(r.high, clock) IN
          /\ worker' = [IdleWorker EXCEPT !.pc = "fetch", !.row = r, !.from = from, !.to = clock]
          /\ lapse' = IF r.high = None /\ r.low # None /\ DayStart(Day(from)) > r.seen
                      THEN Lapse("outage") ELSE lapse
    BY <1>8 DEF RunOnce
  <2>2. /\ r \in MarkRows /\ r.high \in (0 .. clock) \union {None} /\ r.high \in Int /\ r.seen \in Int
    BY <1>0, <1>1, <2>1 DEF MarkRows, None
  <2>3. WindowStart(r.high, clock) \in Int
    BY <1>0, <2>2, OverlapAssumption DEF WindowStart
  <2>4. /\ worker' \in WorkerRecord /\ worker'.pc = "fetch" /\ worker'.row = r /\ worker'.got = {}
        /\ worker'.fin = {} /\ worker'.to = clock /\ worker'.from = WindowStart(r.high, clock)
    BY <1>0, <2>1, <2>2, <2>3 DEF IdleWorker, WorkerRecord
  <2>5. UNCHANGED row /\ lapse' \in Lapses /\ (lapse' = "none" => lapse = "none")
    BY <1>8, <2>1 DEF RunOnce, Lapse, Lapses, RingbaInv, RingbaShape
  <2>6. ASSUME lapse' = "none" PROVE WorkerWindow(worker)'
    <3>1. ~(r.high = None /\ r.low # None /\ DayStart(Day(WindowStart(r.high, clock))) > r.seen)
      BY <2>1, <2>6 DEF Lapse
    <3>2. r.high # None => r.high <= clock
      BY <2>2
    <3>3. DayStart(Day(WindowStart(r.high, clock))) \in Int
      BY <2>3, DayBounds
    <3>4. r.high = None /\ r.low # None => DayStart(Day(WindowStart(r.high, clock))) <= r.seen
      BY <2>2, <3>1, <3>3
    <3> QED BY <2>4, <3>2, <3>4 DEF WorkerWindow, WindowStart
  <2>7. RowClaims' \subseteq RowClaims \union {NoRow}
    BY <1>0, <2>1, <2>4, <2>5 DEF RowClaims, WorkerRows
  <2> QED BY <1>1, <1>4, <1>5, <1>6, <1>7, <2>4, <2>5, <2>6, <2>7, RingbaKept
<1>9. CASE SetSyncState \/ SyncThrows \/ DaemonDies
  <2>1. worker' = IdleWorker /\ UNCHANGED lapse
    BY <1>9 DEF SetSyncState, SyncThrows, DaemonDies
  <2>2. row' \in {row} \union WorkerRows(worker)
    <3>1. CASE SetSyncState
      <4>1. worker.pc = "mark"
        BY <3>1 DEF SetSyncState
      <4>2. CASE row' = row
        BY <4>2
      <4>3. CASE row' = [high |-> NewHigh(worker.got, worker.row.high), low |-> NewLow(worker.from, worker.row.low),
                         seen |-> Min({worker.at, DayEnd(Day(worker.to))})]
        <5>1. CASE worker.got = {}
          BY <4>1, <4>3, <5>1 DEF WorkerRows, NewHigh
        <5>2. CASE worker.got # {}
          <6>1. worker.got \in SUBSET (0 .. clock)
            BY DEF RingbaInv, RingbaShape, WorkerRecord
          <6>2. Max(worker.got) \in worker.got
            BY <5>2, <6>1, NewestAndOldest DEF RingbaInv
          <6> QED BY <4>1, <4>3, <5>2, <6>2 DEF WorkerRows, NewHigh
        <5> QED BY <5>1, <5>2
      <4> QED BY <3>1, <4>2, <4>3 DEF SetSyncState
    <3>2. CASE SyncThrows \/ DaemonDies
      BY <3>2 DEF SyncThrows, DaemonDies, RestoredRow, WorkerRows
    <3> QED BY <1>9, <3>1, <3>2
  <2>3. row' \in RowClaims
    BY <2>2 DEF RowClaims
  <2>4. WorkerRows(worker') = {NoRow}
    BY <1>2, <2>1 DEF WorkerRows
  <2>5. RowClaims' \subseteq RowClaims \union {NoRow}
    BY <1>0, <2>3, <2>4 DEF RowClaims
  <2>6. WorkerWindow(worker)'
    BY <1>2, <2>1 DEF WorkerWindow
  <2> QED BY <1>1, <1>2, <1>4, <1>5, <1>6, <1>7, <2>1, <2>3, <2>5, <2>6, RingbaKept DEF RingbaInv, RingbaShape
<1> QED BY <1>8, <1>9

LEMMA Instants == RingbaInv => \A c \in calls : c \in 0 .. clock /\ c \in Nat /\ c <= clock
<1> SUFFICES ASSUME RingbaInv, NEW c \in calls PROVE c \in 0 .. clock /\ c \in Nat /\ c <= clock
  OBVIOUS
<1>1. c \in 0 .. clock /\ clock \in Nat
  BY OverlapAssumption DEF RingbaInv, RingbaShape, Times
<1> QED BY <1>1

LEMMA PullIsFair ==
    ASSUME NEW from \in Int, NEW to \in Int, NEW q \in Pulls(from, to)
    PROVE  /\ q.all = calls \intersect (DayStart(Day(from)) .. DayEnd(Day(to))) /\ q.got \subseteq q.all
BY DEF Pulls, Span

LEMMA RingbaWorkerFetches ==
    ASSUME RingbaInv, FetchCallLogs
    PROVE  RingbaInv'
<1>1. PICK q \in Pulls(worker.from, worker.to) :
        /\ worker' = [worker EXCEPT !.pc = "upsert", !.at = clock, !.got = q.got, !.fin = {c \in q.got : Settled(c)}]
        /\ lapse' = IF q.got = q.all THEN lapse ELSE Lapse("page")
  BY DEF FetchCallLogs
<1>2. UNCHANGED <<clock, calls, stored, settled, row, script>> /\ worker.pc = "fetch"
  BY DEF FetchCallLogs
<1>3. /\ worker \in WorkerRecord /\ worker.from \in Int /\ worker.to \in 0 .. clock /\ worker.to \in Int
      /\ clock \in Nat /\ clock \in 0 .. clock /\ calls \subseteq 0 .. clock
  <2>1. clock \in Nat
    BY OverlapAssumption DEF RingbaInv, Times
  <2> QED BY <2>1 DEF RingbaInv, RingbaShape, WorkerRecord
<1> DEFINE lo == DayStart(Day(worker.from))
           hi == DayEnd(Day(worker.to))
<1>4. lo \in Int /\ hi \in Int /\ q.all = calls \intersect (lo .. hi) /\ q.got \subseteq q.all /\ q.got \subseteq calls
  <2>1. lo \in Int /\ hi \in Int
    BY <1>3, DayBounds
  <2> QED BY <1>3, <2>1, PullIsFair
<1>5. /\ worker' \in WorkerRecord /\ worker'.pc = "upsert" /\ worker'.at = clock /\ worker'.got = q.got
      /\ worker'.fin = {c \in q.got : Settled(c)} /\ worker'.from = worker.from /\ worker'.to = worker.to
      /\ worker'.row = worker.row
  BY <1>1, <1>3, <1>4 DEF WorkerRecord
<1>6. lapse' \in Lapses /\ (lapse' = "none" => lapse = "none" /\ q.got = q.all)
  BY <1>1 DEF Lapse, Lapses, RingbaInv, RingbaShape
<1>7. RingbaShape'
  <2>1. MarkRows' = MarkRows /\ WorkerRecord' = WorkerRecord /\ ScriptRecord' = ScriptRecord
    BY <1>2 DEF MarkRows, WorkerRecord, ScriptRecord
  <2> QED BY <1>2, <1>5, <1>6, <2>1 DEF RingbaInv, RingbaShape
<1>8. RowClaims' = RowClaims
  <2>1. WorkerRows(worker') = WorkerRows(worker)
    BY <1>2, <1>5 DEF WorkerRows
  <2> QED BY <1>2, <2>1 DEF RowClaims
<1>9. ASSUME lapse' = "none" PROVE WorkerWindow(worker)' /\ ScriptWalk(script)'
  <2>1. WorkerWindow(worker) /\ ScriptWalk(script) /\ lapse = "none"
    BY <1>6, <1>9 DEF RingbaInv, RingbaSound
  <2>2. ScriptWalk(script)'
    BY <1>2, <2>1, SameRows, WalkKept
  <2>3. \A c \in q.got : c <= clock /\ lo <= c /\ c <= hi /\ (c \in worker'.fin <=> c + Settles <= clock)
    BY <1>3, <1>4, <1>5 DEF Settled
  <2>4. \A c \in calls : lo <= c /\ c <= hi /\ c < clock => c \in q.got
    <3>1. q.got = calls \intersect (lo .. hi)
      BY <1>4, <1>6, <1>9
    <3>2. \A c \in calls : c \in Int
      BY <1>3
    <3>3. \A c \in Int : lo <= c /\ c <= hi => c \in lo .. hi
      BY <1>4
    <3> HIDE DEF lo, hi
    <3> QED BY <3>1, <3>2, <3>3
  <2>5. clock <= clock + MaxHold /\ worker.to <= clock
    BY <1>3, OverlapAssumption
  <2>6. Pulled(worker, lo, hi)'
    BY <1>2, <1>5, <2>3, <2>4, <2>5 DEF Pulled
  <2> QED BY <1>2, <1>5, <2>1, <2>2, <2>5, <2>6 DEF WorkerWindow, WindowStart
<1> QED BY <1>2, <1>6, <1>7, <1>8, <1>9, RingbaSameTime, SameRows, RingbaKept

\* Storing a pull without a loss makes the rows it may be marked with hold.
LEMMA RingbaWorkerStores ==
    ASSUME RingbaInv, UpsertCalls
    PROVE  RingbaInv'
<1>1. PICK lost \in SUBSET worker.got : Upsert(worker.got, worker.fin, lost)
  BY DEF UpsertCalls
<1>2. /\ UNCHANGED <<clock, calls, row, script>> /\ worker.pc = "upsert" /\ worker' = [worker EXCEPT !.pc = "mark"]
  BY DEF UpsertCalls
<1>3. /\ worker \in WorkerRecord /\ worker.from \in Int /\ worker.to \in 0 .. clock /\ worker.at \in 0 .. clock
      /\ worker.to \in Int /\ worker.at \in Int /\ worker.row \in MarkRows /\ clock \in Nat /\ calls \subseteq 0 .. clock
      /\ worker.got \subseteq calls /\ worker.fin \subseteq worker.got
  <2>1. clock \in Nat
    BY OverlapAssumption DEF RingbaInv, Times
  <2> QED BY <2>1 DEF RingbaInv, RingbaShape, WorkerRecord
<1>4. /\ worker' \in WorkerRecord /\ worker'.pc = "mark" /\ worker'.at = worker.at /\ worker'.got = worker.got
      /\ worker'.fin = worker.fin /\ worker'.from = worker.from /\ worker'.to = worker.to /\ worker'.row = worker.row
  BY <1>2, <1>3 DEF WorkerRecord
<1>5. lapse' \in Lapses /\ (lapse' = "none" => lapse = "none" /\ lost = {})
  BY <1>1 DEF Lapse, Lapses, RingbaInv, RingbaShape, Upsert
<1>6. RingbaShape'
  <2>1. MarkRows' = MarkRows /\ WorkerRecord' = WorkerRecord /\ ScriptRecord' = ScriptRecord
    BY <1>2 DEF MarkRows, WorkerRecord, ScriptRecord
  <2>2. settled' \subseteq stored' /\ stored' \subseteq calls
    BY <1>1, <1>3 DEF Upsert, RingbaInv, RingbaShape
  <2> QED BY <1>2, <1>3, <1>4, <1>5, <2>1, <2>2 DEF RingbaInv, RingbaShape
<1>7. ASSUME lapse' = "none"
      PROVE  /\ \A r \in MarkRows : RowHolds(r) => RowHolds(r)'
             /\ \A r \in RowClaims' : r \in RowClaims \/ RowHolds(r)'
             /\ WorkerWindow(worker)' /\ ScriptWalk(script)'
  <2> DEFINE lo == DayStart(Day(worker.from))
             hi == DayEnd(Day(worker.to))
             wr == worker.row
  <2>0. PICK low, seen : low = NewLow(worker.from, wr.low) /\ seen = Min({worker.at, hi})
    OBVIOUS
  <2>1. lapse = "none" /\ WorkerWindow(worker) /\ ScriptWalk(script) /\ RowHolds(wr) /\ Upsert(worker.got, worker.fin, {})
    BY <1>1, <1>5, <1>7 DEF RingbaInv, RingbaSound, RowClaims, WorkerRows
  <2>2. /\ Pulled(worker, lo, hi) /\ worker.to <= worker.at /\ worker.from = WindowStart(wr.high, worker.to)
        /\ wr.high # None => wr.high <= worker.to
        /\ wr.high = None /\ wr.low # None => lo <= wr.seen
    BY <1>2, <2>1 DEF WorkerWindow
  <2>3. /\ \A l \in Int, h \in 0 .. clock : Complete(l, h) => Complete(l, h)'
        /\ \A r \in MarkRows : RowHolds(r) => RowHolds(r)'
    BY <1>2, <1>3, <2>1, <2>2, CompleteUpserted DEF RingbaInv
  <2>4. WorkerWindow(worker)' /\ ScriptWalk(script)'
    <3>1. ScriptWalk(script)'
      BY <1>2, <2>1, <2>3, WalkKept
    <3>2. WorkerWindow(worker)'
      BY <1>2, <1>4, <2>2 DEF WorkerWindow, WindowStart
    <3> QED BY <3>1, <3>2
  <2>5. /\ lo \in Int /\ hi \in Int /\ lo <= worker.from /\ worker.to <= hi /\ low \in Int /\ wr.low \in Int
        /\ wr.high \in (0 .. clock) \union {None} /\ wr.seen \in Int
    <3>1. wr.low \in Int /\ wr.high \in (0 .. clock) \union {None} /\ wr.seen \in Int
      BY <1>3 DEF MarkRows, None
    <3>2. low \in Int
      BY <1>3, <2>0, <3>1 DEF NewLow
    <3> QED BY <1>3, <3>1, <3>2, DayBounds
  <2>6. seen <= worker.at /\ seen <= hi /\ seen \in Int
    BY <1>3, <2>0, <2>5, OldestOfTwo
  <2>7. stored' = stored \union worker.got /\ settled' = (settled \ worker.got) \union worker.fin
    BY <2>1 DEF Upsert
  <2>8. low = worker.from \/ (low = wr.low /\ wr.low # None /\ wr.low <= worker.from)
    BY <1>3, <2>0, <2>5 DEF NewLow
  <2>9. /\ \A c \in worker.got : c <= worker.at /\ lo <= c /\ c <= hi /\ (c \in worker.fin <=> c + Settles <= worker.at)
        /\ \A c \in calls : lo <= c /\ c <= hi /\ c < worker.at => c \in worker.got
        /\ clock <= worker.at + MaxHold
    BY <2>2 DEF Pulled
  <2>10. \A c \in calls : c \in Int
    BY <1>3
  <2> HIDE DEF lo, hi, wr
  <2>11. ASSUME NEW h \in IF worker.got = {} THEN {wr.high} ELSE worker.got, h # None, low # None
         PROVE  Complete(low, h)'
    <3>1. h \in 0 .. clock /\ h \in Nat
      <4>1. CASE worker.got = {}
        BY <2>5, <2>11, <4>1
      <4>2. CASE worker.got # {}
        <5>1. h \in worker.got
          BY <2>11, <4>2
        <5> QED BY <1>3, <5>1, Instants
      <4> QED BY <4>1, <4>2
    <3>2. /\ LeftBehind(h)' = LeftBehind(h) /\ LeftBehind(h) \in Int /\ LeftBehind(h) <= h - Overlap
          /\ LeftBehind(h) <= h /\ LeftBehind(h) = DayStart(Day(h - Overlap))
      BY <2>11, <3>1, Behind DEF LeftBehind, WindowStart
    <3>3. CASE worker.got = {}
      <4>1. h = wr.high /\ h \in stored /\ h <= worker.to
        BY <2>1, <2>2, <2>11, <3>3 DEF RowHolds
      <4>2. CASE low = wr.low /\ wr.low # None
        <5>1. Complete(low, h)
          BY <2>1, <2>11, <4>1, <4>2 DEF RowHolds
        <5> QED BY <2>3, <2>5, <3>1, <5>1
      <4>3. CASE low = worker.from
        <5>1. worker.from = h - Overlap /\ lo = LeftBehind(h)
          BY <2>2, <2>11, <3>2, <4>1 DEF WindowStart, lo
        <5>2. ASSUME NEW c \in calls, low <= c PROVE (c <= h => c \in stored) /\ ~(c < LeftBehind(h))
          <6>1. ~(c < LeftBehind(h)) /\ lo <= c
            BY <1>3, <2>5, <2>10, <3>2, <4>3, <5>1, <5>2
          <6>2. ASSUME c < h PROVE FALSE
            <7>1. c < worker.at /\ c <= hi
              BY <1>3, <2>2, <2>5, <2>10, <3>1, <4>1, <6>2
            <7> QED BY <2>9, <3>3, <6>1, <7>1
          <6> QED BY <2>10, <3>1, <4>1, <6>1, <6>2
        <5> QED BY <1>2, <2>7, <3>2, <4>1, <5>2 DEF Complete
      <4> QED BY <2>8, <4>2, <4>3
    <3>4. CASE worker.got # {}
      <4>1. h \in worker.got /\ h <= worker.at /\ lo <= h /\ h <= hi
        BY <2>9, <2>11, <3>4
      <4>2. ASSUME NEW c \in calls, low <= c, c >= lo
            PROVE  (c <= h => c \in stored') /\ (c < LeftBehind(h) => c \in settled')
        <5>1. ASSUME c < h PROVE c \in worker.got
          <6>1. c <= hi /\ c < worker.at
            BY <1>3, <2>5, <2>10, <3>1, <4>1, <5>1
          <6> QED BY <2>9, <2>10, <4>2, <6>1
        <5>2. ASSUME c < LeftBehind(h) PROVE c < h /\ c + Settles <= worker.at
          BY <1>3, <2>10, <3>1, <3>2, <4>1, <5>2, OverlapAssumption
        <5>3. c < LeftBehind(h) => c \in worker.fin
          BY <2>9, <5>1, <5>2
        <5>4. c <= h => c \in worker.got
          BY <2>10, <3>1, <4>1, <5>1
        <5> QED BY <2>7, <5>3, <5>4
      <4>3. ASSUME NEW c \in calls, low <= c, c < lo
            PROVE  (c <= h => c \in stored') /\ (c < LeftBehind(h) => c \in settled')
        <5>1. low = wr.low /\ wr.low # None
          BY <1>3, <2>5, <2>8, <2>10, <4>3
        <5>2. CASE wr.high = None
          <6>1. NoCallIn(wr.low, wr.seen) /\ lo <= wr.seen
            BY <2>1, <2>2, <5>1, <5>2 DEF RowHolds
          <6>2. c < wr.seen
            BY <2>5, <2>10, <4>3, <6>1
          <6> QED BY <4>3, <5>1, <6>1, <6>2 DEF NoCallIn
        <5>3. CASE wr.high # None
          <6>1. Complete(wr.low, wr.high) /\ wr.high \in 0 .. clock /\ wr.high \in Nat
            BY <1>3, <2>1, <2>5, <5>1, <5>3 DEF RowHolds
          <6>2. LeftBehind(wr.high) = lo /\ lo <= wr.high
            <7>1. worker.from = wr.high - Overlap
              BY <2>2, <5>3 DEF WindowStart
            <7> QED BY <6>1, <7>1, Behind DEF lo
          <6>3. c \in stored /\ c \in settled
            BY <2>5, <2>10, <4>3, <5>1, <6>1, <6>2 DEF Complete
          <6>4. c \notin worker.got
            BY <2>5, <2>9, <2>10, <4>3
          <6> QED BY <2>7, <6>3, <6>4
        <5> QED BY <5>2, <5>3
      <4>4. h \in stored'
        BY <2>7, <4>1
      <4>5. \A c \in calls : low <= c => (c <= h => c \in stored') /\ (c < LeftBehind(h) => c \in settled')
        BY <2>5, <2>10, <4>2, <4>3
      <4> QED BY <1>2, <3>2, <4>4, <4>5 DEF Complete
    <3> QED BY <3>3, <3>4
  <2>12. ASSUME worker.got = {}, wr.high = None, low # None
         PROVE  NoCallIn(low, seen)'
    <3>1. ASSUME NEW c \in calls, low <= c, c < seen PROVE FALSE
      <4>1. c < worker.at /\ c <= hi
        BY <1>3, <2>5, <2>6, <2>10, <3>1
      <4>2. CASE c >= lo
        BY <2>5, <2>9, <2>10, <2>12, <4>1, <4>2
      <4>3. CASE c < lo
        <5>1. low = wr.low /\ wr.low # None
          BY <1>3, <2>5, <2>8, <2>10, <3>1, <4>3
        <5>2. NoCallIn(wr.low, wr.seen) /\ lo <= wr.seen
          BY <2>1, <2>2, <2>12, <5>1 DEF RowHolds
        <5>3. c < wr.seen
          BY <2>5, <2>10, <4>3, <5>2
        <5> QED BY <3>1, <5>1, <5>2, <5>3 DEF NoCallIn
      <4> QED BY <2>5, <2>10, <4>2, <4>3
    <3> QED BY <1>2, <3>1 DEF NoCallIn
  <2>13. ASSUME NEW r \in RowClaims' PROVE r \in RowClaims \/ RowHolds(r)'
    <3>1. RowClaims' = {row, script.row} \union {wr} \union
            {[high |-> h, low |-> low, seen |-> seen] : h \in IF worker.got = {} THEN {wr.high} ELSE worker.got}
      BY <1>2, <1>4, <2>0 DEF RowClaims, WorkerRows, wr, hi
    <3>2. CASE r \in {row, script.row} \union {wr}
      BY <3>2 DEF RowClaims, WorkerRows, wr
    <3>3. ASSUME NEW h \in IF worker.got = {} THEN {wr.high} ELSE worker.got,
                 r = [high |-> h, low |-> low, seen |-> seen]
          PROVE  RowHolds(r)'
      <4>1. r.high = h /\ r.low = low /\ r.seen = seen
        BY <3>3
      <4>2. r.high # None => r.high \in stored'
        <5>1. CASE worker.got = {}
          BY <2>1, <2>7, <3>3, <4>1, <5>1 DEF RowHolds
        <5>2. CASE worker.got # {}
          BY <2>7, <3>3, <4>1, <5>2
        <5> QED BY <5>1, <5>2
      <4>3. ASSUME r.low # None, r.high # None PROVE Complete(r.low, r.high)'
        BY <2>11, <3>3, <4>1, <4>3
      <4>4. ASSUME r.low # None, r.high = None PROVE NoCallIn(r.low, r.seen)'
        <5>1. worker.got = {} /\ wr.high = None
          BY <1>3, <3>3, <4>1, <4>4 DEF None
        <5> QED BY <2>12, <4>1, <4>4, <5>1
      <4> QED BY <4>2, <4>3, <4>4 DEF RowHolds
    <3> QED BY <3>1, <3>2, <3>3
  <2> QED BY <2>3, <2>4, <2>13
<1> QED BY <1>2, <1>5, <1>6, <1>7, RingbaSameTime, RingbaKept

LEMMA IdleScripts ==
    ASSUME clock \in Nat
    PROVE  /\ IdleScript \in ScriptRecord /\ IdleScript.fin = {} /\ IdleScript.got = {} /\ IdleScript.all = {}
           /\ IdleScript.row = NoRow
BY NoRowHolds DEF IdleScript, ScriptRecord

LEMMA ScriptKept ==
    ASSUME RingbaInv, UNCHANGED <<clock, calls, row, worker>>, script' \in ScriptRecord, script'.fin \subseteq script'.got,
           settled' \subseteq stored', stored' \subseteq calls, lapse' \in Lapses,
           lapse' = "none" =>
             /\ lapse = "none"
             /\ \A r \in MarkRows : RowHolds(r) => RowHolds(r)'
             /\ ScriptWalk(script)',
           script'.row \in {row, script.row, NoRow}
    PROVE  RingbaInv'
<1>1. MarkRows' = MarkRows /\ WorkerRecord' = WorkerRecord /\ ScriptRecord' = ScriptRecord
  BY DEF MarkRows, WorkerRecord, ScriptRecord
<1>2. RingbaShape'
  BY <1>1 DEF RingbaInv, RingbaShape
<1>3. lapse = "none" => WorkerWindow(worker)'
  BY WindowKept DEF RingbaInv, RingbaSound
<1>4. RowClaims' \subseteq RowClaims \union {NoRow}
  BY DEF RowClaims
<1> QED BY <1>2, <1>3, <1>4, NoRowHolds, RingbaSameTime, RingbaKept

\* The script begins, reads the row or dies.
LEMMA RingbaScriptMoves ==
    ASSUME RingbaInv, BackfillStarts \/ BackfillReads \/ BackfillDies
    PROVE  RingbaInv'
<1>0. /\ UNCHANGED <<clock, calls, stored, settled, row, worker, lapse>>
      /\ clock \in Nat /\ 0 \in 0 .. clock
  <2>1. clock \in Nat
    BY OverlapAssumption DEF RingbaInv, Times
  <2>2. UNCHANGED <<clock, calls, stored, settled, row, worker, lapse>>
    BY DEF BackfillStarts, BackfillReads, BackfillDies
  <2> QED BY <2>1, <2>2
<1>1. \A r \in MarkRows : RowHolds(r) => RowHolds(r)'
  BY <1>0, SameRows
<1>2. settled \subseteq stored /\ stored \subseteq calls /\ lapse \in Lapses /\ script \in ScriptRecord /\ row \in MarkRows
      /\ script.fin \subseteq script.got
  BY DEF RingbaInv, RingbaShape
<1>3. /\ script' \in ScriptRecord /\ script'.fin \subseteq script'.got /\ script'.row \in {row, script.row, NoRow}
      /\ script'.pc # "upsert"
      /\ \/ script'.pc \notin {"fetch", "mark"} \/ script'.all = {}
         \/ script'.all = script.all /\ script'.cursor = script.cursor /\ script.pc = "fetch"
  <2>1. CASE BackfillStarts
    <3>1. PICK g \in Ranges : script' = [IdleScript EXCEPT !.pc = "fetch", !.cursor = g.to, !.from = g.from, !.to = g.to]
      BY <2>1 DEF BackfillStarts
    <3>2. g.to \in Int /\ g.from \in Int
      BY RangesAssumption
    <3>3. script' \in ScriptRecord /\ script'.pc = "fetch" /\ script'.row = NoRow /\ script'.fin = {} /\ script'.all = {}
      BY <1>0, <3>1, <3>2, IdleScripts DEF ScriptRecord
    <3> QED BY <3>3
  <2>2. CASE BackfillReads
    <3>1. PICK r \in {row, NoRow} : script' = [script EXCEPT !.pc = "mark", !.row = r]
      BY <2>2 DEF BackfillReads
    <3>2. script.pc = "fetch" /\ r \in MarkRows
      BY <1>2, <2>2, NoRowHolds DEF BackfillReads
    <3> QED BY <1>2, <3>1, <3>2 DEF ScriptRecord
  <2>3. CASE BackfillDies
    <3>1. script' = [IdleScript EXCEPT !.pc = "done"]
      BY <2>3 DEF BackfillDies
    <3> QED BY <1>0, <3>1, IdleScripts DEF ScriptRecord
  <2> QED BY <2>1, <2>2, <2>3
<1>4. ASSUME lapse = "none" PROVE ScriptWalk(script)'
  <2>1. ScriptWalk(script) /\ \A low, high : Complete(low, high)' <=> Complete(low, high)
    BY <1>0, <1>4, SameRows DEF RingbaInv, RingbaSound
  <2>2. CASE script'.pc \notin {"fetch", "mark"}
    BY <1>3, <2>2 DEF ScriptWalk
  <2>3. CASE script'.all = {}
    BY <1>3, <2>3 DEF ScriptWalk
  <2>4. CASE script'.all = script.all /\ script'.cursor = script.cursor /\ script.pc = "fetch"
    BY <1>3, <2>1, <2>4 DEF ScriptWalk
  <2> QED BY <1>3, <2>2, <2>3, <2>4
<1> QED BY <1>0, <1>1, <1>2, <1>3, <1>4, ScriptKept

\* It walks to the month before, with what this month had in its hands.
LEMMA RingbaScriptFetches ==
    ASSUME RingbaInv, BackfillFetches
    PROVE  RingbaInv'
<1>1. PICK q \in Pulls(DayStart(script.cursor), DayStart(script.cursor)) :
         /\ script' = IF q.got = {}
                      THEN [script EXCEPT !.cursor = @ - 1, !.empty = IF script.from = None THEN @ + 1 ELSE @]
                      ELSE [script EXCEPT !.pc = "upsert", !.at = clock, !.got = q.got, !.empty = 0,
                                          !.fin = {c \in q.got : Settled(c)}]
         /\ lapse' = IF q.got = q.all THEN lapse ELSE Lapse("page")
  BY DEF BackfillFetches
<1>2. /\ UNCHANGED <<clock, calls, stored, settled, row, worker>> /\ script.pc = "fetch"
  BY DEF BackfillFetches
<1>3. /\ script \in ScriptRecord /\ script.cursor \in Int /\ script.empty \in Int /\ script.all \subseteq calls
      /\ clock \in Nat /\ clock \in 0 .. clock /\ calls \subseteq 0 .. clock /\ script.fin \subseteq script.got
      /\ settled \subseteq stored /\ stored \subseteq calls
  <2>1. clock \in Nat
    BY OverlapAssumption DEF RingbaInv, Times
  <2> QED BY <2>1 DEF RingbaInv, RingbaShape, ScriptRecord
<1> DEFINE lo == DayStart(script.cursor)
           hi == DayEnd(script.cursor)
<1>4. lo \in Int /\ hi \in Int /\ Day(lo) = script.cursor /\ hi = DayStart(script.cursor + 1) - 1
      /\ DayStart(script.cursor + 1) \in Int
  <2>1. script.cursor + 1 \in Int
    BY <1>3
  <2> QED BY <1>3, <2>1, DayStarts
<1>5. q.all = calls \intersect (lo .. hi) /\ q.got \subseteq q.all /\ q.got \subseteq calls
  BY <1>4, PullIsFair
<1>6. /\ script' \in ScriptRecord /\ script'.fin \subseteq script'.got /\ script'.row = script.row /\ script'.all = script.all
      /\ \/ q.got = {} /\ script'.pc = "fetch" /\ script'.cursor = script.cursor - 1
         \/ /\ q.got # {} /\ script'.pc = "upsert" /\ script'.cursor = script.cursor /\ script'.at = clock
            /\ script'.got = q.got /\ script'.fin = {c \in q.got : Settled(c)}
  <2>1. CASE q.got = {}
    <3>1. script' = [script EXCEPT !.cursor = @ - 1, !.empty = IF script.from = None THEN @ + 1 ELSE @]
      BY <1>1, <2>1
    <3>2. script.cursor - 1 \in Int /\ script.empty + 1 \in Int
      BY <1>3
    <3> QED BY <1>2, <1>3, <2>1, <3>1, <3>2 DEF ScriptRecord
  <2>2. CASE q.got # {}
    <3> DEFINE fin == {c \in q.got : Settled(c)}
    <3>1. script' = [script EXCEPT !.pc = "upsert", !.at = clock, !.got = q.got, !.empty = 0, !.fin = fin]
      BY <1>1, <2>2
    <3>2. fin \in SUBSET calls /\ fin \subseteq q.got /\ q.got \in SUBSET calls
      BY <1>5
    <3> HIDE DEF fin
    <3>3. script' \in ScriptRecord
      <4>1. script \in ScriptRecord /\ clock \in 0 .. clock
        BY <1>3
      <4>2. script' = [pc |-> "upsert", at |-> clock, cursor |-> script.cursor, from |-> script.from, to |-> script.to,
                       row |-> script.row, got |-> q.got, fin |-> fin, all |-> script.all, empty |-> 0]
        BY <3>1, <4>1 DEF ScriptRecord
      <4>3. /\ script.cursor \in Int /\ script.from \in Int /\ script.to \in Int /\ script.row \in MarkRows
            /\ script.all \in SUBSET calls
        BY <4>1 DEF ScriptRecord
      <4> QED BY <3>2, <4>1, <4>2, <4>3 DEF ScriptRecord
    <3>4. /\ script'.row = script.row /\ script'.all = script.all /\ script'.pc = "upsert" /\ script'.cursor = script.cursor
          /\ script'.at = clock /\ script'.got = q.got /\ script'.fin = fin
      BY <1>3, <3>1 DEF ScriptRecord
    <3> QED BY <2>2, <3>2, <3>3, <3>4 DEF fin
  <2> QED BY <2>1, <2>2
<1>7. lapse' \in Lapses /\ (lapse' = "none" => lapse = "none" /\ q.got = q.all)
  BY <1>1 DEF Lapse, Lapses, RingbaInv, RingbaShape
<1>8. ASSUME lapse' = "none" PROVE ScriptWalk(script)'
  <2>1. /\ \A h \in script.all : DayStart(script.cursor + 1) <= h /\ Complete(DayStart(script.cursor + 1), h)
        /\ \A low, high : Complete(low, high)' <=> Complete(low, high)
    BY <1>2, <1>7, <1>8, SameRows DEF RingbaInv, RingbaSound, ScriptWalk
  <2>2. CASE q.got = {} /\ script'.pc = "fetch" /\ script'.cursor = script.cursor - 1
    <3>1. script'.cursor + 1 = script.cursor
      BY <1>3, <2>2
    <3>2. ASSUME NEW h \in script.all PROVE lo <= h /\ Complete(lo, h)
      <4>1. h \in Int /\ \A c \in calls : c \in Int
        <5>1. h \in calls
          BY <1>3
        <5>2. \A c \in calls : c \in Int
          BY Instants
        <5> QED BY <5>1, <5>2
      <4>2. lo <= DayStart(script.cursor + 1)
        BY <1>3, DayStarts, OverlapAssumption
      <4>3. ASSUME NEW c \in calls, lo <= c PROVE DayStart(script.cursor + 1) <= c
        BY <1>4, <1>5, <1>7, <1>8, <2>2, <4>1, <4>3
      <4>4. lo <= h
        BY <1>4, <2>1, <4>1, <4>2
      <4> QED BY <2>1, <4>3, <4>4 DEF Complete
    <3>3. \A low, h : low = lo /\ h \in script.all => low <= h /\ Complete(low, h)'
      BY <2>1, <3>2
    <3> QED BY <1>6, <2>2, <3>1, <3>3 DEF ScriptWalk
  <2>3. CASE /\ q.got # {} /\ script'.pc = "upsert" /\ script'.cursor = script.cursor /\ script'.at = clock
             /\ script'.got = q.got /\ script'.fin = {c \in q.got : Settled(c)}
    <3>1. \A c \in q.got : c <= clock /\ lo <= c /\ c <= hi /\ (c \in script'.fin <=> c + Settles <= clock)
      BY <1>3, <1>5, <2>3 DEF Settled
    <3>2. \A c \in calls : lo <= c /\ c <= hi /\ c < clock => c \in q.got
      BY <1>3, <1>4, <1>5, <1>7, <1>8
    <3>3. clock <= clock + MaxHold
      BY <1>3, OverlapAssumption
    <3>4. Pulled(script, lo, hi)'
      BY <1>2, <2>3, <3>1, <3>2, <3>3 DEF Pulled
    <3>5. \A h \in script.all : h <= clock
      BY <1>3, Instants
    <3>6. \A low, h : low = DayStart(script.cursor + 1) /\ h \in script.all => low <= h /\ Complete(low, h)'
      BY <2>1
    <3> QED BY <1>6, <2>3, <3>4, <3>5, <3>6 DEF ScriptWalk
  <2> QED BY <1>6, <2>2, <2>3
<1>9. \A r \in MarkRows : RowHolds(r) => RowHolds(r)'
  BY <1>2, SameRows
<1> QED BY <1>2, <1>3, <1>6, <1>7, <1>8, <1>9, ScriptKept

LEMMA RingbaScriptStores ==
    ASSUME RingbaInv, BackfillUpserts
    PROVE  RingbaInv'
<1>1. PICK lost \in SUBSET script.got : Upsert(script.got, script.fin, lost)
  BY DEF BackfillUpserts
<1>2. /\ UNCHANGED <<clock, calls, row, worker>> /\ script.pc = "upsert"
      /\ script' = [script EXCEPT !.pc = "fetch", !.at = 0, !.cursor = @ - 1, !.all = @ \union script.got,
                                  !.got = {}, !.fin = {}]
  BY DEF BackfillUpserts
<1>3. /\ script \in ScriptRecord /\ script.cursor \in Int /\ script.all \subseteq calls /\ script.got \subseteq calls
      /\ script.at \in 0 .. clock /\ script.at \in Int /\ clock \in Nat /\ 0 \in 0 .. clock
      /\ script.fin \subseteq script.got /\ settled \subseteq stored /\ stored \subseteq calls
  <2>1. clock \in Nat
    BY OverlapAssumption DEF RingbaInv, Times
  <2> QED BY <2>1 DEF RingbaInv, RingbaShape, ScriptRecord
<1> DEFINE lo == DayStart(script.cursor)
           hi == DayEnd(script.cursor)
<1>4. lo \in Int /\ hi \in Int /\ hi = DayStart(script.cursor + 1) - 1 /\ DayStart(script.cursor + 1) \in Int
      /\ lo <= DayStart(script.cursor + 1)
  <2>1. script.cursor + 1 \in Int
    BY <1>3
  <2> QED BY <1>3, <2>1, DayStarts, OverlapAssumption
<1>5. /\ script' \in ScriptRecord /\ script'.fin \subseteq script'.got /\ script'.row = script.row /\ script'.pc = "fetch"
      /\ script'.all = script.all \union script.got /\ script'.cursor + 1 = script.cursor
  <2>1. script.cursor - 1 \in Int /\ script.all \union script.got \in SUBSET calls
    BY <1>3
  <2>2. /\ script.from \in Int /\ script.to \in Int /\ script.row \in MarkRows /\ script.empty \in Int
    BY <1>3 DEF ScriptRecord
  <2>3. script' = [pc |-> "fetch", at |-> 0, cursor |-> script.cursor - 1, from |-> script.from, to |-> script.to,
                   row |-> script.row, got |-> {}, fin |-> {}, all |-> script.all \union script.got, empty |-> script.empty]
    BY <1>2, <1>3 DEF ScriptRecord
  <2>4. script' \in ScriptRecord
    BY <1>3, <2>1, <2>2, <2>3 DEF ScriptRecord
  <2> QED BY <1>3, <2>3, <2>4
<1>6. lapse' \in Lapses /\ (lapse' = "none" => lapse = "none" /\ lost = {})
  BY <1>1 DEF Lapse, Lapses, RingbaInv, RingbaShape, Upsert
<1>7. settled' \subseteq stored' /\ stored' \subseteq calls
  BY <1>1, <1>3 DEF Upsert
<1>8. ASSUME lapse' = "none"
      PROVE  /\ \A r \in MarkRows : RowHolds(r) => RowHolds(r)'
             /\ ScriptWalk(script)'
  <2>1. /\ Upsert(script.got, script.fin, {}) /\ Pulled(script, lo, hi)
        /\ \A h \in script.all : DayStart(script.cursor + 1) <= h /\ h <= script.at /\ Complete(DayStart(script.cursor + 1), h)
    BY <1>1, <1>2, <1>6, <1>8 DEF RingbaInv, RingbaSound, ScriptWalk
  <2>2. /\ \A low \in Int, h \in 0 .. clock : Complete(low, h) => Complete(low, h)'
        /\ \A r \in MarkRows : RowHolds(r) => RowHolds(r)'
    BY <1>2, <1>3, <2>1, CompleteUpserted DEF RingbaInv
  <2>3. stored' = stored \union script.got /\ settled' = (settled \ script.got) \union script.fin
    BY <2>1 DEF Upsert
  <2>4. /\ \A c \in script.got : c <= script.at /\ lo <= c /\ c <= hi /\ (c \in script.fin <=> c + Settles <= script.at)
        /\ \A c \in calls : lo <= c /\ c <= hi /\ c < script.at => c \in script.got
    BY <2>1 DEF Pulled
  <2>5. \A c \in calls : c \in 0 .. clock /\ c \in Nat /\ c \in Int
    BY Instants
  <2>6. ASSUME NEW low, low = lo, NEW h \in script.all \union script.got
        PROVE  low <= h /\ Complete(low, h)'
    <3>1. h \in calls
      BY <1>3
    <3>2. h \in 0 .. clock /\ h \in Nat /\ h \in Int /\ h <= script.at /\ lo <= h
      <4>1. h <= script.at
        BY <2>1, <2>4
      <4>2. CASE h \in script.got
        BY <2>4, <2>5, <3>1, <4>1, <4>2
      <4>3. CASE h \in script.all
        <5>1. DayStart(script.cursor + 1) <= h /\ h \in Int
          BY <2>1, <2>5, <3>1, <4>3
        <5> QED BY <1>4, <2>5, <3>1, <4>1, <5>1
      <4> QED BY <4>2, <4>3
    <3>3. /\ LeftBehind(h)' = LeftBehind(h) /\ LeftBehind(h) \in Int /\ LeftBehind(h) <= h - Overlap
          /\ LeftBehind(h) <= h
      <4>1. h # None
        BY <3>2 DEF None
      <4> QED BY <3>2, <4>1, Behind DEF LeftBehind, WindowStart
    <3>4. h \in stored'
      BY <2>1, <2>3 DEF Complete
    <3>5. ASSUME NEW c \in calls, low <= c, c <= hi
          PROVE  (c <= h => c \in stored') /\ (c < LeftBehind(h) => c \in settled')
      <4>1. ASSUME c < h PROVE c \in script.got
        BY <1>3, <2>4, <2>5, <2>6, <3>2, <3>5, <4>1
      <4>2. ASSUME c < LeftBehind(h) PROVE c < h /\ c + Settles <= script.at
        BY <1>3, <2>5, <3>2, <3>3, <4>2, OverlapAssumption
      <4>3. c < LeftBehind(h) => c \in script.fin
        BY <2>4, <4>1, <4>2
      <4>4. c <= h => c \in stored'
        BY <2>3, <2>5, <3>2, <3>4, <4>1
      <4> QED BY <2>3, <4>3, <4>4
    <3>6. ASSUME NEW c \in calls, ~(c <= hi)
          PROVE  (c <= h => c \in stored') /\ (c < LeftBehind(h) => c \in settled')
      <4>1. DayStart(script.cursor + 1) <= c /\ c \notin script.got
        BY <1>4, <2>4, <2>5, <3>6
      <4>2. CASE h \in script.all
        <5>1. Complete(DayStart(script.cursor + 1), h)
          BY <2>1, <4>2
        <5>2. (c <= h => c \in stored) /\ (c < LeftBehind(h) => c \in settled)
          BY <4>1, <5>1 DEF Complete
        <5> QED BY <2>3, <4>1, <5>2
      <4>3. CASE h \in script.got
        <5>1. h < c
          BY <1>4, <2>4, <2>5, <3>1, <3>6, <4>3
        <5>2. ~(c <= h) /\ ~(c < LeftBehind(h))
          BY <2>5, <3>2, <3>3, <5>1
        <5> QED BY <5>2
      <4> QED BY <4>2, <4>3
    <3> QED BY <1>2, <2>6, <3>2, <3>3, <3>4, <3>5, <3>6 DEF Complete
  <2>7. ScriptWalk(script)'
    <3>1. \A low, h : low = lo /\ h \in script'.all => low <= h /\ Complete(low, h)'
      BY <1>5, <2>6
    <3>2. DayStart(script'.cursor + 1) = lo
      BY <1>5
    <3> QED BY <1>5, <3>1, <3>2 DEF ScriptWalk
  <2> QED BY <2>2, <2>7
<1> QED BY <1>2, <1>5, <1>6, <1>7, <1>8, ScriptKept

\* Where it leaves no hole its walk joins what the row it had read stands for.
LEMMA RingbaScriptMarks ==
    ASSUME RingbaInv, BackfillMarks
    PROVE  RingbaInv'
<1>1. /\ UNCHANGED <<clock, calls, stored, settled, worker>> /\ script.pc = "mark"
      /\ script' = [IdleScript EXCEPT !.pc = "done"]
      /\ \/ /\ row' = [script.row EXCEPT
                          !.high = NewHigh(script.all, @),
                          !.low  = IF script.all = {} THEN @ ELSE NewLow(Min(script.all), @)]
            /\ lapse' = IF LeavesNoHole(script) THEN lapse ELSE Lapse("hole")
         \/ UNCHANGED <<row, lapse>>
  BY DEF BackfillMarks
<1> DEFINE sr == script.row
<1>2. /\ script \in ScriptRecord /\ sr \in MarkRows /\ row \in MarkRows /\ script.all \in SUBSET (0 .. clock)
      /\ script.all \subseteq calls /\ clock \in Nat /\ script.cursor \in Int
  <2>1. clock \in Nat
    BY OverlapAssumption DEF RingbaInv, Times
  <2> QED BY <2>1 DEF RingbaInv, RingbaShape, ScriptRecord
<1>3. /\ sr.high \in (0 .. clock) \union {None} /\ sr.low \in Int /\ sr.seen \in Int
      /\ sr.seen \in (0 .. clock) \union {None} /\ sr = [high |-> sr.high, low |-> sr.low, seen |-> sr.seen]
  BY <1>2 DEF MarkRows, None
<1> HIDE DEF sr
<1>5. ASSUME script.all # {}
      PROVE  /\ Max(script.all) \in script.all /\ Min(script.all) \in script.all
             /\ Max(script.all) \in 0 .. clock /\ Min(script.all) \in Nat /\ Max(script.all) \in Nat
  <2>1. Max(script.all) \in script.all /\ Min(script.all) \in script.all
    BY <1>2, <1>5, NewestAndOldest DEF RingbaInv
  <2> QED BY <1>2, <2>1, Instants
<1>6. \/ row' = row \/ row' = sr
      \/ /\ script.all # {} /\ lapse' = IF LeavesNoHole(script) THEN lapse ELSE Lapse("hole")
         /\ row' = [high |-> Max(script.all), low |-> NewLow(Min(script.all), sr.low), seen |-> sr.seen]
  <2>1. CASE UNCHANGED <<row, lapse>>
    BY <2>1
  <2>2. CASE row' = [sr EXCEPT !.high = NewHigh(script.all, @),
                               !.low  = IF script.all = {} THEN @ ELSE NewLow(Min(script.all), @)]
    <3>1. row' = [high |-> NewHigh(script.all, sr.high),
                  low |-> IF script.all = {} THEN sr.low ELSE NewLow(Min(script.all), sr.low), seen |-> sr.seen]
      BY <1>3, <2>2
    <3>2. CASE script.all = {}
      BY <1>3, <3>1, <3>2 DEF NewHigh
    <3>3. CASE script.all # {}
      <4>1. row' = [high |-> Max(script.all), low |-> NewLow(Min(script.all), sr.low), seen |-> sr.seen]
        BY <3>1, <3>3 DEF NewHigh
      <4>2. CASE lapse' = IF LeavesNoHole(script) THEN lapse ELSE Lapse("hole")
        BY <3>3, <4>1, <4>2
      <4> QED BY <1>1, <4>1, <4>2, <3>3
    <3> QED BY <3>2, <3>3
  <2> QED BY <1>1, <2>1, <2>2 DEF sr
<1>7. row' \in MarkRows
  <2>1. script.all # {} => NewLow(Min(script.all), sr.low) \in Int
    BY <1>3, <1>5 DEF NewLow
  <2>2. ASSUME script.all # {}, row' = [high |-> Max(script.all), low |-> NewLow(Min(script.all), sr.low), seen |-> sr.seen]
        PROVE  row' \in MarkRows
    BY <1>3, <1>5, <2>1, <2>2 DEF MarkRows
  <2> QED BY <1>2, <1>6, <2>2 DEF sr
<1>8. lapse' \in Lapses /\ (lapse' = "none" => lapse = "none")
  BY <1>1 DEF Lapse, Lapses, RingbaInv, RingbaShape
<1>9. RingbaShape'
  <2>1. MarkRows' = MarkRows /\ WorkerRecord' = WorkerRecord /\ ScriptRecord' = ScriptRecord
    BY <1>1 DEF MarkRows, WorkerRecord, ScriptRecord
  <2>2. script' \in ScriptRecord /\ script'.fin = {}
    BY <1>1, <1>2, IdleScripts DEF ScriptRecord
  <2> QED BY <1>1, <1>7, <1>8, <2>1, <2>2 DEF RingbaInv, RingbaShape
<1>10. ASSUME lapse' = "none", script.all # {}, LeavesNoHole(script),
              NEW low, low = NewLow(Min(script.all), sr.low), NEW high, high = Max(script.all)
       PROVE  Complete(low, high)
  <2> DEFINE start == DayStart(script.cursor + 1)
  <2>1. start \in Int
    <3>1. script.cursor + 1 \in Int
      BY <1>2
    <3> QED BY <3>1, DayStarts
  <2>2. RowHolds(sr) /\ start <= Min(script.all) /\ Complete(start, high)
    BY <1>1, <1>5, <1>8, <1>10 DEF RingbaInv, RingbaSound, RowClaims, ScriptWalk, sr
  <2>3. \A c \in calls : c \in Int
    BY Instants
  <2> HIDE DEF start
  <2>4. ASSUME NEW c \in calls, low <= c, c < start
        PROVE  c \in stored /\ c \in settled
    <3>1. low = sr.low /\ sr.low # None
      BY <1>3, <1>5, <1>10, <2>1, <2>2, <2>3, <2>4 DEF NewLow
    <3>2. start <= (IF sr.high = None THEN sr.seen ELSE sr.high - Overlap)
      BY <1>10, <3>1 DEF LeavesNoHole, start, sr
    <3>3. CASE sr.high = None
      <4>1. NoCallIn(sr.low, sr.seen) /\ c < sr.seen
        BY <1>3, <2>1, <2>2, <2>3, <2>4, <3>1, <3>2, <3>3 DEF RowHolds
      <4> QED BY <2>4, <3>1, <4>1 DEF NoCallIn
    <3>4. CASE sr.high # None
      <4>1. sr.high \in Nat /\ sr.high - Overlap \in Int /\ start <= sr.high - Overlap
        BY <1>2, <1>3, <3>2, <3>4, OverlapAssumption
      <4>2. /\ LeftBehind(sr.high) = DayStart(Day(sr.high - Overlap)) /\ LeftBehind(sr.high) \in Int
            /\ LeftBehind(sr.high) <= sr.high
        BY <4>1, Behind
      <4>3. start <= LeftBehind(sr.high)
        <5>1. script.cursor + 1 \in Int
          BY <1>2
        <5> QED BY <4>1, <4>2, <5>1, StartOfItsDay DEF start
      <4>4. c < LeftBehind(sr.high) /\ c <= sr.high
        BY <2>1, <2>3, <2>4, <4>1, <4>2, <4>3
      <4>5. Complete(sr.low, sr.high)
        BY <2>2, <3>1, <3>4 DEF RowHolds
      <4> QED BY <2>4, <3>1, <4>4, <4>5 DEF Complete
    <3> QED BY <3>3, <3>4
  <2> QED BY <2>1, <2>2, <2>3, <2>4 DEF Complete
<1>11. ASSUME lapse' = "none", NEW r, r = row' PROVE r \in RowClaims \/ RowHolds(r)'
  <2>1. CASE r = row \/ r = sr
    BY <2>1 DEF RowClaims, sr
  <2>2. CASE /\ script.all # {} /\ lapse' = IF LeavesNoHole(script) THEN lapse ELSE Lapse("hole")
             /\ row' = [high |-> Max(script.all), low |-> NewLow(Min(script.all), sr.low), seen |-> sr.seen]
    <3>1. LeavesNoHole(script)
      BY <1>11, <2>2 DEF Lapse
    <3>2. r.high = Max(script.all) /\ r.low = NewLow(Min(script.all), sr.low)
      BY <1>11, <2>2
    <3>3. Complete(r.low, r.high) /\ r.high # None
      BY <1>5, <1>10, <1>11, <2>2, <3>1, <3>2 DEF None
    <3>4. RowHolds(r)
      BY <3>3 DEF RowHolds, Complete
    <3> QED BY <1>1, <3>4, SameRows
  <2> QED BY <1>6, <1>11, <2>1, <2>2
<1>12. script'.pc = "done" /\ script'.row = NoRow
  BY <1>1 DEF IdleScript
<1>13. ASSUME lapse' = "none", NEW r \in RowClaims' PROVE r \in RowClaims \/ RowHolds(r)'
  <2>1. r = row' \/ r = NoRow \/ r \in WorkerRows(worker)
    BY <1>1, <1>12, <1>13 DEF RowClaims
  <2>2. CASE r = NoRow
    BY <2>2, NoRowHolds, <1>1 DEF RowHolds
  <2> QED BY <1>11, <1>13, <2>1, <2>2 DEF RowClaims
<1>14. lapse' = "none" => WorkerWindow(worker)' /\ ScriptWalk(script)'
  <2>1. ScriptWalk(script)'
    BY <1>12 DEF ScriptWalk
  <2> QED BY <1>1, <1>8, <2>1, WindowKept DEF RingbaInv, RingbaSound
<1>15. \A r \in MarkRows : RowHolds(r) => RowHolds(r)'
  BY <1>1, SameRows
<1> QED BY <1>1, <1>8, <1>9, <1>13, <1>14, <1>15, RingbaSameTime, RingbaKept

LEMMA RingbaSteps == RingbaInv /\ RingbaNext => RingbaInv'
BY RingbaTimePasses, RingbaWorkerMoves, RingbaWorkerFetches, RingbaWorkerStores, RingbaScriptMoves, RingbaScriptFetches,
   RingbaScriptStores, RingbaScriptMarks
   DEF RingbaNext

-----------------------------------------------------------------------------
(* A behaviour of one worker leaves what the other two keep as it began.   *)

RingbaUntouched ==
    /\ calls = {} /\ stored = {} /\ settled = {} /\ row = NoRow /\ worker = IdleWorker /\ script = IdleScript
    /\ lapse = "none"

LeadsUntouched ==
    /\ leads = {} /\ leadRows = {} /\ leadFinal = {} /\ leadMark = NoMark
    /\ leadWorker = IdleLeadWorker /\ leadScript = IdleLeadScript /\ leadLapse = "none"

SyncInv ==
    /\ AdsInv /\ figures <= MaxVersion /\ clock \in Times
    /\ IF focus = "ringba" THEN RingbaInv ELSE RingbaUntouched
    /\ IF focus = "leadsprosper" THEN LeadsInv ELSE LeadsUntouched

LEMMA SyncStart == SyncInit => SyncInv
<1> SUFFICES ASSUME SyncInit PROVE SyncInv
  OBVIOUS
<1>1. RingbaInit /\ LeadsInit /\ AdsInit /\ RingbaUntouched /\ LeadsUntouched
  BY DEF SyncInit, RingbaInit, LeadsInit, RingbaUntouched, LeadsUntouched
<1>2. figures <= MaxVersion /\ clock \in Times
  BY <1>1, AdsAssumption, OverlapAssumption DEF AdsInit, LeadsInit, Times
<1> QED BY <1>1, <1>2, RingbaStart, LeadsStart, AdsStart DEF SyncInv

LEMMA RingbaStutters == RingbaInv /\ UNCHANGED ringbaVars => RingbaInv'
<1> SUFFICES ASSUME RingbaInv, UNCHANGED ringbaVars PROVE RingbaInv'
  OBVIOUS
<1>1. UNCHANGED <<clock, calls, stored, settled, row, worker, script, lapse>>
  BY DEF ringbaVars, ringbaOwn
<1>2. RingbaShape'
  BY <1>1 DEF RingbaInv, RingbaShape, MarkRows, WorkerRecord, ScriptRecord
<1>3. \A low, high : Complete(low, high)' <=> Complete(low, high)
  BY <1>1, SameRows
<1>4. lapse = "none" => WorkerWindow(worker)' /\ ScriptWalk(script)'
  BY <1>1, <1>3, WindowKept, WalkKept DEF RingbaInv, RingbaSound
<1>5. RowClaims' = RowClaims /\ \A r : RowHolds(r)' <=> RowHolds(r)
  BY <1>1, SameRows DEF RowClaims, WorkerRows
<1> QED BY <1>1, <1>2, <1>4, <1>5, RingbaSameTime, RingbaKept

LEMMA LeadsStutter == LeadsInv /\ UNCHANGED leadVars => LeadsInv'
<1> SUFFICES ASSUME LeadsInv, UNCHANGED leadVars PROVE LeadsInv'
  OBVIOUS
<1>1. UNCHANGED <<clock, leads, leadRows, leadFinal, leadMark, leadWorker, leadScript, leadLapse>>
  BY DEF leadVars, leadOwn
<1>2. LeadsShape'
  BY <1>1 DEF LeadsInv, LeadsShape, LeadMarks, LeadRecord
<1>3. WorkerPulls(leadWorker)' <=> WorkerPulls(leadWorker)
  BY <1>1 DEF WorkerPulls, YoungCopies, WindowStart
<1>4. ScriptPulls(leadScript)' <=> ScriptPulls(leadScript)
  BY <1>1 DEF ScriptPulls, YoungCopies
<1>5. LeadClaims' = LeadClaims /\ \A m : ClaimHolds(m)' <=> ClaimHolds(m)
  BY <1>1, SameClaims DEF LeadClaims, WorkerClaims, ScriptClaims
<1> QED BY <1>1, <1>2, <1>3, <1>4, <1>5, SameTime DEF LeadsInv, LeadsSound

LEMMA SyncSteps == SyncInv /\ [SyncNext]_syncVars => SyncInv'
<1> SUFFICES ASSUME SyncInv, [SyncNext]_syncVars PROVE SyncInv'
  OBVIOUS
<1>1. focus' = focus /\ AdsInv'
  BY AdsSteps, SyncApart DEF SyncInv
<1>2. figures' <= MaxVersion
  <2>1. figures \in Nat /\ MaxVersion \in Nat
    BY AdsAssumption DEF SyncInv, AdsInv, AdsShape
  <2>2. CASE figures' = figures
    BY <2>2 DEF SyncInv
  <2>3. CASE figures < MaxVersion /\ figures' = figures + 1
    BY <2>1, <2>3
  <2>4. figures' = figures \/ (figures < MaxVersion /\ figures' = figures + 1)
    <3>1. \A p \in AdsCallers :
            AdsRunBegins(p) \/ ListCustomers(p) \/ PickAccount(p) \/ FetchMetrics(p) => figures' = figures
      BY DEF AdsRunBegins, ListCustomers, PickAccount, FetchMetrics
    <3>2. \A p \in AdsCallers :
            UpsertDaily(p) \/ UpsertCampaigns(p) \/ AccountFails(p) \/ AdsCallerDies(p) => figures' = figures
      BY DEF UpsertDaily, UpsertCampaigns, AccountFails, AdsCallerDies
    <3>3. FiguresChange => figures < MaxVersion /\ figures' = figures + 1
      BY DEF FiguresChange
    <3>4. UNCHANGED adsVars => figures' = figures
      BY DEF adsVars
    <3>5. AdsNext \/ UNCHANGED adsVars
      BY SyncApart
    <3>6. AdsNext => figures' = figures \/ (figures < MaxVersion /\ figures' = figures + 1)
      BY <3>1, <3>2, <3>3 DEF AdsNext
    <3> QED BY <3>4, <3>5, <3>6
  <2> QED BY <2>2, <2>3, <2>4
<1>3. CASE focus = "ringba"
  <2>1. RingbaInv'
    BY <1>3, SyncApart, RingbaSteps, RingbaStutters DEF SyncInv
  <2>2. LeadsUntouched'
    BY <1>3, SyncApart DEF SyncInv, LeadsUntouched, leadOwn
  <2> QED BY <1>1, <1>2, <1>3, <2>1, <2>2 DEF SyncInv, RingbaInv
<1>4. CASE focus = "leadsprosper"
  <2>1. LeadsInv'
    BY <1>4, SyncApart, LeadsSteps, LeadsStutter DEF SyncInv
  <2>2. RingbaUntouched'
    BY <1>4, SyncApart DEF SyncInv, RingbaUntouched, ringbaOwn
  <2> QED BY <1>1, <1>2, <1>4, <2>1, <2>2 DEF SyncInv, LeadsInv
<1>5. CASE focus # "ringba" /\ focus # "leadsprosper"
  <2>1. LeadsUntouched' /\ RingbaUntouched'
    BY <1>5, SyncApart DEF SyncInv, LeadsUntouched, leadOwn, RingbaUntouched, ringbaOwn
  <2>2. clock' = clock
    BY <1>5 DEF SyncNext, syncVars
  <2>3. clock' \in Times
    BY <2>2 DEF SyncInv, Times
  <2> QED BY <1>1, <1>2, <1>5, <2>1, <2>3 DEF SyncInv
<1> QED BY <1>3, <1>4, <1>5

(* Every variable of the three mirrors has its type.                       *)
THEOREM SyncTypes == SyncSpec => []SyncTypeOK
<1>1. SyncInv => SyncTypeOK
  <2> SUFFICES ASSUME SyncInv PROVE SyncTypeOK
    OBVIOUS
  <2>1. clock \in Times /\ \A n \in 0 .. clock : n \in Times
    BY OverlapAssumption DEF SyncInv, Times
  <2>2. RingbaTypeOK
    <3>1. CASE RingbaInv
      <4>1. row.high \in (0 .. clock) \union {None} /\ row.low \in Int /\ row.seen \in (0 .. clock) \union {None}
        BY <3>1 DEF RingbaInv, RingbaShape, MarkRows
      <4>2. worker.pc \in {"idle", "fetch", "upsert", "mark"} /\ script.pc \in {"off", "fetch", "upsert", "mark", "done"}
        BY <3>1 DEF RingbaInv, RingbaShape, WorkerRecord, ScriptRecord
      <4> QED BY <2>1, <3>1, <4>1, <4>2 DEF RingbaTypeOK, RingbaInv, RingbaShape, Marks, Lapses
    <3>2. CASE RingbaUntouched
      BY <2>1, <3>2 DEF RingbaTypeOK, RingbaUntouched, NoRow, IdleWorker, IdleScript, Marks, None
    <3> QED BY <3>1, <3>2 DEF SyncInv
  <2>3. LeadsTypeOK
    <3>1. CASE LeadsInv
      <4>1. leadMark.high \in (0 .. clock) \union {None}
        BY <3>1 DEF LeadsInv, LeadsShape, LeadMarks
      <4>2. leads \subseteq [campaign : Campaigns, at : Times]
        BY <2>1, <3>1 DEF LeadsInv, LeadsShape, LeadRecord
      <4>3. leadWorker.pc \in {"idle", "list", "fetch", "mark"} /\ leadWorker.todo \subseteq Campaigns
            /\ leadScript.pc \in {"off", "upsert", "read", "mark", "done"}
        BY <3>1 DEF LeadsInv, LeadsShape
      <4> QED BY <2>1, <3>1, <4>1, <4>2, <4>3 DEF LeadsTypeOK, LeadsInv, LeadsShape
    <3>2. CASE LeadsUntouched
      BY <2>1, <3>2 DEF LeadsTypeOK, LeadsUntouched, NoMark, IdleLeadWorker, IdleLeadScript, None
    <3> QED BY <3>1, <3>2 DEF SyncInv
  <2>4. AdsTypeOK
    <3>1. figures \in 0 .. MaxVersion /\ \A n \in Nat : n <= figures => n \in 0 .. MaxVersion
      BY AdsAssumption DEF SyncInv, AdsInv, AdsShape
    <3>2. daily \in [Accounts -> 0 .. MaxVersion] /\ campaign \in [Accounts -> 0 .. MaxVersion]
      BY <3>1 DEF SyncInv, AdsInv, AdsShape, AdsBounds
    <3>3. \A i \in RunIds : adsRuns[i].status \in {"none", "running", "ok", "partial", "error"}
      BY DEF SyncInv, AdsInv, AdsShape, LogRecord
    <3>4. \A p \in AdsCallers :
            adsProc[p].pc \in {"rest", "list", "pick", "daily", "dailyRows", "campaign", "campaignRows"}
      BY DEF SyncInv, AdsInv, AdsShape, AdsRecord, Pulling
    <3> QED BY <3>1, <3>2, <3>3, <3>4 DEF AdsTypeOK
  <2> QED BY <2>2, <2>3, <2>4 DEF SyncTypeOK
<1> QED BY <1>1, SyncStart, SyncSteps, PTL DEF SyncSpec

(* No lead the mark has left behind is missing or provisional, though the  *)
(* campaigns of a tick are pulled at different times                       *)
(* (src/integrations/leadsprosper/sync.ts, syncLeads).                     *)
THEOREM LeadsStayMirrored == SyncSpec => []LeadsAreMirrored
<1>1. SyncInv => LeadsAreMirrored
  <2>1. LeadsInv => LeadsAreMirrored
    BY DEF LeadsInv, LeadsSound, LeadClaims, ClaimHolds, LeadsAreMirrored
  <2>2. LeadsUntouched => LeadsAreMirrored
    BY DEF LeadsUntouched, LeadsAreMirrored
  <2> QED BY <2>1, <2>2 DEF SyncInv
<1> QED BY <1>1, SyncStart, SyncSteps, PTL DEF SyncSpec

(* Between its marks the mirror of Ringba's calls is complete and settled  *)
(* up to what the next tick pulls again                                    *)
(* (src/integrations/ringba/sync.ts, syncCalls).                           *)
THEOREM MarksStayTrue == SyncSpec => []MarksAreTrue
<1>1. SyncInv => MarksAreTrue
  <2>1. ASSUME RingbaInv PROVE MarksAreTrue
    <3>1. lapse = "none" => RowHolds(row)
      BY <2>1 DEF RingbaInv, RingbaSound, RowClaims
    <3> QED BY <3>1 DEF RowHolds, Complete, MarksAreTrue
  <2>2. RingbaUntouched => MarksAreTrue
    BY DEF RingbaUntouched, MarksAreTrue
  <2> QED BY <2>1, <2>2 DEF SyncInv
<1> QED BY <1>1, SyncStart, SyncSteps, PTL DEF SyncSpec

(* A report served from the mirror counts the calls the live API has       *)
(* (src/integrations/ringba/repository.ts, hasCoverage).                   *)
THEOREM ReportsAreComplete == SyncSpec => []ReportsMissNoCall
<1>1. SyncInv => ReportsMissNoCall
  <2>1. ASSUME RingbaInv, lapse = "none", NEW from \in 0 .. Day(clock), NEW to \in 0 .. Day(clock), HasCoverage(from, to)
        PROVE  MirrorReport(from, to) = LiveReport(from, to)
    <3>1. stored \subseteq calls /\ row \in MarkRows
      BY <2>1 DEF RingbaInv, RingbaShape
    <3>2. Complete(row.low, row.high)
      BY <2>1 DEF RingbaInv, RingbaSound, RowClaims, RowHolds, HasCoverage
    <3>3. DayStart(from) \in Int /\ DayEnd(to) \in Int /\ row.low \in Int /\ row.high \in Int
      BY <2>1, <3>1, DayStarts DEF HasCoverage, MarkRows
    <3>4. ASSUME NEW c \in calls, c \in DayStart(from) .. DayEnd(to) PROVE c \in stored
      <4>1. row.low <= c /\ c <= row.high
        BY <2>1, <3>3, <3>4 DEF HasCoverage
      <4> QED BY <3>2, <4>1 DEF Complete
    <3> QED BY <3>1, <3>4 DEF MirrorReport, LiveReport
  <2>2. RingbaInv => ReportsMissNoCall
    BY <2>1 DEF ReportsMissNoCall, ReportedCalls
  <2>3. RingbaUntouched => ReportsMissNoCall
    BY DEF RingbaUntouched, ReportsMissNoCall, ReportedCalls, MirrorReport, LiveReport
  <2> QED BY <2>2, <2>3 DEF SyncInv
<1> QED BY <1>1, SyncStart, SyncSteps, PTL DEF SyncSpec

(* The log of the Google Ads runs tells the truth: what an ok run that     *)
(* overlapped no other listed is stored as fresh as when it began, an      *)
(* error stored nothing whole, and the counters add up                     *)
(* (src/integrations/google-ads/sync-worker.ts, runGoogleAdsSync).         *)
THEOREM RunLogHolds == SyncSpec => []RunLogIsTrue
<1>1. SyncInit => AdsInv
  BY AdsStart DEF SyncInit
<1>2. AdsInv /\ [SyncNext]_syncVars => AdsInv'
  BY AdsSteps, SyncApart
<1>3. AdsInv => RunLogIsTrue
  BY DEF AdsInv, RunsAddUp, RunsAreFresh, AllAlone, RunLogIsTrue
<1> QED BY <1>1, <1>2, <1>3, PTL DEF SyncSpec

=============================================================================
