------------------------ MODULE AgentBuilder_proofs ------------------------
(***************************************************************************)
(* Proofs about Agent Builder's sessions, for any number of messages and   *)
(* wizards working on any number of sessions.                              *)
(*                                                                         *)
(* A call writes a transcript it read some steps before.  BuilderInv says  *)
(* what such a call may rely on (CallInv): the copy it read is in order    *)
(* and the index it passes is the one the copy expects, so an update that  *)
(* still finds that index writes the next answer and nothing else; a       *)
(* session that is ready for its ticket stays ready; and a ticket that     *)
(* exists stays what it is.  What the other callers do meanwhile keeps it  *)
(* because rows, and the list of tickets, only ever move forward (Grows).  *)
(***************************************************************************)
EXTENDS AgentBuilder, FiniteSetTheorems, TLAPS

Ordered(copy) ==
  LET n == Answered(copy.index) IN
  /\ Len(copy.answers) >= n
  /\ \A k \in DOMAIN copy.answers : copy.answers[k] = IF k <= n THEN k ELSE Ready
  /\ copy.index # Ready => Len(copy.answers) = n

RowInv(s) ==
  /\ Ordered(Copy(s))
  /\ accepted[s] = Answered(row[s].index)
  /\ row[s].status = "none" => row[s].index = 0
  /\ row[s].status = "submitted" =>
       row[s].ticket \in DOMAIN tickets /\ tickets[row[s].ticket].session = s

Working == {"read", "update", "check", "create", "mark"}

CallInv(c) ==
  /\ call[c].pc \in Working => call[c].session \in Used
  /\ call[c].pc = "update" =>
       Ordered(call[c].read) /\ call[c].index = Expected(call[c].read.index)
  /\ call[c].pc = "create" => Ordered(call[c].read) /\ call[c].read.index = Ready
  /\ call[c].pc \in {"create", "mark"} => row[call[c].session].index = Ready
  /\ call[c].pc = "mark" => /\ call[c].ticket \in DOMAIN tickets
                            /\ tickets[call[c].ticket].session = call[c].session

(* A reply that is not an error is about the wizard's own session, or is   *)
(* the one that gives it its session.                                      *)
Answers(w) == call[w].pc = "reply" /\ call[w].result # "error"

WizInv(w) ==
  /\ wiz[w].session \in Used \cup {0}
  /\ wiz[w].ready = TRUE => wiz[w].session # 0
  /\ call[w].pc \in Working => call[w].session = wiz[w].session
  /\ call[w].pc = "insert" => call[w].ticket = 0
  /\ Answers(w) => /\ call[w].session \in Used
                   /\ \/ call[w].session = wiz[w].session
                      \/ call[w].index = 1 /\ call[w].ticket = 0

BuilderInv ==
  /\ TypeOK
  /\ \A s \in Sessions : RowInv(s)
  /\ \A c \in Callers : CallInv(c)
  /\ \A w \in Wizards : WizInv(w)
  /\ \A i \in DOMAIN tickets : tickets[i].sections = 1..NumQuestions

(* What every step of every caller leaves to the others.                   *)
Grows ==
  /\ Used \subseteq Used'
  /\ \A s \in Sessions : row[s].index = Ready => row'[s].index = Ready
  /\ DOMAIN tickets \subseteq DOMAIN tickets'
  /\ \A i \in DOMAIN tickets : tickets'[i] = tickets[i]

(***************************************************************************)
(* Lemmas about the operators                                              *)
(***************************************************************************)

LEMMA Indices ==
  /\ NumQuestions \in Nat /\ NumQuestions > 1 /\ NumQuestions < Ready
  /\ 0 \in Index /\ 1 \in Index /\ Ready \in Index
  /\ \A i \in Index : /\ NextIndex(i) \in Index /\ Expected(i) \in Index
                      /\ Answered(i) \in Nat /\ Answered(i) <= NumQuestions
                      /\ i # Ready => i \in 0..NumQuestions
BY BuilderAssumption DEF Index, Ready, NextIndex, Expected, Answered

(* The answer to the expected question is the next one: the index moves    *)
(* past it, and a transcript in order stays in order.                      *)
LEMMA NextAnswer ==
  ASSUME NEW i \in Index
  PROVE  /\ Answered(NextIndex(Expected(i))) =
              IF i = Ready THEN NumQuestions ELSE Answered(i) + 1
         /\ i # Ready => Expected(i) = Answered(i) + 1
         /\ i = Ready => Expected(i) = Ready /\ NextIndex(Ready) = Ready
         /\ NextIndex(Expected(i)) # 0
BY BuilderAssumption DEF Index, Ready, NextIndex, Expected, Answered

LEMMA AppendInOrder ==
  ASSUME NEW i \in Index, NEW a \in Seq(Index), Ordered([index |-> i, answers |-> a])
  PROVE  Ordered([index   |-> NextIndex(Expected(i)),
                  answers |-> Append(a, Expected(i))])
<1> DEFINE n == Answered(i)
           i2 == NextIndex(Expected(i))
           b == Append(a, Expected(i))
<1>1. /\ n \in Nat /\ n <= NumQuestions /\ NumQuestions \in Nat /\ Expected(i) \in Index
      /\ i2 \in Index
  BY Indices
<1>2. /\ Len(a) >= n
      /\ \A k \in DOMAIN a : a[k] = IF k <= n THEN k ELSE Ready
      /\ i # Ready => Len(a) = n
  BY DEF Ordered
<1>3. /\ Len(b) = Len(a) + 1 /\ DOMAIN b = 1..(Len(a) + 1) /\ DOMAIN a = 1..Len(a)
      /\ \A k \in 1..Len(a) : b[k] = a[k]
      /\ b[Len(a) + 1] = Expected(i)
      /\ Len(a) \in Nat
  BY <1>1
<1>7. SUFFICES Ordered([index |-> i2, answers |-> b])
  OBVIOUS
<1>6. ASSUME Len(b) >= Answered(i2), i2 # Ready => Len(b) = Answered(i2),
             \A k \in DOMAIN b : b[k] = IF k <= Answered(i2) THEN k ELSE Ready
      PROVE  Ordered([index |-> i2, answers |-> b])
  BY <1>6 DEF Ordered
<1>8. Len(a) \in Nat /\ NumQuestions \in Nat
  BY <1>1
<1> HIDE DEF n, i2, b
<1>4. CASE i = Ready
  <2>1. n = NumQuestions /\ Answered(i2) = NumQuestions /\ Expected(i) = Ready /\ i2 = Ready
    BY <1>4, NextAnswer DEF Answered, n, i2
  <2>3. Len(a) >= NumQuestions
    BY <1>2, <1>4 DEF Answered, n
  <2>2. ASSUME NEW k \in DOMAIN b PROVE b[k] = IF k <= NumQuestions THEN k ELSE Ready
    <3>1. CASE k \in 1..Len(a)
      BY <1>2, <1>3, <2>1, <3>1
    <3>2. CASE k = Len(a) + 1
      <4>1. b[k] = Ready
        BY <1>3, <2>1, <3>2
      <4>2. ~(k <= NumQuestions)
        BY <1>8, <2>3, <3>2
      <4> QED
        BY <4>1, <4>2
    <3> QED
      BY <1>3, <3>1, <3>2
  <2> QED
    <3>1. Len(b) >= Answered(i2)
      <4>1. Len(b) = Len(a) + 1
        BY <1>3
      <4> QED
        BY <1>8, <2>1, <2>3, <4>1
    <3>2. \A k \in DOMAIN b : b[k] = IF k <= Answered(i2) THEN k ELSE Ready
      BY <2>1, <2>2
    <3> QED
      BY <1>6, <2>1, <3>1, <3>2
<1>5. CASE i # Ready
  <2>1. Answered(i2) = n + 1 /\ Expected(i) = n + 1 /\ Len(a) = n
    BY <1>2, <1>5, NextAnswer DEF n, i2
  <2>2. \A k \in DOMAIN b : b[k] = IF k <= n + 1 THEN k ELSE Ready
    BY <1>1, <1>2, <1>3, <2>1
  <2> QED
    BY <1>1, <1>2, <1>3, <1>6, <2>1, <2>2
<1> QED
  BY <1>4, <1>5

(* A transcript in order whose session is ready answers every question.    *)
LEMMA ReadyIsComplete ==
  ASSUME NEW a \in Seq(Index), Ordered([index |-> Ready, answers |-> a])
  PROVE  Sections(a) = 1..NumQuestions
<1>1. /\ Len(a) >= NumQuestions
      /\ \A k \in DOMAIN a : a[k] = IF k <= NumQuestions THEN k ELSE Ready
  BY DEF Ordered, Answered
<1>2. DOMAIN a = 1..Len(a) /\ Len(a) \in Nat /\ NumQuestions \in Nat
  BY Indices
<1>3. ASSUME NEW k \in 1..NumQuestions PROVE k \in DOMAIN a /\ a[k] = k
  BY <1>1, <1>2, <1>3
<1>4. ToSet(a) = {a[k] : k \in DOMAIN a}
  BY DEF ToSet
<1>5. 1..NumQuestions \subseteq ToSet(a)
  BY <1>3, <1>4
<1> QED
  BY <1>5 DEF Sections

(***************************************************************************)
(* Types                                                                   *)
(***************************************************************************)

LEMMA NoCallType ==
  NoCall \in Call /\ NoRow \in Row
BY Indices, BuilderAssumption DEF NoCall, Call, NoRow, Row

LEMMA EndedType ==
  ASSUME TypeOK, NEW c \in Callers, NEW result \in {"ok", "error"}
  PROVE  /\ Ended(c, result) \in Call
         /\ c \in Messages => Ended(c, result).pc = "idle"
         /\ c \notin Messages => /\ Ended(c, result).pc = "reply"
                                 /\ Ended(c, result).result = result
                                 /\ Ended(c, result).session = call[c].session
                                 /\ Ended(c, result).index = call[c].index
                                 /\ Ended(c, result).ticket = call[c].ticket
<1>1. call[c] \in Call
  BY DEF TypeOK
<1> QED
  BY <1>1, NoCallType, Indices DEF Ended, Call, NoCall

LEMMA ResumedType ==
  ASSUME TypeOK, NEW c \in Callers, NEW s \in Sessions, NEW index \in Index, c \in Messages
  PROVE  /\ Resumed(c, s, index) \in Call
         /\ \/ Resumed(c, s, index).pc = "idle"
            \/ /\ Resumed(c, s, index).pc = "read"
               /\ Resumed(c, s, index).session = s
               /\ Resumed(c, s, index).index = Expected(index)
<1>1. CASE call[c].answer /\ index # Ready
  <2>1. Resumed(c, s, index) = [NoCall EXCEPT !.pc = "read", !.session = s,
                                              !.index = Expected(index)]
    BY <1>1 DEF Resumed
  <2>2. Expected(index) \in Index
    BY Indices
  <2> QED
    BY <2>1, <2>2, NoCallType DEF NoCall, Call
<1>2. CASE ~(call[c].answer /\ index # Ready)
  <2>1. Resumed(c, s, index) = Ended(c, "ok")
    BY <1>2 DEF Resumed
  <2> QED
    BY <2>1, EndedType
<1> QED
  BY <1>1, <1>2

LEMMA CallMoves ==
  ASSUME TypeOK, NEW c \in Callers, NEW new, SetCall(c, new)
  PROVE  /\ new \in Call => call' \in [Callers -> Call]
         /\ call'[c] = new
         /\ \A d \in Callers : d # c => call'[d] = call[d]
BY DEF TypeOK, SetCall

LEMMA RetryMoves ==
  ASSUME TypeOK, NEW c \in Callers, TriesAgain(c)
  PROVE  /\ call' \in [Callers -> Call]
         /\ \A d \in Callers : d # c => call'[d] = call[d]
         /\ call'[c] # call[c] /\ call'[c].pc = call[c].pc
         /\ call'[c].session = call[c].session /\ call'[c].index = call[c].index
         /\ call'[c].read = call[c].read /\ call'[c].ticket = call[c].ticket
         /\ \E new : SetCall(c, new)
<1>1. call \in [Callers -> Call] /\ call[c] \in Call /\ MaxAttempts \in Nat
  BY BuilderAssumption DEF TypeOK
<1>2. /\ call[c].attempt \in 1..MaxAttempts /\ call[c].attempt + 1 \in 1..MaxAttempts
      /\ call[c].attempt + 1 # call[c].attempt
  BY <1>1 DEF TriesAgain, Call
<1> DEFINE new == [call[c] EXCEPT !.attempt = call[c].attempt + 1]
<1>3. SetCall(c, new)
  BY DEF TriesAgain
<1>4. new \in Call /\ new.attempt # call[c].attempt
  BY <1>1, <1>2 DEF Call
<1>5. /\ new.pc = call[c].pc /\ new.session = call[c].session /\ new.index = call[c].index
      /\ new.read = call[c].read /\ new.ticket = call[c].ticket
  BY <1>1 DEF Call
<1> HIDE DEF new
<1> QED
  BY <1>3, <1>4, <1>5, CallMoves

(* A ticket is made at the end of the list.                                *)
LEMMA TicketAdded ==
  ASSUME TypeOK, NEW c \in Callers, call[c].session \in Sessions, MakeTicket(c)
  PROVE  /\ tickets' = Append(tickets, Ticket(c))
         /\ tickets' \in Seq([session : Sessions, sections : SUBSET (1..NumQuestions)])
         /\ Len(tickets) + 1 \in 1..MaxTickets
         /\ DOMAIN tickets' = DOMAIN tickets \cup {Len(tickets) + 1}
         /\ Len(tickets) + 1 \notin DOMAIN tickets
         /\ \A i \in DOMAIN tickets : tickets'[i] = tickets[i]
         /\ tickets'[Len(tickets) + 1].session = call[c].session
         /\ tickets'[Len(tickets) + 1].sections = Sections(call[c].read.answers)
<1>0. tickets \in Seq([session : Sessions, sections : SUBSET (1..NumQuestions)])
  BY DEF TypeOK
<1>1. Sections(call[c].read.answers) \in SUBSET (1..NumQuestions)
  BY DEF Sections
<1> DEFINE t == [session |-> call[c].session, sections |-> Sections(call[c].read.answers)]
<1>2. /\ tickets' = Append(tickets, t) /\ Ticket(c) = t
      /\ t.session = call[c].session /\ t.sections = Sections(call[c].read.answers)
      /\ t \in [session : Sessions, sections : SUBSET (1..NumQuestions)]
  BY <1>1 DEF MakeTicket, Ticket
<1>3. Len(tickets) \in Nat /\ Len(tickets) < MaxTickets /\ MaxTickets \in Nat
  BY <1>0, BuilderAssumption DEF MakeTicket
<1>4. Len(tickets) + 1 \in 1..MaxTickets
  BY <1>3
<1> HIDE DEF t
<1> QED
  BY <1>0, <1>2, <1>4

LEMMA AnswerType ==
  ASSUME TypeOK, NEW c \in Callers, call[c].session \in Sessions, Advance(c)
  PROVE  /\ row' \in [Sessions -> Row]
         /\ accepted' \in [Sessions -> Nat]
         /\ \A t \in Sessions : t # call[c].session => row'[t] = row[t] /\ accepted'[t] = accepted[t]
         /\ LET s == call[c].session IN
            /\ row'[s].index = NextIndex(call[c].index)
            /\ row'[s].answers = Append(call[c].read.answers, call[c].index)
            /\ row'[s].status = row[s].status
            /\ row'[s].slack = row[s].slack
            /\ row'[s].ticket = row[s].ticket
            /\ accepted'[s] = IF call[c].index = Ready THEN accepted[s] ELSE accepted[s] + 1
<1> DEFINE s == call[c].session
<1>1. /\ row \in [Sessions -> Row] /\ accepted \in [Sessions -> Nat] /\ row[s] \in Row
      /\ call[c].index \in Index /\ call[c].read.answers \in Seq(Index)
  BY DEF TypeOK, Call
<1>2. Append(call[c].read.answers, call[c].index) \in Seq(Index) /\ NextIndex(call[c].index) \in Index
  BY <1>1, Indices
<1>3. /\ row' = [row EXCEPT ![s] = [row[s] EXCEPT
                   !.index = NextIndex(call[c].index),
                   !.answers = Append(call[c].read.answers, call[c].index)]]
      /\ accepted' = [accepted EXCEPT ![s] = IF call[c].index = Ready THEN accepted[s] ELSE accepted[s] + 1]
  BY DEF Advance, Write
<1>4. /\ row' \in [Sessions -> Row]
      /\ \A t \in Sessions : t # s => row'[t] = row[t]
      /\ row'[s] = [row[s] EXCEPT !.index = NextIndex(call[c].index),
                                 !.answers = Append(call[c].read.answers, call[c].index)]
  <2>1. [row[s] EXCEPT !.index = NextIndex(call[c].index),
                       !.answers = Append(call[c].read.answers, call[c].index)] \in Row
    BY <1>1, <1>2 DEF Row
  <2> QED
    BY <1>1, <1>3, <2>1
<1>5. /\ accepted' \in [Sessions -> Nat]
      /\ \A t \in Sessions : t # s => accepted'[t] = accepted[t]
      /\ accepted'[s] = IF call[c].index = Ready THEN accepted[s] ELSE accepted[s] + 1
  BY <1>1, <1>3
<1>6. /\ row'[s].index = NextIndex(call[c].index)
      /\ row'[s].answers = Append(call[c].read.answers, call[c].index)
      /\ row'[s].status = row[s].status
      /\ row'[s].slack = row[s].slack
      /\ row'[s].ticket = row[s].ticket
  BY <1>1, <1>4 DEF Row
<1> QED
  BY <1>4, <1>5, <1>6

LEMMA TypeStep ==
  ASSUME BuilderInv, Next
  PROVE  TypeOK'
<1>0. /\ TypeOK
      /\ row \in [Sessions -> Row] /\ call \in [Callers -> Call] /\ wiz \in [Wizards -> Wizard]
      /\ tickets \in Seq([session : Sessions, sections : SUBSET (1..NumQuestions)])
      /\ digest \in [pc : {"idle", "closed", "open", "post"},
                     swept : SUBSET Sessions, open : SUBSET Sessions]
      /\ accepted \in [Sessions -> Nat] /\ raced \in BOOLEAN
      /\ unheard \subseteq 1..MaxTickets /\ MaxTickets \in Nat
  BY BuilderAssumption DEF BuilderInv, TypeOK
<1>1. ASSUME NEW c \in Callers PROVE /\ CallInv(c) /\ call[c] \in Call
                                     /\ c \in Wizards => WizInv(c)
                                     /\ call[c].pc \in Working => call[c].session \in Sessions
  BY <1>0, <1>1 DEF BuilderInv, CallInv, Used
<1> USE <1>0
<1>2. ASSUME NEW c \in Messages, SlackCall(c) PROVE TypeOK'
  <2>0. c \in Callers
    BY DEF Callers
  <2>1. CASE Step(c)
    <3>1. PICK answer \in BOOLEAN : SetCall(c, [NoCall EXCEPT !.pc = "lookup", !.answer = answer])
      BY <2>1 DEF Step
    <3>2. [NoCall EXCEPT !.pc = "lookup", !.answer = answer] \in Call
      BY NoCallType DEF Call, NoCall
    <3> QED
      BY <2>0, <2>1, <3>1, <3>2, CallMoves DEF Step, TypeOK
  <2>2. CASE LookUp(c)
    <3>1. ASSUME NEW s \in OpenHere, SetCall(c, Resumed(c, s, row[s].index)), UNCHANGED raced
          PROVE  TypeOK'
      <4>1. s \in Sessions /\ row[s].index \in Index
        BY DEF OpenHere, Thread, Used, Row
      <4>2. Resumed(c, s, row[s].index) \in Call
        BY <2>0, <4>1, ResumedType
      <4> QED
        BY <2>0, <2>2, <3>1, <4>2, CallMoves DEF LookUp, TypeOK
    <3>2. ASSUME SetCall(c, [call[c] EXCEPT !.pc = "insert"]),
                 raced' = (raced \/ OpenHere # {} \/ \E d \in Messages \ {c} : At(d, "insert"))
          PROVE  TypeOK'
      <4>1. [call[c] EXCEPT !.pc = "insert"] \in Call
        BY <1>1, <2>0 DEF Call
      <4>2. raced' \in BOOLEAN
        BY <3>2
      <4> QED
        BY <2>0, <2>2, <3>2, <4>1, <4>2, CallMoves DEF LookUp, TypeOK
    <3> QED
      BY <2>2, <3>1, <3>2 DEF LookUp
  <2>3. CASE Refine(c)
    <3>1. PICK s \in Thread, index \in Index \ {0} :
            SetCall(c, [NoCall EXCEPT !.pc = "read", !.session = s, !.index = index])
      BY <2>3 DEF Refine
    <3>2. [NoCall EXCEPT !.pc = "read", !.session = s, !.index = index] \in Call
      BY NoCallType DEF Call, NoCall, Thread, Used
    <3> QED
      BY <2>0, <2>3, <3>1, <3>2, CallMoves DEF Refine, TypeOK
  <2>4. CASE Finalize(c)
    <3>1. PICK s \in Thread : SetCall(c, [NoCall EXCEPT !.pc = "check", !.session = s])
      BY <2>4 DEF Finalize
    <3>2. [NoCall EXCEPT !.pc = "check", !.session = s] \in Call
      BY NoCallType DEF Call, NoCall, Thread, Used
    <3> QED
      BY <2>0, <2>4, <3>1, <3>2, CallMoves DEF Finalize, TypeOK
  <2> QED
    BY <1>2, <2>1, <2>2, <2>3, <2>4 DEF SlackCall
<1>3. ASSUME NEW c \in Callers, ServerStep(c) PROVE TypeOK'
  <2>0. /\ call[c] \in Call /\ (call[c].pc \in Working => call[c].session \in Sessions)
        /\ Ended(c, "ok") \in Call /\ Ended(c, "error") \in Call
    BY <1>1, EndedType
  <2>1. CASE InsertFails(c) \/ UpdateRefused(c) \/ CreateFails(c)
    BY <2>0, <2>1, CallMoves DEF InsertFails, UpdateRefused, CreateFails, Fails, TypeOK
  <2>2. CASE Insert(c)
    <3>1. PICK s \in Sessions \ Used :
            /\ row' = [row EXCEPT ![s] = [NoRow EXCEPT !.status = "open", !.slack = c \in Messages]]
            /\ SetCall(c, IF c \in Messages THEN Resumed(c, s, 0)
                          ELSE [Ended(c, "ok") EXCEPT !.session = s, !.index = 1])
      BY <2>2 DEF Insert, Write
    <3>2. row' \in [Sessions -> Row]
      <4>1. [NoRow EXCEPT !.status = "open", !.slack = c \in Messages] \in Row
        <5> DEFINE mine == c \in Messages
        <5>1. mine \in BOOLEAN
          OBVIOUS
        <5> HIDE DEF mine
        <5>2. [NoRow EXCEPT !.status = "open", !.slack = mine] \in Row
          BY <5>1, NoCallType DEF Row, NoRow
        <5> QED
          BY <5>2 DEF mine
      <4> QED
        BY <3>1, <4>1
    <3>3. CASE c \in Messages
      <4>1. Resumed(c, s, 0) \in Call
        BY <3>3, ResumedType, Indices
      <4> QED
        BY <2>2, <3>1, <3>2, <3>3, <4>1, CallMoves DEF Insert, TypeOK
    <3>4. CASE c \notin Messages
      <4>1. [Ended(c, "ok") EXCEPT !.session = s, !.index = 1] \in Call
        BY <2>0, Indices DEF Call
      <4> QED
        BY <2>2, <3>1, <3>2, <3>4, <4>1, CallMoves DEF Insert, TypeOK
    <3> QED
      BY <3>3, <3>4
  <2>3. CASE ReadForAnswer(c)
    <3>1. call[c].session \in Sessions
      BY <2>0, <2>3 DEF ReadForAnswer, At, Working
    <3>2. Copy(call[c].session) \in [index : Index, answers : Seq(Index)]
      BY <3>1 DEF Copy, Row
    <3>3. [call[c] EXCEPT !.pc = "update", !.read = Copy(call[c].session)] \in Call
      BY <2>0, <3>2 DEF Call
    <3> QED
      BY <2>0, <2>3, <3>3, CallMoves DEF ReadForAnswer, TypeOK
  <2>4. CASE Update(c)
    <3>1. call[c].session \in Sessions
      BY <2>0, <2>4 DEF Update, At, Working
    <3>2. NextIndex(call[c].index) \in Index
      BY <2>0, Indices DEF Call
    <3>3. [Ended(c, "ok") EXCEPT !.index = NextIndex(call[c].index)] \in Call
      BY <2>0, <3>2 DEF Call
    <3> QED
      BY <2>4, <3>1, <3>3, CallMoves, AnswerType, NoCallType DEF Update, TypeOK
  <2>5. CASE UpdateUnseen(c)
    <3>1. call[c].session \in Sessions
      BY <2>0, <2>5 DEF UpdateUnseen, At, Working
    <3>2. wiz' \in [Wizards -> Wizard]
      BY <2>5 DEF UpdateUnseen, Wizard
    <3> QED
      BY <2>0, <2>5, <3>1, <3>2, CallMoves, AnswerType DEF UpdateUnseen, TypeOK
  <2>6. CASE Check(c)
    <3>1. call[c].session \in Sessions
      BY <2>0, <2>6 DEF Check, At, Working
    <3>2. Copy(call[c].session) \in [index : Index, answers : Seq(Index)]
      BY <3>1 DEF Copy, Row
    <3>3. [call[c] EXCEPT !.pc = "create", !.read = Copy(call[c].session)] \in Call
      BY <2>0, <3>2 DEF Call
    <3> QED
      BY <2>0, <2>6, <3>3, CallMoves DEF Check, TypeOK
  <2>7. CASE CreateTask(c)
    <3>1. call[c].session \in Sessions
      BY <2>0, <2>7 DEF CreateTask, At, Working
    <3>2. /\ tickets' \in Seq([session : Sessions, sections : SUBSET (1..NumQuestions)])
          /\ Len(tickets) + 1 \in 1..MaxTickets
      BY <2>7, <3>1, TicketAdded DEF CreateTask
    <3>3. /\ Len(tickets) + 1 \in 0..MaxTickets
          /\ NoCall.read \in [index : Index, answers : Seq(Index)]
          /\ 1 \in 1..MaxAttempts
      BY <3>2, NoCallType, BuilderAssumption DEF Call
    <3>4. [call[c] EXCEPT !.pc = "mark", !.ticket = Len(tickets) + 1, !.read = NoCall.read,
                          !.attempt = 1] \in Call
      BY <2>0, <3>3 DEF Call
    <3> QED
      BY <2>7, <3>2, <3>4, CallMoves DEF CreateTask, TypeOK
  <2>10. CASE CreateUnseen(c)
    <3>1. call[c].session \in Sessions
      BY <2>0, <2>10 DEF CreateUnseen, At, Working
    <3>2. /\ tickets' \in Seq([session : Sessions, sections : SUBSET (1..NumQuestions)])
          /\ Len(tickets) + 1 \in 1..MaxTickets
      BY <2>10, <3>1, TicketAdded DEF CreateUnseen
    <3>3. call' \in [Callers -> Call]
      BY <2>0, <2>10, CallMoves, RetryMoves DEF CreateUnseen
    <3> QED
      BY <2>10, <3>2, <3>3 DEF CreateUnseen, TypeOK
  <2>11. CASE CreateRetried(c)
    BY <2>11, RetryMoves DEF CreateRetried, TypeOK
  <2>8. CASE MarkSubmitted(c)
    <3>1. call[c].session \in Sessions
      BY <2>0, <2>8 DEF MarkSubmitted, At, Working
    <3>2. row' \in [Sessions -> Row]
      <4>1. call[c].ticket \in 0..MaxTickets /\ row[call[c].session] \in Row
        BY <2>0, <3>1 DEF Call
      <4>2. [row[call[c].session] EXCEPT !.status = "submitted", !.ticket = call[c].ticket] \in Row
        BY <4>1 DEF Row
      <4> QED
        BY <2>8, <3>1, <4>2 DEF MarkSubmitted, Write
    <3> QED
      BY <2>0, <2>8, <3>2, CallMoves DEF MarkSubmitted, TypeOK
  <2>9. CASE MarkFails(c)
    <3>1. call[c].ticket \in 1..MaxTickets
      <4>1. /\ call[c].ticket \in DOMAIN tickets /\ call[c].ticket \in 0..MaxTickets
            /\ DOMAIN tickets = 1..Len(tickets)
        BY <1>1, <2>9 DEF MarkFails, At, CallInv, Call
      <4> QED
        BY <4>1
    <3> QED
      BY <2>0, <2>9, <3>1, CallMoves DEF MarkFails, TypeOK
  <2> QED
    BY <1>3, <2>1, <2>2, <2>3, <2>4, <2>5, <2>6, <2>7, <2>8, <2>9, <2>10, <2>11 DEF ServerStep
<1>4. ASSUME NEW w \in Wizards, WizardStep(w) PROVE TypeOK'
  <2>0. w \in Callers /\ call[w] \in Call /\ wiz[w] \in Wizard /\ WizInv(w)
    BY <1>1 DEF Callers
  <2>1. CASE Boot(w)
    <3>1. [NoCall EXCEPT !.pc = "insert"] \in Call
      BY NoCallType DEF Call, NoCall
    <3> QED
      BY <2>0, <2>1, <3>1, CallMoves DEF Boot, TypeOK
  <2>2. CASE HandleSubmit(w)
    <3>1. [NoCall EXCEPT !.pc = "read", !.session = wiz[w].session, !.index = wiz[w].index] \in Call
      BY <2>0, NoCallType DEF Call, NoCall, Wizard
    <3> QED
      BY <2>0, <2>2, <3>1, CallMoves DEF HandleSubmit, TypeOK
  <2>3. CASE HandleFinalize(w)
    <3>1. [NoCall EXCEPT !.pc = "check", !.session = wiz[w].session] \in Call
      BY <2>0, NoCallType DEF Call, NoCall, Wizard
    <3> QED
      BY <2>0, <2>3, <3>1, CallMoves DEF HandleFinalize, TypeOK
  <2>4. CASE HandleReply(w)
    <3>1. wiz' \in [Wizards -> Wizard]
      BY <2>0, <2>4 DEF HandleReply, Wizard, Call
    <3> QED
      BY <2>0, <2>4, <3>1, CallMoves, NoCallType DEF HandleReply, TypeOK
  <2>5. CASE LoseReply(w)
    <3>1. wiz' \in [Wizards -> Wizard]
      BY <2>0, <2>5 DEF LoseReply, Wizard
    <3>2. call[w].ticket \in 0..MaxTickets
      BY <2>0 DEF Call
    <3>3. unheard' \subseteq 1..MaxTickets
      <4>1. unheard' = unheard \cup ({call[w].ticket} \ {0})
        BY <2>5 DEF LoseReply
      <4>2. call[w].ticket = 0 \/ call[w].ticket \in 1..MaxTickets
        BY <3>2, BuilderAssumption
      <4>3. unheard \subseteq 1..MaxTickets
        BY <2>0 DEF TypeOK
      <4> QED
        BY <4>1, <4>2, <4>3
    <3> QED
      BY <2>0, <2>5, <3>1, <3>3, CallMoves, NoCallType DEF LoseReply, TypeOK
  <2> QED
    BY <1>4, <2>1, <2>2, <2>3, <2>4, <2>5 DEF WizardStep
<1>5. ASSUME NEW s \in Sessions, AbandonSession(s) PROVE TypeOK'
  BY <1>5 DEF AbandonSession, Write, Row, TypeOK
<1>6. ASSUME DigestWorker PROVE TypeOK'
  <2>1. CASE SweepIdle
    <3>1. PICK idle \in SUBSET WithStatus("open") :
            /\ row' = [s \in Sessions |-> IF s \in idle THEN [row[s] EXCEPT !.status = "abandoned"]
                                          ELSE row[s]]
            /\ digest' = [digest EXCEPT !.pc = "closed", !.swept = idle]
      BY <2>1 DEF SweepIdle
    <3>2. row' \in [Sessions -> Row]
      BY <3>1 DEF Row
    <3>3. idle \in SUBSET Sessions
      BY DEF WithStatus, Used
    <3> QED
      BY <2>1, <3>1, <3>2, <3>3 DEF SweepIdle, TypeOK
  <2>2. CASE SweepFails
    BY <2>2 DEF SweepFails, TypeOK
  <2>4. CASE QueryClosed
    BY <2>4 DEF QueryClosed, TypeOK
  <2>5. CASE PostDigest
    BY <2>5 DEF PostDigest, TypeOK
  <2>3. CASE QueryOpen
    BY <2>3 DEF QueryOpen, WithStatus, Used, TypeOK
  <2> QED
    BY <1>6, <2>1, <2>2, <2>3, <2>4, <2>5 DEF DigestWorker
<1> QED
  BY <1>2, <1>3, <1>4, <1>5, <1>6 DEF Next

(***************************************************************************)
(* What a step does to the rows and to the list of tickets                 *)
(***************************************************************************)

OthersStay(s) ==
  \A t \in Sessions : t # s => row'[t] = row[t] /\ accepted'[t] = accepted[t]

RowsStay == row' = row /\ accepted' = accepted

OpensRow(s) ==
  /\ row[s].status = "none" /\ row[s].index = 0
  /\ row'[s].status = "open" /\ row'[s].index = 0 /\ row'[s].answers = <<>>
  /\ accepted'[s] = accepted[s]
  /\ OthersStay(s)

(* The transcript `a` that was read is in order for the index the row      *)
(* still has, whatever else was done to the row in between.                *)
AnswersRow(s) ==
  /\ row[s].status # "none"
  /\ \E a \in Seq(Index) : /\ Ordered([index |-> row[s].index, answers |-> a])
                           /\ row'[s].answers = Append(a, Expected(row[s].index))
  /\ row'[s].index = NextIndex(Expected(row[s].index))
  /\ accepted'[s] = IF row[s].index = Ready THEN accepted[s] ELSE accepted[s] + 1
  /\ row'[s].status = row[s].status /\ row'[s].slack = row[s].slack
  /\ row'[s].ticket = row[s].ticket
  /\ OthersStay(s)

KeepsAnswers(s) ==
  /\ row[s].status # "none"
  /\ row'[s].index = row[s].index /\ row'[s].answers = row[s].answers
  /\ accepted'[s] = accepted[s]
  /\ row'[s].slack = row[s].slack

SubmitsRow(s) ==
  /\ KeepsAnswers(s) /\ OthersStay(s)
  /\ row[s].index = Ready
  /\ row'[s].status = "submitted"
  /\ row'[s].ticket \in DOMAIN tickets /\ tickets[row'[s].ticket].session = s

AbandonsRow(s) ==
  KeepsAnswers(s) /\ OthersStay(s) /\ row'[s].status = "abandoned"

SweepsRows(idle) ==
  /\ \A s \in idle : /\ KeepsAnswers(s) /\ row[s].status = "open"
                     /\ row'[s].status = "abandoned"
  /\ \A s \in Sessions \ idle : row'[s] = row[s]
  /\ accepted' = accepted

RowMoves(s) == OpensRow(s) \/ AnswersRow(s) \/ SubmitsRow(s) \/ AbandonsRow(s)

LEMMA AnsweringMovesRow ==
  ASSUME BuilderInv, NEW c \in Callers, At(c, "update"), UpdateMatches(c), Advance(c)
  PROVE  call[c].session \in Sessions /\ AnswersRow(call[c].session)
<1> DEFINE s == call[c].session
           i == row[s].index
           a == call[c].read.answers
<1>1. TypeOK /\ CallInv(c) /\ call[c] \in Call /\ a \in Seq(Index)
  BY DEF BuilderInv, TypeOK, Call
<1>2. s \in Sessions /\ row[s].status # "none" /\ Ordered(call[c].read)
  BY <1>1 DEF CallInv, At, Working, Used
<1>3. i = call[c].read.index /\ call[c].index = Expected(i) /\ i \in Index
  BY <1>1, <1>2 DEF CallInv, At, UpdateMatches, TypeOK, Row
<1>4. Ordered([index |-> i, answers |-> a])
  BY <1>2, <1>3 DEF Ordered
<1>5. Expected(i) = Ready <=> i = Ready
  BY <1>3, BuilderAssumption DEF Expected, Index, Ready
<1>6. /\ row'[s].index = NextIndex(Expected(i))
      /\ row'[s].answers = Append(a, Expected(i))
      /\ row'[s].status = row[s].status /\ row'[s].slack = row[s].slack
      /\ row'[s].ticket = row[s].ticket
      /\ accepted'[s] = IF i = Ready THEN accepted[s] ELSE accepted[s] + 1
      /\ OthersStay(s)
  BY <1>1, <1>2, <1>3, <1>5, AnswerType DEF OthersStay
<1> QED
  BY <1>1, <1>2, <1>4, <1>6 DEF AnswersRow

LEMMA StepMovesRows ==
  ASSUME BuilderInv, Next
  PROVE  \/ RowsStay
         \/ tickets' = tickets /\ \E s \in Sessions : RowMoves(s)
         \/ tickets' = tickets /\ \E idle \in SUBSET Sessions : SweepsRows(idle)
<1>0. /\ TypeOK /\ row \in [Sessions -> Row] /\ accepted \in [Sessions -> Nat]
      /\ \A s \in Sessions : row[s] \in Row /\ RowInv(s)
      /\ \A c \in Callers : CallInv(c) /\ call[c] \in Call
  BY DEF BuilderInv, TypeOK
<1> USE <1>0
<1>1. CASE RowsStay
  BY <1>1
<1>2. ASSUME NEW c \in Callers, Insert(c) PROVE tickets' = tickets /\ \E s \in Sessions : RowMoves(s)
  <2>1. PICK s \in Sessions \ Used :
          row' = [row EXCEPT ![s] = [NoRow EXCEPT !.status = "open", !.slack = c \in Messages]]
    BY <1>2 DEF Insert, Write
  <2>2. /\ row'[s] = [NoRow EXCEPT !.status = "open", !.slack = c \in Messages]
        /\ \A t \in Sessions : t # s => row'[t] = row[t]
    BY <2>1
  <2>3. row[s].status = "none" /\ row[s].index = 0
    BY DEF Used, RowInv
  <2>4. OpensRow(s)
    BY <1>2, <2>2, <2>3 DEF OpensRow, OthersStay, Insert, NoRow
  <2> QED
    BY <1>2, <2>4 DEF RowMoves, Insert
<1>3. ASSUME NEW c \in Callers, Update(c) \/ UpdateUnseen(c)
      PROVE  tickets' = tickets /\ \E s \in Sessions : RowMoves(s)
  BY <1>3, AnsweringMovesRow DEF RowMoves, Update, UpdateUnseen
<1>4. ASSUME NEW c \in Callers, MarkSubmitted(c)
      PROVE  tickets' = tickets /\ \E s \in Sessions : RowMoves(s)
  <2> DEFINE s == call[c].session
  <2>1. /\ s \in Sessions /\ row[s].status # "none" /\ row[s].index = Ready
        /\ call[c].ticket \in DOMAIN tickets /\ tickets[call[c].ticket].session = s
    BY <1>4 DEF MarkSubmitted, At, CallInv, Working, Used
  <2>2. /\ row'[s] = [row[s] EXCEPT !.status = "submitted", !.ticket = call[c].ticket]
        /\ \A t \in Sessions : t # s => row'[t] = row[t]
        /\ accepted' = accepted /\ tickets' = tickets
    BY <1>4, <2>1 DEF MarkSubmitted, Write
  <2>3. SubmitsRow(s)
    BY <2>1, <2>2 DEF SubmitsRow, KeepsAnswers, OthersStay, Row
  <2> QED
    BY <2>1, <2>2, <2>3 DEF RowMoves
<1>5. ASSUME NEW s \in Sessions, AbandonSession(s)
      PROVE  tickets' = tickets /\ \E t \in Sessions : RowMoves(t)
  <2>1. /\ row'[s] = [row[s] EXCEPT !.status = "abandoned"] /\ row[s].status # "none"
        /\ \A t \in Sessions : t # s => row'[t] = row[t]
        /\ accepted' = accepted /\ tickets' = tickets
    BY <1>5 DEF AbandonSession, Write, Used
  <2>2. AbandonsRow(s)
    BY <2>1 DEF AbandonsRow, KeepsAnswers, OthersStay, Row
  <2> QED
    BY <2>1, <2>2 DEF RowMoves
<1>6. ASSUME SweepIdle
      PROVE  tickets' = tickets /\ \E idle \in SUBSET Sessions : SweepsRows(idle)
  <2>1. PICK idle \in SUBSET WithStatus("open") :
          row' = [s \in Sessions |-> IF s \in idle THEN [row[s] EXCEPT !.status = "abandoned"]
                                     ELSE row[s]]
    BY <1>6 DEF SweepIdle
  <2>2. \A s \in idle : s \in Sessions /\ row[s].status = "open"
    BY DEF WithStatus, Used
  <2>3. SweepsRows(idle)
    BY <1>6, <2>1, <2>2 DEF SweepsRows, KeepsAnswers, Row, SweepIdle
  <2> QED
    BY <1>6, <2>2, <2>3 DEF SweepIdle
<1>7. ASSUME NEW c \in Messages, SlackCall(c) PROVE RowsStay
  BY <1>7 DEF SlackCall, Step, LookUp, Refine, Finalize, RowsStay
<1>8. ASSUME NEW c \in Callers, ServerStep(c), ~Insert(c), ~Update(c), ~UpdateUnseen(c), ~MarkSubmitted(c)
      PROVE  RowsStay
  BY <1>8 DEF ServerStep, InsertFails, ReadForAnswer, UpdateRefused, Check, CreateTask,
              CreateUnseen, CreateRetried, CreateFails, MarkFails, Fails, RowsStay
<1>9. ASSUME NEW w \in Wizards, WizardStep(w) PROVE RowsStay
  BY <1>9 DEF WizardStep, Boot, HandleSubmit, HandleFinalize, HandleReply, LoseReply, RowsStay
<1>10. ASSUME DigestWorker, ~SweepIdle PROVE RowsStay
  BY <1>10 DEF DigestWorker, SweepFails, QueryClosed, QueryOpen, PostDigest, RowsStay
<1> QED
  BY <1>2, <1>3, <1>4, <1>5, <1>6, <1>7, <1>8, <1>9, <1>10 DEF Next

(* A ticket that exists stays what it is.                                  *)
LEMMA TicketsStay ==
  ASSUME BuilderInv, Next
  PROVE  /\ DOMAIN tickets \subseteq DOMAIN tickets'
         /\ \A i \in DOMAIN tickets : tickets'[i] = tickets[i]
<1>0. tickets \in Seq([session : Sessions, sections : SUBSET (1..NumQuestions)])
  BY DEF BuilderInv, TypeOK
<1>1. ASSUME NEW c \in Callers, CreateTask(c) \/ CreateUnseen(c)
      PROVE  /\ DOMAIN tickets \subseteq DOMAIN tickets'
             /\ \A i \in DOMAIN tickets : tickets'[i] = tickets[i]
  <2>1. call[c].session \in Sessions
    BY <1>1 DEF BuilderInv, CallInv, Working, CreateTask, CreateUnseen, At, Used
  <2> QED
    BY <1>1, <2>1, TicketAdded DEF CreateTask, CreateUnseen, BuilderInv
<1>2. ASSUME NEW c \in Messages, SlackCall(c) PROVE tickets' = tickets
  BY <1>2 DEF SlackCall, Step, LookUp, Refine, Finalize
<1>3. ASSUME NEW c \in Callers, ServerStep(c), ~CreateTask(c), ~CreateUnseen(c)
      PROVE  tickets' = tickets
  BY <1>3 DEF ServerStep, Insert, InsertFails, ReadForAnswer, Update, UpdateRefused, UpdateUnseen,
              Check, CreateRetried, CreateFails, MarkSubmitted, MarkFails, Fails
<1>4. ASSUME NEW w \in Wizards, WizardStep(w) PROVE tickets' = tickets
  BY <1>4 DEF WizardStep, Boot, HandleSubmit, HandleFinalize, HandleReply, LoseReply
<1>5. ASSUME NEW s \in Sessions, AbandonSession(s) PROVE tickets' = tickets
  BY <1>5 DEF AbandonSession
<1>6. ASSUME DigestWorker PROVE tickets' = tickets
  BY <1>6 DEF DigestWorker, SweepIdle, SweepFails, QueryClosed, QueryOpen, PostDigest
<1> QED
  BY <1>1, <1>2, <1>3, <1>4, <1>5, <1>6 DEF Next

LEMMA StepGrows ==
  ASSUME BuilderInv, Next
  PROVE  Grows
<1>1. /\ \A s \in Sessions : row[s] \in Row
      /\ TypeOK
  BY DEF BuilderInv, TypeOK
<1>2. \A s \in Sessions : /\ row[s].status # "none" => row'[s].status # "none"
                          /\ row[s].index = Ready => row'[s].index = Ready
  <2>1. CASE RowsStay
    BY <2>1 DEF RowsStay
  <2>2. ASSUME NEW t \in Sessions, RowMoves(t), NEW s \in Sessions
        PROVE  /\ row[s].status # "none" => row'[s].status # "none"
               /\ row[s].index = Ready => row'[s].index = Ready
    <3>1. CASE s # t
      BY <2>2, <3>1 DEF RowMoves, OpensRow, AnswersRow, SubmitsRow, AbandonsRow, OthersStay
    <3>2. CASE s = t
      <4>1. Ready # 0 /\ NextIndex(Expected(Ready)) = Ready
        BY BuilderAssumption DEF Ready, NextIndex, Expected
      <4> QED
        BY <2>2, <3>2, <4>1
           DEF RowMoves, OpensRow, AnswersRow, SubmitsRow, AbandonsRow, KeepsAnswers
    <3> QED
      BY <3>1, <3>2
  <2>3. ASSUME NEW idle \in SUBSET Sessions, SweepsRows(idle), NEW s \in Sessions
        PROVE  /\ row[s].status # "none" => row'[s].status # "none"
               /\ row[s].index = Ready => row'[s].index = Ready
    BY <2>3 DEF SweepsRows, KeepsAnswers
  <2> QED
    BY <2>1, <2>2, <2>3, StepMovesRows
<1> QED
  BY <1>2, TicketsStay DEF Grows, Used

(***************************************************************************)
(* Every step keeps the invariant                                          *)
(***************************************************************************)

LEMMA RowsKept ==
  ASSUME BuilderInv, Next, NEW s \in Sessions
  PROVE  RowInv(s)'
<1>0. /\ TypeOK /\ RowInv(s) /\ row[s] \in Row /\ row[s].index \in Index
      /\ NumQuestions \in Nat /\ Answered(0) = 0 /\ accepted[s] \in Nat
  BY Indices DEF BuilderInv, TypeOK, Row, Answered, Ready
<1>1. CASE row'[s] = row[s] /\ accepted'[s] = accepted[s]
  BY <1>0, <1>1, TicketsStay DEF RowInv, Copy, Ordered
<1>2. CASE tickets' = tickets /\ OpensRow(s)
  <2>1. Ordered([index |-> 0, answers |-> <<>>])
    BY <1>0 DEF Ordered
  <2>2. Ordered(Copy(s))'
    BY <1>2, <2>1 DEF OpensRow, Copy, Ordered
  <2> QED
    BY <1>0, <1>2, <2>2 DEF RowInv, OpensRow, Ready, Answered
<1>3. CASE tickets' = tickets /\ AnswersRow(s)
  <2> DEFINE i == row[s].index
  <2>1. PICK a \in Seq(Index) : /\ Ordered([index |-> i, answers |-> a])
                                /\ row'[s].answers = Append(a, Expected(i))
    BY <1>3 DEF AnswersRow
  <2>2. Ordered([index |-> NextIndex(Expected(i)), answers |-> Append(a, Expected(i))])
    BY <1>0, <2>1, AppendInOrder
  <2>3. Ordered(Copy(s))'
    BY <1>3, <2>1, <2>2 DEF AnswersRow, Copy, Ordered
  <2>4. /\ Answered(NextIndex(Expected(i))) = IF i = Ready THEN NumQuestions ELSE Answered(i) + 1
        /\ i = Ready => Answered(i) = NumQuestions
    BY <1>0, NextAnswer DEF Answered
  <2>5. accepted'[s] = Answered(row'[s].index)
    BY <1>0, <1>3, <2>4 DEF RowInv, AnswersRow
  <2> QED
    BY <1>0, <1>3, <2>3, <2>5 DEF RowInv, AnswersRow
<1>4. CASE tickets' = tickets /\ SubmitsRow(s)
  BY <1>0, <1>4 DEF RowInv, SubmitsRow, KeepsAnswers, Copy, Ordered
<1>5. CASE tickets' = tickets /\ KeepsAnswers(s) /\ row'[s].status = "abandoned"
  BY <1>0, <1>5 DEF RowInv, KeepsAnswers, Copy, Ordered
<1>6. ASSUME NEW t \in Sessions, RowMoves(t), tickets' = tickets PROVE RowInv(s)'
  <2>1. CASE s # t
    BY <1>1, <1>6, <2>1 DEF RowMoves, OpensRow, AnswersRow, SubmitsRow, AbandonsRow, OthersStay
  <2>2. CASE s = t
    BY <1>2, <1>3, <1>4, <1>5, <1>6, <2>2 DEF RowMoves, AbandonsRow
  <2> QED
    BY <2>1, <2>2
<1>7. ASSUME NEW idle \in SUBSET Sessions, SweepsRows(idle), tickets' = tickets PROVE RowInv(s)'
  <2>1. CASE s \in idle
    BY <1>5, <1>7, <2>1 DEF SweepsRows
  <2>2. CASE s \notin idle
    BY <1>1, <1>7, <2>2 DEF SweepsRows
  <2> QED
    BY <2>1, <2>2
<1> QED
  BY <1>1, <1>6, <1>7, StepMovesRows DEF RowsStay

(* A call that does not move can rely on what it could rely on before.     *)
LEMMA WaitingCallKept ==
  ASSUME BuilderInv, Grows, NEW c \in Callers, call'[c] = call[c]
  PROVE  CallInv(c)'
<1>1. CallInv(c)
  BY DEF BuilderInv
<1> QED
  BY <1>1 DEF CallInv, Grows, Used, Working

LEMMA EndedCallKept ==
  ASSUME NEW c \in Callers, call'[c].pc \in {"idle", "lookup", "insert", "reply"}
  PROVE  CallInv(c)'
BY DEF CallInv, Working

(* A call that moves: what it may rely on at its next point.               *)
LEMMA MovingCallKept ==
  ASSUME BuilderInv, Next, NEW c \in Callers,
         \/ SlackCall(c) /\ c \in Messages
         \/ ServerStep(c)
         \/ WizardStep(c) /\ c \in Wizards
  PROVE  CallInv(c)'
<1>0. /\ TypeOK /\ CallInv(c) /\ Grows /\ TypeOK'
      /\ call \in [Callers -> Call] /\ call[c] \in Call
      /\ \A s \in Sessions : row[s] \in Row /\ RowInv(s)
      /\ c \in Wizards => c \notin Messages /\ WizInv(c) /\ wiz[c] \in Wizard
  BY StepGrows, TypeStep, BuilderAssumption DEF BuilderInv, TypeOK
<1>1. CASE SlackCall(c) /\ c \in Messages
  <2>1. CASE Step(c)
    <3>1. PICK answer \in BOOLEAN : SetCall(c, [NoCall EXCEPT !.pc = "lookup", !.answer = answer])
      BY <2>1 DEF Step
    <3>2. call'[c] = [NoCall EXCEPT !.pc = "lookup", !.answer = answer]
      BY <1>0, <3>1 DEF SetCall
    <3>3. call'[c].pc = "lookup"
      BY <3>2 DEF NoCall
    <3> QED
      BY <3>3, EndedCallKept
  <2>2. CASE LookUp(c)
    <3>1. ASSUME NEW s \in OpenHere, SetCall(c, Resumed(c, s, row[s].index)) PROVE CallInv(c)'
      <4>1. s \in Used /\ s \in Sessions /\ row[s].index \in Index
        BY <1>0 DEF OpenHere, Thread, Used, Row
      <4>2. CASE call'[c].pc = "idle"
        BY <4>2, EndedCallKept
      <4>3. CASE call'[c].pc = "read" /\ call'[c].session = s
        BY <1>0, <4>1, <4>3 DEF CallInv, Grows, Working
      <4> QED
        BY <1>0, <1>1, <3>1, <4>1, <4>2, <4>3, CallMoves, ResumedType
    <3>2. ASSUME SetCall(c, [call[c] EXCEPT !.pc = "insert"]) PROVE CallInv(c)'
      <4>1. call'[c].pc = "insert"
        BY <1>0, <3>2, CallMoves DEF Call
      <4> QED
        BY <4>1, EndedCallKept
    <3> QED
      BY <2>2, <3>1, <3>2 DEF LookUp
  <2>3. CASE Refine(c)
    <3>1. PICK s \in Thread, index \in Index \ {0} :
            SetCall(c, [NoCall EXCEPT !.pc = "read", !.session = s, !.index = index])
      BY <2>3 DEF Refine
    <3>3. call'[c] = [NoCall EXCEPT !.pc = "read", !.session = s, !.index = index]
      BY <1>0, <3>1 DEF SetCall
    <3>2. call'[c].pc = "read" /\ call'[c].session = s
      BY <3>3 DEF NoCall
    <3> QED
      BY <1>0, <3>2 DEF CallInv, Grows, Working, Thread
  <2>4. CASE Finalize(c)
    <3>1. PICK s \in Thread : SetCall(c, [NoCall EXCEPT !.pc = "check", !.session = s])
      BY <2>4 DEF Finalize
    <3>3. call'[c] = [NoCall EXCEPT !.pc = "check", !.session = s]
      BY <1>0, <3>1 DEF SetCall
    <3>2. call'[c].pc = "check" /\ call'[c].session = s
      BY <3>3 DEF NoCall
    <3> QED
      BY <1>0, <3>2 DEF CallInv, Grows, Working, Thread
  <2> QED
    BY <1>1, <2>1, <2>2, <2>3, <2>4 DEF SlackCall
<1>2. CASE ServerStep(c)
  <2>0. /\ Ended(c, "ok").pc \in {"idle", "reply"} /\ Ended(c, "error").pc \in {"idle", "reply"}
        /\ Ended(c, "ok") \in Call
    BY <1>0, EndedType
  <2>1. CASE InsertFails(c) \/ UpdateRefused(c) \/ CreateFails(c) \/ UpdateUnseen(c)
             \/ MarkSubmitted(c) \/ MarkFails(c)
    <3>1. SetCall(c, Ended(c, "error")) \/ SetCall(c, Ended(c, "ok"))
      BY <2>1 DEF InsertFails, UpdateRefused, CreateFails, UpdateUnseen, MarkSubmitted, MarkFails,
                  Fails
    <3> QED
      BY <1>0, <2>0, <3>1, CallMoves, EndedCallKept
  <2>2. CASE Insert(c)
    <3>1. PICK s \in Sessions \ Used :
            /\ row' = [row EXCEPT ![s] = [NoRow EXCEPT !.status = "open", !.slack = c \in Messages]]
            /\ SetCall(c, IF c \in Messages THEN Resumed(c, s, 0)
                          ELSE [Ended(c, "ok") EXCEPT !.session = s, !.index = 1])
      BY <2>2 DEF Insert, Write
    <3>2. row'[s].status = "open"
      BY <1>0, <3>1 DEF NoRow, TypeOK
    <3>3. CASE c \in Messages
      <4>1. call'[c] = Resumed(c, s, 0)
        BY <1>0, <3>1, <3>3, CallMoves
      <4>3. CASE call'[c].pc = "idle"
        BY <4>3, EndedCallKept
      <4>4. CASE call'[c].pc = "read" /\ call'[c].session = s
        BY <3>1, <3>2, <4>4 DEF CallInv, Working, Used
      <4> QED
        BY <1>0, <3>3, <4>1, <4>3, <4>4, ResumedType, Indices
    <3>4. CASE c \notin Messages
      <4>2. call'[c] = [Ended(c, "ok") EXCEPT !.session = s, !.index = 1]
        BY <1>0, <3>1, <3>4 DEF SetCall
      <4>1. call'[c].pc = "reply"
        BY <1>0, <2>0, <3>4, <4>2, EndedType DEF Call
      <4> QED
        BY <4>1, EndedCallKept
    <3> QED
      BY <3>3, <3>4
  <2>3. CASE ReadForAnswer(c)
    <3> DEFINE s == call[c].session
    <3>1. s \in Used /\ s \in Sessions
      BY <1>0, <2>3 DEF ReadForAnswer, At, CallInv, Working, Used
    <3>2. CASE row[s].status = "open" /\ call[c].index = Expected(row[s].index)
      <4>1. call' = [call EXCEPT ![c] = [call[c] EXCEPT !.pc = "update", !.read = Copy(s)]]
        BY <2>3, <3>2 DEF ReadForAnswer, SetCall
      <4>2. /\ call'[c].pc = "update" /\ call'[c].session = s /\ call'[c].read = Copy(s)
            /\ call'[c].index = call[c].index
        BY <1>0, <4>1 DEF Call
      <4>3. Ordered(Copy(s)) /\ Copy(s).index = row[s].index
        BY <1>0, <3>1 DEF RowInv, Copy
      <4> QED
        BY <1>0, <3>1, <3>2, <4>2, <4>3 DEF CallInv, Grows, Working, Ordered
    <3>3. CASE ~(row[s].status = "open" /\ call[c].index = Expected(row[s].index))
      <4>1. SetCall(c, Ended(c, "error"))
        BY <2>3, <3>3 DEF ReadForAnswer
      <4> QED
        BY <1>0, <2>0, <4>1, CallMoves, EndedCallKept
    <3> QED
      BY <3>2, <3>3
  <2>4. CASE Update(c)
    <3>1. CASE c \in Messages
      <4>1. call'[c].pc = "idle"
        BY <1>0, <2>4, <3>1, CallMoves DEF Update, NoCall
      <4> QED
        BY <4>1, EndedCallKept
    <3>2. CASE c \notin Messages
      <4>1. call'[c].pc = "reply"
        BY <1>0, <2>0, <2>4, <3>2, CallMoves, EndedType DEF Update, Call
      <4> QED
        BY <4>1, EndedCallKept
    <3> QED
      BY <3>1, <3>2
  <2>5. CASE Check(c)
    <3> DEFINE s == call[c].session
    <3>1. s \in Used /\ s \in Sessions
      BY <1>0, <2>5 DEF Check, At, CallInv, Working, Used
    <3>2. CASE row[s].index = Ready
      <4>1. call' = [call EXCEPT ![c] = [call[c] EXCEPT !.pc = "create", !.read = Copy(s)]]
        BY <2>5, <3>2 DEF Check, SetCall
      <4>2. call'[c].pc = "create" /\ call'[c].session = s /\ call'[c].read = Copy(s)
        BY <1>0, <4>1 DEF Call
      <4>3. Ordered(Copy(s)) /\ Copy(s).index = row[s].index
        BY <1>0, <3>1 DEF RowInv, Copy
      <4> QED
        BY <1>0, <3>1, <3>2, <4>2, <4>3 DEF CallInv, Grows, Working, Ordered
    <3>3. CASE row[s].index # Ready
      <4>1. SetCall(c, Ended(c, "error"))
        BY <2>5, <3>3 DEF Check
      <4> QED
        BY <1>0, <2>0, <4>1, CallMoves, EndedCallKept
    <3> QED
      BY <3>2, <3>3
  <2>6. CASE CreateTask(c)
    <3> DEFINE s == call[c].session
    <3>1. s \in Used /\ s \in Sessions /\ row[s].index = Ready
      BY <1>0, <2>6 DEF CreateTask, At, CallInv, Working, Used
    <3>2. call' = [call EXCEPT ![c] = [call[c] EXCEPT !.pc = "mark", !.ticket = Len(tickets) + 1,
                                                      !.read = NoCall.read, !.attempt = 1]]
      BY <2>6 DEF CreateTask, SetCall
    <3>3. call'[c].pc = "mark" /\ call'[c].session = s /\ call'[c].ticket = Len(tickets) + 1
      BY <1>0, <3>2 DEF Call
    <3>4. /\ Len(tickets) + 1 \in DOMAIN tickets' /\ tickets'[Len(tickets) + 1].session = s
      BY <1>0, <2>6, <3>1, TicketAdded DEF CreateTask
    <3> QED
      BY <1>0, <3>1, <3>3, <3>4 DEF CallInv, Grows, Working
  <2>7. CASE (CreateUnseen(c) \/ CreateRetried(c)) /\ TriesAgain(c)
    <3>1. /\ call'[c].pc = "create" /\ call[c].pc = "create"
          /\ call'[c].session = call[c].session /\ call'[c].read = call[c].read
      BY <1>0, <2>7, RetryMoves DEF CreateUnseen, CreateRetried, At
    <3>2. call[c].session \in Used /\ call[c].session \in Sessions
      BY <1>0, <3>1 DEF CallInv, Working, Used
    <3>3. row'[call[c].session].index = Ready
      BY <1>0, <3>1, <3>2 DEF CallInv, Grows
    <3> QED
      BY <1>0, <3>1, <3>2, <3>3 DEF CallInv, Grows, Working
  <2>8. CASE CreateUnseen(c) /\ SetCall(c, Ended(c, "error"))
    BY <1>0, <2>0, <2>8, CallMoves, EndedCallKept
  <2> QED
    BY <1>2, <2>1, <2>2, <2>3, <2>4, <2>5, <2>6, <2>7, <2>8
       DEF ServerStep, CreateUnseen, CreateRetried
<1>3. CASE WizardStep(c) /\ c \in Wizards
  <2>1. CASE Boot(c)
    BY <1>0, <1>3, <2>1, CallMoves, EndedCallKept DEF Boot, NoCall
  <2>2. CASE HandleSubmit(c)
    <3>1. call'[c] = [NoCall EXCEPT !.pc = "read", !.session = wiz[c].session,
                                    !.index = wiz[c].index]
      BY <1>0, <2>2 DEF HandleSubmit, SetCall
    <3>2. call'[c].pc = "read" /\ call'[c].session = wiz[c].session
      BY <3>1 DEF NoCall
    <3>3. wiz[c].session \in Used
      BY <1>0, <1>3, <2>2 DEF WizInv, HandleSubmit
    <3> QED
      BY <1>0, <3>2, <3>3 DEF CallInv, Grows, Working
  <2>3. CASE HandleFinalize(c)
    <3>3. call'[c] = [NoCall EXCEPT !.pc = "check", !.session = wiz[c].session]
      BY <1>0, <2>3 DEF HandleFinalize, SetCall
    <3>1. call'[c].pc = "check" /\ call'[c].session = wiz[c].session
      BY <3>3 DEF NoCall
    <3>2. wiz[c].session \in Used
      BY <1>0, <1>3, <2>3 DEF WizInv, HandleFinalize, Wizard
    <3> QED
      BY <1>0, <3>1, <3>2 DEF CallInv, Grows, Working
  <2>4. CASE HandleReply(c) \/ LoseReply(c)
    <3>1. SetCall(c, NoCall)
      BY <2>4 DEF HandleReply, LoseReply
    <3>2. call'[c].pc = "idle"
      BY <1>0, <3>1, CallMoves DEF NoCall
    <3> QED
      BY <3>2, EndedCallKept
  <2> QED
    BY <1>3, <2>1, <2>2, <2>3, <2>4 DEF WizardStep
<1> QED
  BY <1>1, <1>2, <1>3

LEMMA WizardKept ==
  ASSUME BuilderInv, Next, NEW w \in Wizards
  PROVE  WizInv(w)'
<1>0. /\ TypeOK /\ WizInv(w) /\ CallInv(w) /\ Grows /\ TypeOK'
      /\ call \in [Callers -> Call] /\ call[w] \in Call /\ w \in Callers /\ w \notin Messages
      /\ wiz \in [Wizards -> Wizard] /\ wiz[w] \in Wizard /\ 0 \notin Sessions
  <2>1. w \in Callers /\ w \notin Messages /\ 0 \notin Sessions
    BY BuilderAssumption DEF Callers, Sessions
  <2> QED
    BY <2>1, StepGrows, TypeStep DEF BuilderInv, TypeOK
<1> DEFINE Page == wiz'[w].session = wiz[w].session /\ wiz'[w].ready = wiz[w].ready
<1>1. ASSUME Page, call'[w] = call[w] PROVE WizInv(w)'
  BY <1>0, <1>1 DEF WizInv, Grows, Working, Answers
<1>2. ASSUME Page, call'[w].pc \in {"idle", "lookup"} PROVE WizInv(w)'
  BY <1>0, <1>2 DEF WizInv, Grows, Working, Answers
<1>3. ASSUME Page, call'[w].pc \in Working, call'[w].session = wiz[w].session PROVE WizInv(w)'
  BY <1>0, <1>3 DEF WizInv, Grows, Working, Answers
<1>4. ASSUME Page, call'[w].pc = "reply", call'[w].result = "error" PROVE WizInv(w)'
  BY <1>0, <1>4 DEF WizInv, Grows, Working, Answers
<1>5. ASSUME Page, call'[w].pc = "reply", call[w].pc \in Working, call'[w].session = call[w].session
      PROVE  WizInv(w)'
  BY <1>0, <1>5 DEF WizInv, CallInv, Grows, Working, Answers
<1>6. ASSUME NEW c \in Callers, ServerStep(c) PROVE WizInv(w)'
  <2>0. Page /\ (c # w => call'[w] = call[w])
    <3>1. Page
      BY <1>0, <1>6
         DEF ServerStep, Insert, InsertFails, ReadForAnswer, Update, UpdateRefused, UpdateUnseen,
             Check, CreateTask, CreateUnseen, CreateRetried, TriesAgain, CreateFails,
             MarkSubmitted, MarkFails, Fails, Wizard
    <3>2. \E new : SetCall(c, new)
      BY <1>6
         DEF ServerStep, Insert, InsertFails, ReadForAnswer, Update, UpdateRefused, UpdateUnseen,
             Check, CreateTask, CreateUnseen, CreateRetried, TriesAgain, CreateFails,
             MarkSubmitted, MarkFails, Fails
    <3> QED
      BY <1>0, <3>1, <3>2, CallMoves
  <2>1. CASE c # w
    BY <1>1, <2>0, <2>1
  <2>2. CASE c = w
    <3>0. /\ Ended(w, "ok") \in Call /\ Ended(w, "error") \in Call
          /\ Ended(w, "ok").pc = "reply" /\ Ended(w, "ok").session = call[w].session
          /\ Ended(w, "error").pc = "reply" /\ Ended(w, "error").result = "error"
          /\ Ended(w, "ok").ticket = call[w].ticket
      BY <1>0, EndedType
    <3>1. CASE SetCall(w, Ended(w, "error"))
      <4>1. call'[w] = Ended(w, "error")
        BY <1>0, <3>1 DEF SetCall
      <4> QED
        BY <1>4, <2>0, <3>0, <4>1
    <3>2. CASE Insert(w)
      <4>1. PICK s \in Sessions \ Used :
              /\ row' = [row EXCEPT ![s] = [NoRow EXCEPT !.status = "open", !.slack = w \in Messages]]
              /\ SetCall(w, IF w \in Messages THEN Resumed(w, s, 0)
                            ELSE [Ended(w, "ok") EXCEPT !.session = s, !.index = 1])
        BY <3>2 DEF Insert, Write
      <4>2. row'[s].status = "open"
        BY <1>0, <4>1 DEF NoRow, TypeOK
      <4>3. call'[w] = [Ended(w, "ok") EXCEPT !.session = s, !.index = 1]
        BY <1>0, <4>1 DEF SetCall
      <4>4. /\ call'[w].pc = "reply" /\ call'[w].session = s /\ call'[w].index = 1
            /\ call'[w].ticket = call[w].ticket
        BY <3>0, <4>3 DEF Call
      <4>5. call[w].ticket = 0
        BY <1>0, <3>2 DEF Insert, At, WizInv
      <4> QED
        BY <1>0, <2>0, <4>1, <4>2, <4>4, <4>5 DEF WizInv, Grows, Working, Answers, Used
    <3>3. CASE Update(w)
      <4>1. call'[w] = [Ended(w, "ok") EXCEPT !.index = NextIndex(call[w].index)]
        BY <1>0, <3>3 DEF Update, SetCall
      <4>2. call'[w].pc = "reply" /\ call'[w].session = call[w].session
        BY <3>0, <4>1 DEF Call
      <4> QED
        BY <1>5, <2>0, <3>3, <4>2 DEF Update, At, Working
    <3>4. CASE MarkSubmitted(w)
      <4>1. call'[w] = Ended(w, "ok")
        BY <1>0, <3>4 DEF MarkSubmitted, SetCall
      <4> QED
        BY <1>5, <2>0, <3>0, <3>4, <4>1 DEF MarkSubmitted, At, Working
    <3>5. CASE ReadForAnswer(w) /\ SetCall(w, [call[w] EXCEPT !.pc = "update", !.read = Copy(call[w].session)])
      <4>1. call'[w] = [call[w] EXCEPT !.pc = "update", !.read = Copy(call[w].session)]
        BY <1>0, <3>5 DEF SetCall
      <4>2. call'[w].pc = "update" /\ call'[w].session = call[w].session
        BY <1>0, <4>1 DEF Call
      <4> QED
        BY <1>0, <1>3, <2>0, <3>5, <4>2 DEF ReadForAnswer, At, Working, WizInv
    <3>6. CASE Check(w) /\ SetCall(w, [call[w] EXCEPT !.pc = "create", !.read = Copy(call[w].session)])
      <4>1. call'[w] = [call[w] EXCEPT !.pc = "create", !.read = Copy(call[w].session)]
        BY <1>0, <3>6 DEF SetCall
      <4>2. call'[w].pc = "create" /\ call'[w].session = call[w].session
        BY <1>0, <4>1 DEF Call
      <4> QED
        BY <1>0, <1>3, <2>0, <3>6, <4>2 DEF Check, At, Working, WizInv
    <3>7. CASE CreateTask(w)
      <4>1. call'[w] = [call[w] EXCEPT !.pc = "mark", !.ticket = Len(tickets) + 1,
                                       !.read = NoCall.read, !.attempt = 1]
        BY <1>0, <3>7 DEF CreateTask, SetCall
      <4>2. call'[w].pc = "mark" /\ call'[w].session = call[w].session
        BY <1>0, <4>1 DEF Call
      <4> QED
        BY <1>0, <1>3, <2>0, <3>7, <4>2 DEF CreateTask, At, Working, WizInv
    <3>8. CASE (CreateUnseen(w) \/ CreateRetried(w)) /\ TriesAgain(w)
      <4>1. /\ call'[w].pc = "create" /\ call[w].pc = "create"
            /\ call'[w].session = call[w].session
        BY <1>0, <3>8, RetryMoves DEF CreateUnseen, CreateRetried, At
      <4> QED
        BY <1>0, <1>3, <2>0, <4>1 DEF Working, WizInv
    <3> QED
      BY <1>6, <2>2, <3>1, <3>2, <3>3, <3>4, <3>5, <3>6, <3>7, <3>8
         DEF ServerStep, InsertFails, ReadForAnswer, UpdateRefused, UpdateUnseen, Check,
             CreateUnseen, CreateRetried, CreateFails, MarkFails, Fails
  <2> QED
    BY <2>1, <2>2
<1>7. ASSUME NEW v \in Wizards, WizardStep(v) PROVE WizInv(w)'
  <2>0. v \in Callers
    BY DEF Callers
  <2>1. CASE v # w
    <3>1. wiz'[w] = wiz[w]
      BY <1>0, <1>7, <2>1
         DEF WizardStep, Boot, HandleSubmit, HandleFinalize, HandleReply, LoseReply
    <3>2. \E new : SetCall(v, new)
      BY <1>7 DEF WizardStep, Boot, HandleSubmit, HandleFinalize, HandleReply, LoseReply
    <3> QED
      BY <1>0, <1>1, <2>0, <2>1, <3>1, <3>2, CallMoves
  <2>2. CASE v = w
    <3>1. CASE Boot(w)
      <4>1. call'[w] = [NoCall EXCEPT !.pc = "insert"] /\ wiz' = wiz
        BY <1>0, <3>1 DEF Boot, SetCall
      <4>2. call'[w].pc = "insert" /\ call'[w].ticket = 0
        BY <4>1 DEF NoCall
      <4> QED
        BY <1>0, <4>1, <4>2 DEF WizInv, Grows, Working, Answers
    <3>2. CASE HandleSubmit(w)
      <4>1. /\ call'[w] = [NoCall EXCEPT !.pc = "read", !.session = wiz[w].session,
                                         !.index = wiz[w].index]
            /\ wiz' = wiz
        BY <1>0, <3>2 DEF HandleSubmit, SetCall
      <4>2. call'[w].pc = "read" /\ call'[w].session = wiz[w].session
        BY <4>1 DEF NoCall
      <4> QED
        BY <1>3, <4>1, <4>2 DEF Working
    <3>3. CASE HandleFinalize(w)
      <4>1. /\ call'[w] = [NoCall EXCEPT !.pc = "check", !.session = wiz[w].session]
            /\ wiz' = wiz
        BY <1>0, <3>3 DEF HandleFinalize, SetCall
      <4>2. call'[w].pc = "check" /\ call'[w].session = wiz[w].session
        BY <4>1 DEF NoCall
      <4> QED
        BY <1>3, <4>1, <4>2 DEF Working
    <3>4. CASE HandleReply(w)
      <4>1. call'[w].pc = "idle"
        BY <1>0, <3>4 DEF HandleReply, SetCall, NoCall
      <4>2. /\ wiz'[w].session \in Used \cup {0}
            /\ wiz'[w].ready = TRUE => wiz'[w].session # 0
        <5>1. CASE call[w].result = "error"
          BY <1>0, <3>4, <5>1 DEF HandleReply, WizInv
        <5>2. CASE call[w].result # "error"
          <6>0. /\ call[w].session \in Used /\ call[w].session \in Sessions
                /\ \/ call[w].session = wiz[w].session
                   \/ call[w].index = 1 /\ call[w].ticket = 0
            BY <1>0, <3>4, <5>2 DEF HandleReply, At, WizInv, Answers, Used
          <6>1. CASE call[w].ticket # 0
            BY <1>0, <3>4, <5>2, <6>0, <6>1 DEF HandleReply, WizInv, Wizard
          <6>2. CASE call[w].ticket = 0 /\ call[w].index = Ready
            BY <1>0, <3>4, <5>2, <6>0, <6>2 DEF HandleReply, WizInv, Wizard, Ready
          <6>3. CASE call[w].ticket = 0 /\ call[w].index # Ready
            BY <1>0, <3>4, <5>2, <6>0, <6>3 DEF HandleReply, WizInv, Wizard
          <6> QED
            BY <6>1, <6>2, <6>3
        <5> QED
          BY <5>1, <5>2
      <4> QED
        BY <1>0, <4>1, <4>2 DEF WizInv, Grows, Working, Answers
    <3>5. CASE LoseReply(w)
      <4>1. call'[w].pc = "idle" /\ Page
        BY <1>0, <3>5 DEF LoseReply, SetCall, NoCall, Wizard
      <4> QED
        BY <1>2, <4>1
    <3> QED
      BY <1>7, <2>2, <3>1, <3>2, <3>3, <3>4, <3>5 DEF WizardStep
  <2> QED
    BY <2>1, <2>2
<1>8. ASSUME NEW c \in Messages, SlackCall(c) PROVE WizInv(w)'
  <2>1. wiz' = wiz /\ \E new : SetCall(c, new)
    BY <1>8 DEF SlackCall, Step, LookUp, Refine, Finalize
  <2> QED
    BY <1>0, <1>1, <2>1, CallMoves DEF Callers
<1>9. ASSUME NEW s \in Sessions, AbandonSession(s) PROVE WizInv(w)'
  BY <1>1, <1>9 DEF AbandonSession
<1>10. ASSUME DigestWorker PROVE WizInv(w)'
  BY <1>1, <1>10 DEF DigestWorker, SweepIdle, SweepFails, QueryClosed, QueryOpen, PostDigest
<1> QED
  BY <1>6, <1>7, <1>8, <1>9, <1>10 DEF Next

LEMMA SectionsKept ==
  ASSUME BuilderInv, Next, NEW i \in DOMAIN tickets'
  PROVE  tickets'[i].sections = 1..NumQuestions
<1>0. /\ TypeOK /\ \A k \in DOMAIN tickets : tickets[k].sections = 1..NumQuestions
      /\ tickets \in Seq([session : Sessions, sections : SUBSET (1..NumQuestions)])
  BY DEF BuilderInv, TypeOK
<1>1. ASSUME NEW c \in Callers, CreateTask(c) \/ CreateUnseen(c)
      PROVE  tickets'[i].sections = 1..NumQuestions
  <2>1. /\ call[c] \in Call /\ CallInv(c) /\ call[c].session \in Sessions
        /\ call[c].read.answers \in Seq(Index) /\ call[c].pc = "create" /\ MakeTicket(c)
    BY <1>0, <1>1
       DEF BuilderInv, CallInv, TypeOK, Call, CreateTask, CreateUnseen, At, Working, Used
  <2>2. Ordered([index |-> Ready, answers |-> call[c].read.answers])
    BY <2>1 DEF CallInv, Ordered
  <2>3. Sections(call[c].read.answers) = 1..NumQuestions
    BY <2>1, <2>2, ReadyIsComplete
  <2> QED
    BY <1>0, <2>1, <2>3, TicketAdded
<1>2. CASE tickets' = tickets
  BY <1>0, <1>2
<1> QED
  BY <1>1, <1>2
     DEF Next, SlackCall, Step, LookUp, Refine, Finalize, ServerStep, Insert, InsertFails,
         ReadForAnswer, Update, UpdateRefused, UpdateUnseen, Check, CreateRetried, CreateFails, MarkSubmitted,
         MarkFails, Fails, WizardStep, Boot, HandleSubmit, HandleFinalize, HandleReply, LoseReply,
         AbandonSession, DigestWorker, SweepIdle, SweepFails, QueryClosed, QueryOpen, PostDigest

LEMMA CallsKept ==
  ASSUME BuilderInv, Next, NEW c \in Callers
  PROVE  CallInv(c)'
<1>0. TypeOK /\ Grows /\ Messages \subseteq Callers /\ Wizards \subseteq Callers
  BY StepGrows DEF BuilderInv, Callers
<1>1. ASSUME NEW d \in Callers,
             \/ SlackCall(d) /\ d \in Messages
             \/ ServerStep(d)
             \/ WizardStep(d) /\ d \in Wizards
      PROVE  CallInv(c)'
  <2>1. CASE c = d
    BY <1>1, <2>1, MovingCallKept
  <2>2. CASE c # d
    <3>1. \E new : SetCall(d, new)
      BY <1>1
         DEF SlackCall, Step, LookUp, Refine, Finalize, ServerStep, Insert, InsertFails,
             ReadForAnswer, Update, UpdateRefused, UpdateUnseen, Check, CreateTask, CreateUnseen,
         CreateRetried, TriesAgain, CreateFails,
             MarkSubmitted, MarkFails, Fails, WizardStep, Boot, HandleSubmit, HandleFinalize,
             HandleReply, LoseReply
    <3> QED
      BY <1>0, <2>2, <3>1, CallMoves, WaitingCallKept
  <2> QED
    BY <2>1, <2>2
<1>2. CASE call' = call
  BY <1>0, <1>2, WaitingCallKept
<1>3. ASSUME NEW s \in Sessions, AbandonSession(s) PROVE call' = call
  BY <1>3 DEF AbandonSession
<1>4. ASSUME DigestWorker PROVE call' = call
  BY <1>4 DEF DigestWorker, SweepIdle, SweepFails, QueryClosed, QueryOpen, PostDigest
<1> QED
  BY <1>0, <1>1, <1>2, <1>3, <1>4 DEF Next

LEMMA BuilderInvariant == Spec => []BuilderInv
<1>1. Init => BuilderInv
  <2> SUFFICES ASSUME Init PROVE BuilderInv
    OBVIOUS
  <2>0. BuilderAssumption /\ 0 \in Index /\ MaxTickets \in Nat
    BY BuilderAssumption, Indices
  <2>1. TypeOK
    <3>1. /\ row \in [Sessions -> Row] /\ call \in [Callers -> Call]
          /\ accepted \in [Sessions -> Nat] /\ raced \in BOOLEAN /\ unheard \subseteq 1..MaxTickets
      BY NoCallType DEF Init
    <3>2. wiz \in [Wizards -> Wizard]
      BY <2>0 DEF Init, Wizard
    <3> QED
      BY <3>1, <3>2 DEF Init, TypeOK
  <2>2. \A s \in Sessions : RowInv(s)
    BY <2>0 DEF Init, RowInv, NoRow, Copy, Ordered, Answered, Ready
  <2>3. \A c \in Callers : CallInv(c)
    BY DEF Init, CallInv, NoCall, Working
  <2>4. \A w \in Wizards : WizInv(w)
    BY DEF Init, WizInv, NoCall, Working, Answers, Callers
  <2> QED
    BY <2>1, <2>2, <2>3, <2>4 DEF BuilderInv, Init
<1>2. BuilderInv /\ [Next]_builderVars => BuilderInv'
  <2> SUFFICES ASSUME BuilderInv, [Next]_builderVars PROVE BuilderInv'
    OBVIOUS
  <2>1. CASE Next
    BY <2>1, TypeStep, RowsKept, CallsKept, WizardKept, SectionsKept DEF BuilderInv
  <2>2. CASE UNCHANGED builderVars
    BY <2>2 DEF builderVars, BuilderInv, TypeOK, RowInv, CallInv, WizInv, Copy, Ordered, Used,
                Working, Answers
  <2> QED
    BY <2>1, <2>2
<1> QED
  BY <1>1, <1>2, PTL DEF Spec

(***************************************************************************)
(* The theorems                                                            *)
(***************************************************************************)

(* Type correctness of the sessions, the calls and the wizards.            *)
THEOREM BuilderTypes == Spec => []TypeOK
BY BuilderInvariant, PTL DEF BuilderInv

(* However many messages and wizards answer at once, retry, or pass a      *)
(* wrong index, a transcript holds each question's answer once, in order,  *)
(* and the index counts them (submitAnswer).                               *)
THEOREM AnswersStayInOrder == Spec => []AnswersInOrder
<1>1. BuilderInv => AnswersInOrder
  <2> SUFFICES ASSUME BuilderInv, NEW s \in Used
               PROVE  LET n == Answered(row[s].index)
                          a == row[s].answers
                      IN /\ accepted[s] = n
                         /\ Len(a) >= n
                         /\ \A k \in DOMAIN a : a[k] = IF k <= n THEN k ELSE Ready
                         /\ row[s].index # Ready => Len(a) = n
    BY DEF AnswersInOrder
  <2>1. RowInv(s)
    BY DEF BuilderInv, Used
  <2> QED
    BY <2>1 DEF RowInv, Ordered, Copy
<1> QED
  BY <1>1, BuilderInvariant, PTL

(* Every ticket quotes an answer to every question, and a submitted        *)
(* session points at a ticket of its own (the two routes that finalize).   *)
THEOREM TicketsHaveAllAnswers == Spec => []TicketsAreComplete
<1>1. BuilderInv => TicketsAreComplete
  BY DEF BuilderInv, TicketsAreComplete, RowInv, Used
<1> QED
  BY <1>1, BuilderInvariant, PTL

(***************************************************************************)
(* One open session in a thread: a message that is about to insert found   *)
(* none open, is the only one to insert, and only it can open one.         *)
(***************************************************************************)

ThreadInv ==
  ~raced =>
    /\ \A s, t \in OpenHere : s = t
    /\ \A c \in Messages : At(c, "insert") =>
         OpenHere = {} /\ \A d \in Messages : At(d, "insert") => d = c

LEMMA WhoInserts ==
  ASSUME BuilderInv, Next, NEW d \in Messages, At(d, "insert")'
  PROVE  \/ LookUp(d)
         \/ At(d, "insert") /\ ~Insert(d)
<1>0. /\ TypeOK /\ call \in [Callers -> Call] /\ d \in Callers /\ d \notin Wizards
      /\ Ended(d, "ok").pc = "idle" /\ Ended(d, "error").pc = "idle"
      /\ NumQuestions \in Nat
  <2>1. TypeOK /\ d \in Callers /\ d \notin Wizards
    BY BuilderAssumption DEF BuilderInv, Callers
  <2> QED
    BY <2>1, EndedType, Indices DEF TypeOK
<1>1. CASE call'[d] = call[d] /\ ~Insert(d)
  BY <1>1 DEF At
<1>2. ASSUME SlackCall(d), ~LookUp(d) PROVE FALSE
  <2>1. CASE Step(d)
    BY <1>0, <2>1 DEF Step, SetCall, NoCall, At
  <2>2. CASE Refine(d)
    BY <1>0, <2>2 DEF Refine, SetCall, NoCall, At
  <2>3. CASE Finalize(d)
    BY <1>0, <2>3 DEF Finalize, SetCall, NoCall, At
  <2> QED
    BY <1>2, <2>1, <2>2, <2>3 DEF SlackCall
<1>3. ASSUME ServerStep(d) PROVE FALSE
  <2>1. CASE SetCall(d, Ended(d, "ok")) \/ SetCall(d, Ended(d, "error")) \/ SetCall(d, NoCall)
    BY <1>0, <2>1 DEF SetCall, At, NoCall
  <2>2. CASE Insert(d)
    <3>1. PICK s \in Sessions \ Used : SetCall(d, Resumed(d, s, 0))
      BY <2>2 DEF Insert
    <3>2. call'[d] = Resumed(d, s, 0)
      BY <1>0, <3>1 DEF SetCall
    <3> QED
      BY <1>0, <3>2, ResumedType, Indices DEF At
  <2>3. CASE ReadForAnswer(d) /\ SetCall(d, [call[d] EXCEPT !.pc = "update", !.read = Copy(call[d].session)])
    BY <1>0, <2>3 DEF SetCall, At, Call
  <2>4. CASE Check(d) /\ SetCall(d, [call[d] EXCEPT !.pc = "create", !.read = Copy(call[d].session)])
    BY <1>0, <2>4 DEF SetCall, At, Call
  <2>5. CASE CreateTask(d)
    BY <1>0, <2>5 DEF CreateTask, SetCall, At, Call
  <2>6. CASE (CreateUnseen(d) \/ CreateRetried(d)) /\ TriesAgain(d)
    <3>1. call[d].pc = "create" /\ call'[d].pc = "create"
      BY <1>0, <2>6, RetryMoves DEF CreateUnseen, CreateRetried, At
    <3> QED
      BY <3>1 DEF At
  <2> QED
    BY <1>3, <2>1, <2>2, <2>3, <2>4, <2>5, <2>6
       DEF ServerStep, InsertFails, ReadForAnswer, Update, UpdateRefused, UpdateUnseen, Check,
           CreateUnseen, CreateRetried, CreateFails, MarkSubmitted, MarkFails, Fails
<1>4. ASSUME NEW c \in Callers, c # d, \E new : SetCall(c, new)
      PROVE  call'[d] = call[d] /\ ~Insert(d)
  <2>1. call'[d] = call[d]
    BY <1>0, <1>4, CallMoves
  <2>2. ~Insert(d)
    <3> SUFFICES ASSUME Insert(d) PROVE FALSE
      OBVIOUS
    <3>1. call[d].pc = "insert"
      BY DEF Insert, At
    <3>2. PICK s \in Sessions \ Used : SetCall(d, Resumed(d, s, 0))
      BY DEF Insert
    <3>3. call'[d] = Resumed(d, s, 0)
      BY <1>0, <3>2 DEF SetCall
    <3> QED
      BY <1>0, <2>1, <3>1, <3>3, ResumedType, Indices
  <2> QED
    BY <2>1, <2>2
<1>5. ASSUME call' = call PROVE ~Insert(d)
  <2> SUFFICES ASSUME Insert(d) PROVE FALSE
    OBVIOUS
  <2>1. call[d].pc = "insert"
    BY DEF Insert, At
  <2>2. PICK s \in Sessions \ Used : SetCall(d, Resumed(d, s, 0))
    BY DEF Insert
  <2>3. call'[d] = Resumed(d, s, 0)
    BY <1>0, <2>2 DEF SetCall
  <2> QED
    BY <1>0, <1>5, <2>1, <2>3, ResumedType, Indices
<1>6. ASSUME NEW c \in Callers,
             \/ SlackCall(c) /\ c \in Messages
             \/ ServerStep(c)
             \/ WizardStep(c) /\ c \in Wizards
      PROVE  \E new : SetCall(c, new)
  BY <1>6
     DEF SlackCall, Step, LookUp, Refine, Finalize, ServerStep, Insert, InsertFails,
         ReadForAnswer, Update, UpdateRefused, UpdateUnseen, Check, CreateTask, CreateUnseen,
         CreateRetried, TriesAgain, CreateFails,
         MarkSubmitted, MarkFails, Fails, WizardStep, Boot, HandleSubmit, HandleFinalize,
         HandleReply, LoseReply
<1>7. ASSUME NEW s \in Sessions, AbandonSession(s) PROVE call' = call
  BY <1>7 DEF AbandonSession
<1>8. ASSUME DigestWorker PROVE call' = call
  BY <1>8 DEF DigestWorker, SweepIdle, SweepFails, QueryClosed, QueryOpen, PostDigest
<1>9. CASE \E c \in Callers : /\ \/ SlackCall(c) /\ c \in Messages
                                 \/ ServerStep(c)
                                 \/ WizardStep(c) /\ c \in Wizards
  <2>1. PICK c \in Callers : \/ SlackCall(c) /\ c \in Messages
                             \/ ServerStep(c)
                             \/ WizardStep(c) /\ c \in Wizards
    BY <1>9
  <2>2. CASE c = d
    BY <1>0, <1>2, <1>3, <2>1, <2>2
  <2>3. CASE c # d
    BY <1>1, <1>4, <1>6, <2>1, <2>3
  <2> QED
    BY <2>2, <2>3
<1>10. CASE call' = call
  BY <1>1, <1>5, <1>10
<1> QED
  BY <1>7, <1>8, <1>9, <1>10 DEF Next, Callers

LEMMA RacesStay ==
  ASSUME BuilderInv, Next
  PROVE  raced => raced'
BY DEF BuilderInv, TypeOK, Next, SlackCall, Step, LookUp, Refine, Finalize, ServerStep, Insert, InsertFails,
       ReadForAnswer, Update, UpdateRefused, UpdateUnseen, Check, CreateTask, CreateUnseen,
         CreateRetried, TriesAgain, CreateFails,
       MarkSubmitted, MarkFails, Fails, WizardStep, Boot, HandleSubmit, HandleFinalize,
       HandleReply, LoseReply, AbandonSession, DigestWorker, SweepIdle, SweepFails, QueryClosed,
       QueryOpen, PostDigest

(* Only the insert of a message opens a session in the thread, and one.    *)
LEMMA WhoOpens ==
  ASSUME BuilderInv, Next
  PROVE  \/ OpenHere' \subseteq OpenHere
         \/ \E c \in Messages, s \in Sessions : Insert(c) /\ OpenHere' \subseteq OpenHere \cup {s}
<1>0. /\ TypeOK /\ \A s \in Sessions : row[s] \in Row
  BY DEF BuilderInv, TypeOK
<1>1. CASE RowsStay
  BY <1>1 DEF RowsStay, OpenHere, Thread, Used
<1>2. ASSUME NEW t \in Sessions, AnswersRow(t) \/ SubmitsRow(t) \/ AbandonsRow(t)
      PROVE  OpenHere' \subseteq OpenHere
  <2>1. ASSUME NEW s \in OpenHere' PROVE s \in OpenHere
    <3>1. s \in Sessions /\ row'[s].status = "open" /\ row'[s].slack
      BY <2>1 DEF OpenHere, Thread, Used
    <3>2. row[s].status = "open" /\ row[s].slack
      <4>1. CASE s # t
        BY <1>2, <3>1, <4>1 DEF AnswersRow, SubmitsRow, AbandonsRow, OthersStay
      <4>2. CASE s = t
        BY <1>2, <3>1, <4>2 DEF AnswersRow, SubmitsRow, AbandonsRow, KeepsAnswers
      <4> QED
        BY <4>1, <4>2
    <3> QED
      BY <3>1, <3>2 DEF OpenHere, Thread, Used
  <2> QED
    BY <2>1
<1>3. ASSUME NEW idle \in SUBSET Sessions, SweepsRows(idle) PROVE OpenHere' \subseteq OpenHere
  <2>1. ASSUME NEW s \in OpenHere' PROVE s \in OpenHere
    <3>1. s \in Sessions /\ row'[s].status = "open" /\ row'[s].slack
      BY <2>1 DEF OpenHere, Thread, Used
    <3>2. row'[s] = row[s]
      BY <1>3, <3>1 DEF SweepsRows
    <3> QED
      BY <3>1, <3>2 DEF OpenHere, Thread, Used
  <2> QED
    BY <2>1
<1>4. ASSUME NEW t \in Sessions, OpensRow(t)
      PROVE  \/ OpenHere' \subseteq OpenHere
             \/ \E c \in Messages, s \in Sessions : Insert(c) /\ OpenHere' \subseteq OpenHere \cup {s}
  <2>1. row[t].status = "none" /\ row'[t].status = "open" /\ OthersStay(t)
    BY <1>4 DEF OpensRow
  <2>2. OpenHere' \subseteq OpenHere \cup {t}
    BY <2>1 DEF OthersStay, OpenHere, Thread, Used
  <2>3. PICK c \in Callers : Insert(c)
    <3>1. ASSUME NEW c \in Callers, Update(c) \/ UpdateUnseen(c) PROVE FALSE
      <4>1. call[c].session \in Sessions /\ AnswersRow(call[c].session)
        BY <3>1, AnsweringMovesRow DEF Update, UpdateUnseen
      <4> QED
        BY <2>1, <4>1 DEF AnswersRow, OthersStay
    <3>2. ASSUME NEW c \in Callers, MarkSubmitted(c) PROVE FALSE
      BY <1>0, <2>1, <3>2 DEF MarkSubmitted, Write, Row, TypeOK
    <3>3. ASSUME NEW s \in Sessions, AbandonSession(s) PROVE FALSE
      BY <1>0, <2>1, <3>3 DEF AbandonSession, Write, Row, TypeOK
    <3>4. ~SweepIdle
      BY <1>0, <2>1 DEF SweepIdle, WithStatus
    <3>5. row' # row
      BY <2>1
    <3> QED
      BY <3>1, <3>2, <3>3, <3>4, <3>5
         DEF Next, SlackCall, Step, LookUp, Refine, Finalize, ServerStep, InsertFails,
             ReadForAnswer, UpdateRefused, Check, CreateTask, CreateUnseen,
         CreateRetried, TriesAgain, CreateFails, MarkFails, Fails,
             WizardStep, Boot, HandleSubmit, HandleFinalize, HandleReply, LoseReply,
             DigestWorker, SweepFails, QueryClosed, QueryOpen, PostDigest
  <2>4. CASE c \in Messages
    BY <2>2, <2>3, <2>4
  <2>5. CASE c \notin Messages
    <3>1. PICK s \in Sessions \ Used :
            row' = [row EXCEPT ![s] = [NoRow EXCEPT !.status = "open", !.slack = c \in Messages]]
      BY <2>3 DEF Insert, Write
    <3>2. s = t
      BY <1>0, <2>1, <3>1 DEF TypeOK
    <3>3. row'[t] = [NoRow EXCEPT !.status = "open", !.slack = c \in Messages]
      BY <1>0, <3>1, <3>2 DEF TypeOK
    <3>4. ~row'[t].slack
      BY <2>5, <3>3 DEF NoRow
    <3> QED
      BY <2>2, <3>4 DEF OpenHere, Thread, Used
  <2> QED
    BY <2>4, <2>5
<1> QED
  BY <1>1, <1>2, <1>3, <1>4, StepMovesRows DEF RowMoves

LEMMA ThreadKept ==
  ASSUME BuilderInv, Next, ThreadInv
  PROVE  ThreadInv'
<1> SUFFICES ASSUME ~raced'
             PROVE  /\ \A s, t \in OpenHere' : s = t
                    /\ \A c \in Messages : At(c, "insert")' =>
                         OpenHere' = {} /\ \A d \in Messages : At(d, "insert")' => d = c
  BY DEF ThreadInv
<1>0. ~raced
  BY RacesStay
<1>1. ASSUME NEW c \in Messages, At(c, "insert")'
      PROVE  OpenHere = {} /\ \A d \in Messages : At(d, "insert") => d = c
  <2>1. CASE At(c, "insert")
    BY <1>0, <2>1 DEF ThreadInv
  <2>2. CASE LookUp(c) /\ ~At(c, "insert")
    <3>1. TypeOK /\ c \in Callers
      BY DEF BuilderInv, Callers
    <3>2. ASSUME NEW s \in OpenHere, SetCall(c, Resumed(c, s, row[s].index)) PROVE FALSE
      <4>1. s \in Sessions /\ row[s].index \in Index
        BY <3>1, <3>2 DEF OpenHere, Thread, Used, TypeOK, Row
      <4>2. call'[c] = Resumed(c, s, row[s].index)
        BY <3>1, <3>2 DEF SetCall, TypeOK
      <4> QED
        BY <1>1, <3>1, <4>1, <4>2, ResumedType DEF At
    <3>3. raced' = (raced \/ OpenHere # {} \/ \E d \in Messages \ {c} : At(d, "insert"))
      BY <2>2, <3>2 DEF LookUp
    <3> QED
      BY <3>3
  <2> QED
    BY <1>1, <2>1, <2>2, WhoInserts
<1>2. CASE OpenHere' \subseteq OpenHere
  <2>1. \A s, t \in OpenHere' : s = t
    BY <1>0, <1>2 DEF ThreadInv
  <2>2. ASSUME NEW c \in Messages, At(c, "insert")', NEW d \in Messages, At(d, "insert")'
        PROVE  d = c
    <3>1. CASE At(d, "insert") \/ At(c, "insert")
      BY <1>1, <2>2, <3>1
    <3>2. CASE ~At(d, "insert") /\ ~At(c, "insert")
      <4>1. LookUp(c) /\ LookUp(d)
        BY <2>2, <3>2, WhoInserts
      <4>2. call'[c] # call[c] /\ call'[d] # call[d]
        BY <2>2, <3>2 DEF At
      <4>3. c \in Callers /\ d \in Callers /\ TypeOK /\ \E new : SetCall(c, new)
        BY <4>1 DEF LookUp, Callers, BuilderInv
      <4> QED
        BY <4>2, <4>3, CallMoves
    <3> QED
      BY <3>1, <3>2
  <2> QED
    BY <1>1, <1>2, <2>1, <2>2
<1>3. ASSUME NEW c \in Messages, NEW s \in Sessions, Insert(c), OpenHere' \subseteq OpenHere \cup {s}
      PROVE  /\ \A t, u \in OpenHere' : t = u
             /\ \A d \in Messages : ~At(d, "insert")'
  <2>1. At(c, "insert")
    BY <1>3 DEF Insert
  <2>2. OpenHere = {}
    BY <1>0, <2>1 DEF ThreadInv
  <2>3. ASSUME NEW d \in Messages, At(d, "insert")' PROVE FALSE
    <3>1. d = c
      BY <1>1, <2>1, <2>3
    <3>2. ~LookUp(d)
      BY <2>1, <3>1 DEF LookUp, At
    <3> QED
      BY <1>3, <2>3, <3>1, <3>2, WhoInserts
  <2> QED
    BY <1>3, <2>2, <2>3
<1> QED
  BY <1>2, <1>3, WhoOpens

(* Without a race through the unlocked lookup a thread has one open        *)
(* session (startOrResumeSession).                                         *)
THEOREM ThreadsHaveOneOpen == Spec => []OneOpenPerThread
<1>1. Init => ThreadInv
  BY DEF Init, ThreadInv, OpenHere, Thread, Used, At, NoCall, NoRow, Callers
<1>2. BuilderInv /\ ThreadInv /\ [Next]_builderVars => ThreadInv'
  <2>1. CASE UNCHANGED builderVars
    BY <2>1 DEF builderVars, ThreadInv, OpenHere, Thread, Used, At
  <2> QED
    BY <2>1, ThreadKept
<1>3. ThreadInv => OneOpenPerThread
  <2> SUFFICES ASSUME ThreadInv, ~raced PROVE Cardinality(OpenHere) <= 1
    BY DEF OneOpenPerThread
  <2>1. CASE OpenHere = {}
    BY <2>1, FS_EmptySet
  <2>2. CASE OpenHere # {}
    <3>1. PICK s \in OpenHere : OpenHere = {s}
      BY <2>2 DEF ThreadInv
    <3>2. Cardinality({s}) = 1
      BY FS_Singleton
    <3> QED
      BY <3>1, <3>2
  <2> QED
    BY <2>1, <2>2
<1> QED
  BY <1>1, <1>2, <1>3, BuilderInvariant, PTL DEF Spec

(***************************************************************************)
(* The digest                                                              *)
(***************************************************************************)

SweepInv ==
  /\ \A s \in digest.swept : row[s].status \notin {"none", "open"}
  /\ SweptNotOpen

LEMMA ClosedStaysClosed ==
  ASSUME BuilderInv, Next, NEW s \in Sessions, row[s].status \notin {"none", "open"}
  PROVE  row'[s].status \notin {"none", "open"}
<1>1. CASE RowsStay
  BY <1>1 DEF RowsStay
<1>2. ASSUME NEW t \in Sessions, RowMoves(t) PROVE row'[s].status \notin {"none", "open"}
  <2>1. CASE s # t
    BY <1>2, <2>1 DEF RowMoves, OpensRow, AnswersRow, SubmitsRow, AbandonsRow, OthersStay
  <2>2. CASE s = t
    BY <1>2, <2>2 DEF RowMoves, OpensRow, AnswersRow, SubmitsRow, AbandonsRow
  <2> QED
    BY <2>1, <2>2
<1>3. ASSUME NEW idle \in SUBSET Sessions, SweepsRows(idle)
      PROVE  row'[s].status \notin {"none", "open"}
  BY <1>3 DEF SweepsRows
<1> QED
  BY <1>1, <1>2, <1>3, StepMovesRows

(* What the digest lists as open was read after the sweep's update, and a  *)
(* session that was swept is never open again (digest.ts).                 *)
THEOREM SweptIsNotListed == Spec => []SweptNotOpen
<1>1. Init => SweepInv
  BY DEF Init, SweepInv, SweptNotOpen
<1>2. BuilderInv /\ SweepInv /\ [Next]_builderVars => SweepInv'
  <2> SUFFICES ASSUME BuilderInv, SweepInv, [Next]_builderVars PROVE SweepInv'
    OBVIOUS
  <2>0. /\ digest \in [pc : {"idle", "closed", "open", "post"},
                       swept : SUBSET Sessions, open : SUBSET Sessions]
        /\ row \in [Sessions -> Row]
    BY DEF BuilderInv, TypeOK
  <2>1. CASE digest' = digest /\ Next
    BY <2>0, <2>1, ClosedStaysClosed DEF SweepInv, SweptNotOpen
  <2>2. CASE UNCHANGED builderVars
    BY <2>2 DEF builderVars, SweepInv, SweptNotOpen
  <2>3. CASE SweepIdle
    <3>1. PICK idle \in SUBSET WithStatus("open") :
            /\ row' = [s \in Sessions |-> IF s \in idle THEN [row[s] EXCEPT !.status = "abandoned"]
                                          ELSE row[s]]
            /\ digest' = [digest EXCEPT !.pc = "closed", !.swept = idle]
      BY <2>3 DEF SweepIdle
    <3>2. \A s \in idle : s \in Sessions /\ row'[s].status = "abandoned"
      BY <2>0, <3>1 DEF WithStatus, Used, Row
    <3>3. digest'.swept = idle /\ digest'.pc = "closed"
      BY <2>0, <3>1
    <3> QED
      BY <3>2, <3>3 DEF SweepInv, SweptNotOpen
  <2>4. CASE SweepFails \/ QueryClosed \/ PostDigest
    <3>1. row' = row /\ digest'.pc # "post" /\ digest'.swept \subseteq digest.swept
      BY <2>0, <2>4 DEF SweepFails, QueryClosed, PostDigest
    <3> QED
      BY <3>1 DEF SweepInv, SweptNotOpen
  <2>5. CASE QueryOpen
    <3>1. PICK found \in {WithStatus("open"), {}} : digest' = [digest EXCEPT !.pc = "post", !.open = found]
      BY <2>5 DEF QueryOpen
    <3>2. row' = row /\ digest'.swept = digest.swept /\ digest'.open = found
      BY <2>0, <2>5, <3>1 DEF QueryOpen
    <3>3. digest.swept \cap found = {}
      BY DEF SweepInv, WithStatus
    <3> QED
      BY <3>2, <3>3 DEF SweepInv, SweptNotOpen
  <2>6. ASSUME Next, ~DigestWorker PROVE digest' = digest
    BY <2>6 DEF Next, SlackCall, Step, LookUp, Refine, Finalize, ServerStep, Insert, InsertFails,
                ReadForAnswer, Update, UpdateRefused, UpdateUnseen, Check, CreateTask, CreateUnseen,
         CreateRetried, TriesAgain, CreateFails,
                MarkSubmitted, MarkFails, Fails, WizardStep, Boot, HandleSubmit, HandleFinalize,
                HandleReply, LoseReply, AbandonSession
  <2> QED
    BY <2>1, <2>2, <2>3, <2>4, <2>5, <2>6 DEF DigestWorker
<1>3. SweepInv => SweptNotOpen
  BY DEF SweepInv
<1> QED
  BY <1>1, <1>2, <1>3, BuilderInvariant, PTL DEF Spec

(***************************************************************************)
(* The life of a session                                                   *)
(***************************************************************************)

LEMMA LifeStays ==
  ASSUME \A s \in Sessions : /\ row'[s].status = row[s].status
                             /\ Answered(row'[s].index) = Answered(row[s].index)
  PROVE  UNCHANGED Life!lifeVars
BY DEF Life!lifeVars

LEMMA RowMoveIsLifeStep ==
  ASSUME BuilderInv, NEW s \in Sessions, RowMoves(s)
  PROVE  [Life!Next]_(Life!lifeVars)
<1>0. /\ row \in [Sessions -> Row] /\ \A t \in Sessions : row[t] \in Row
      /\ row[s].index \in Index /\ Answered(0) = 0 /\ Answered(Ready) = NumQuestions
  BY BuilderAssumption DEF BuilderInv, TypeOK, Row, Answered, Ready
<1>1. \A t \in Sessions : t # s => row'[t] = row[t]
  BY DEF RowMoves, OpensRow, AnswersRow, SubmitsRow, AbandonsRow, OthersStay
<1> DEFINE status == [t \in Sessions |-> row[t].status]
           status2 == [t \in Sessions |-> row'[t].status]
           answered == [t \in Sessions |-> Answered(row[t].index)]
           answered2 == [t \in Sessions |-> Answered(row'[t].index)]
<1>2. CASE OpensRow(s)
  <2>1. status[s] = "none" /\ status2 = [status EXCEPT ![s] = "open"] /\ answered2 = answered
    BY <1>1, <1>2 DEF OpensRow
  <2>2. Life!Open(s)
    BY <2>1 DEF Life!Open
  <2> QED
    BY <2>2 DEF Life!Next
<1>3. CASE AnswersRow(s) /\ row[s].index # Ready
  <2>1. /\ Answered(row'[s].index) = Answered(row[s].index) + 1
        /\ Answered(row[s].index) < NumQuestions
    <3>1. Answered(row'[s].index) = Answered(row[s].index) + 1
      BY <1>0, <1>3, NextAnswer DEF AnswersRow
    <3>2. Answered(row[s].index) < NumQuestions
      BY <1>0, <1>3, BuilderAssumption DEF Answered, Index, Ready
    <3> QED
      BY <3>1, <3>2
  <2>2. /\ status[s] # "none" /\ status2 = status /\ answered[s] < NumQuestions
        /\ answered2 = [answered EXCEPT ![s] = answered[s] + 1]
    BY <1>1, <1>3, <2>1 DEF AnswersRow
  <2>3. Life!Answer(s)
    BY <2>2 DEF Life!Answer
  <2> QED
    BY <2>3 DEF Life!Next
<1>4. CASE AnswersRow(s) /\ row[s].index = Ready
  <2>1. Answered(row'[s].index) = Answered(row[s].index)
    BY <1>0, <1>4, NextAnswer DEF AnswersRow
  <2> QED
    BY <1>1, <1>4, <2>1, LifeStays DEF AnswersRow
<1>5. CASE SubmitsRow(s)
  <2>1. /\ status[s] # "none" /\ answered[s] = NumQuestions /\ answered2 = answered
        /\ status2 = [status EXCEPT ![s] = "submitted"]
    BY <1>0, <1>1, <1>5 DEF SubmitsRow, KeepsAnswers
  <2>2. Life!Submit(s)
    BY <2>1 DEF Life!Submit
  <2> QED
    BY <2>2 DEF Life!Next
<1>6. CASE AbandonsRow(s)
  <2>1. /\ status[s] # "none" /\ answered2 = answered
        /\ status2 = [status EXCEPT ![s] = "abandoned"]
    BY <1>0, <1>1, <1>6 DEF AbandonsRow, KeepsAnswers
  <2>2. Life!Abandon(s)
    BY <2>1 DEF Life!Abandon
  <2> QED
    BY <2>2 DEF Life!Next
<1> QED
  BY <1>2, <1>3, <1>4, <1>5, <1>6 DEF RowMoves

(* Every step of Agent Builder is one step of a session's life or none:    *)
(* opened once, answered one question at a time, submitted only when all   *)
(* are answered, and never open again.                                     *)
THEOREM RefinesSessionLife == Spec => ImplementsSession
<1>1. Init => Life!Init
  BY BuilderAssumption DEF Init, Life!Init, NoRow, Answered, Ready
<1>2. BuilderInv /\ [Next]_builderVars => [Life!Next]_(Life!lifeVars)
  <2> SUFFICES ASSUME BuilderInv, [Next]_builderVars PROVE [Life!Next]_(Life!lifeVars)
    OBVIOUS
  <2>1. CASE RowsStay
    BY <2>1, LifeStays DEF RowsStay
  <2>2. CASE UNCHANGED builderVars
    BY <2>2, LifeStays DEF builderVars
  <2>3. ASSUME NEW idle \in SUBSET Sessions, SweepsRows(idle) PROVE [Life!Next]_(Life!lifeVars)
    <3> DEFINE status == [t \in Sessions |-> row[t].status]
               status2 == [t \in Sessions |-> row'[t].status]
    <3>1. /\ \A s \in idle : status[s] = "open"
          /\ status2 = [s \in Sessions |-> IF s \in idle THEN "abandoned" ELSE status[s]]
          /\ [t \in Sessions |-> Answered(row'[t].index)] = [t \in Sessions |-> Answered(row[t].index)]
      BY <2>3 DEF SweepsRows, KeepsAnswers
    <3>2. Life!Sweep(idle)
      BY <3>1 DEF Life!Sweep
    <3> QED
      BY <3>2 DEF Life!Next
  <2> QED
    BY <2>1, <2>2, <2>3, StepMovesRows, RowMoveIsLifeStep
<1> QED
  BY <1>1, <1>2, BuilderInvariant, PTL DEF Spec, ImplementsSession, Life!Spec

(***************************************************************************)
(* The wizard                                                              *)
(*                                                                         *)
(* A page works on the session it holds, or is being given one.  No other  *)
(* page holds it, and no message of the thread works on it (OwnedApart),   *)
(* so only the page's own calls move its index and make its ticket, and    *)
(* InStep follows a call from the page's request to its reply.             *)
(***************************************************************************)

Holds(w, s) ==
  /\ s \in Sessions
  /\ s = wiz[w].session \/ (Answers(w) /\ s = call[w].session)

OwnedApart ==
  /\ \A w \in Wizards, s \in Sessions : Holds(w, s) => row[s].slack = FALSE
  /\ \A v, w \in Wizards, s \in Sessions : Holds(v, s) /\ Holds(w, s) => v = w
  /\ \A c \in Messages : call[c].pc \in Working => row[call[c].session].slack = TRUE
  /\ \A i \in DOMAIN tickets : tickets[i].session \in Used

(* The tickets whose making and marking was answered, and the answer seen. *)
Heard == DOMAIN tickets \ unheard

NoTicket(s) == \A i \in Heard : tickets[i].session # s

OneTicket(s) ==
  \A i, k \in Heard : tickets[i].session = s /\ tickets[k].session = s => i = k

OnlyTicket(s, t) == \A i \in Heard : tickets[i].session = s => i = t

(* The step adds no ticket of s to them.                                   *)
Quiet(s) == \A i \in Heard' : tickets'[i].session = s => i \in Heard /\ tickets[i].session = s

(* The page's ticket is made and the page is yet to see it.                *)
Made(w) == call[w].pc = "mark" \/ (Answers(w) /\ call[w].ticket # 0)

(* The index the page shows, or is about to show, and the row's.           *)
Matches(shown, index) == IF shown = Ready THEN index = Ready ELSE Expected(index) = shown

Agrees(w, s) == IF wiz[w].ready = TRUE THEN row[s].index = Ready
                ELSE Expected(row[s].index) = wiz[w].index

TurnReply(w) == Answers(w) /\ call[w].ticket = 0

(* With s the page's session and cs the one its call is about.             *)
InStepAt(w, s, cs) ==
  /\ call[w].pc \in {"read", "update"} => call[w].ticket = 0
  /\ Answers(w) /\ cs # s => Expected(row[cs].index) = 1 /\ NoTicket(cs)
  /\ s # 0 =>
       /\ call[w].pc # "insert"
       /\ OneTicket(s)
       /\ call[w].pc \in {"check", "create"} => NoTicket(s)
       /\ wiz[w].done = FALSE /\ ~Made(w) => NoTicket(s)
       /\ Made(w) => OnlyTicket(s, call[w].ticket)
  /\ wiz[w].trouble = FALSE /\ s # 0 =>
       /\ ~TurnReply(w) => Agrees(w, s)
       /\ TurnReply(w) => /\ cs = s /\ wiz[w].ready = FALSE
                          /\ Matches(call[w].index, row[s].index)
       /\ call[w].pc \in {"read", "update"} => wiz[w].ready = FALSE

InStep(w) == InStepAt(w, wiz[w].session, call[w].session)

WizardSteps ==
  /\ OwnedApart
  /\ \A w \in Wizards : InStep(w)

(* The step of a caller, and what it does to the other pages.              *)
Moves(c) == \/ SlackCall(c) /\ c \in Messages
            \/ ServerStep(c)
            \/ WizardStep(c) /\ c \in Wizards

LEMMA MoveOfOne ==
  ASSUME BuilderInv, NEW c \in Callers, Moves(c)
  PROVE  /\ \A d \in Callers : d # c => call'[d] = call[d]
         /\ \A w \in Wizards : w # c => wiz'[w] = wiz[w]
<1>0. TypeOK /\ wiz \in [Wizards -> Wizard]
  BY DEF BuilderInv, TypeOK
<1>1. \E new : SetCall(c, new)
  BY DEF Moves, SlackCall, Step, LookUp, Refine, Finalize, ServerStep, Insert, InsertFails,
         ReadForAnswer, Update, UpdateRefused, UpdateUnseen, Check, CreateTask, CreateUnseen,
         CreateRetried, TriesAgain, CreateFails,
         MarkSubmitted, MarkFails, Fails, WizardStep, Boot, HandleSubmit, HandleFinalize,
         HandleReply, LoseReply
<1>2. \A w \in Wizards : w # c => wiz'[w] = wiz[w]
  BY <1>0
     DEF Moves, SlackCall, Step, LookUp, Refine, Finalize, ServerStep, Insert, InsertFails,
         ReadForAnswer, Update, UpdateRefused, UpdateUnseen, Check, CreateTask, CreateUnseen,
         CreateRetried, TriesAgain, CreateFails,
         MarkSubmitted, MarkFails, Fails, WizardStep, Boot, HandleSubmit, HandleFinalize,
         HandleReply, LoseReply
<1> QED
  BY <1>0, <1>1, <1>2, CallMoves

LEMMA WhoMoves ==
  ASSUME BuilderInv, Next
  PROVE  \/ \E c \in Callers : Moves(c)
         \/ call' = call /\ wiz' = wiz /\ tickets' = tickets /\ unheard' = unheard
<1>1. ASSUME NEW s \in Sessions, AbandonSession(s)
      PROVE  call' = call /\ wiz' = wiz /\ tickets' = tickets /\ unheard' = unheard
  BY <1>1 DEF AbandonSession
<1>2. ASSUME DigestWorker
      PROVE  call' = call /\ wiz' = wiz /\ tickets' = tickets /\ unheard' = unheard
  BY <1>2 DEF DigestWorker, SweepIdle, SweepFails, QueryClosed, QueryOpen, PostDigest
<1> QED
  BY <1>1, <1>2 DEF Next, Moves, Callers

(* The side a session is on never changes; only an answering call moves    *)
(* its index.                                                              *)
LEMMA SideKept ==
  ASSUME BuilderInv, Next, NEW s \in Used
  PROVE  row'[s].slack = row[s].slack
<1>1. s \in Sessions /\ row[s].status # "none"
  BY DEF Used
<1>2. CASE RowsStay
  BY <1>2 DEF RowsStay
<1>3. ASSUME NEW t \in Sessions, RowMoves(t) PROVE row'[s].slack = row[s].slack
  <2>1. CASE s # t
    BY <1>1, <1>3, <2>1 DEF RowMoves, OpensRow, AnswersRow, SubmitsRow, AbandonsRow, OthersStay
  <2>2. CASE s = t
    BY <1>1, <1>3, <2>2
       DEF RowMoves, OpensRow, AnswersRow, SubmitsRow, AbandonsRow, KeepsAnswers
  <2> QED
    BY <2>1, <2>2
<1>4. ASSUME NEW idle \in SUBSET Sessions, SweepsRows(idle) PROVE row'[s].slack = row[s].slack
  BY <1>1, <1>4 DEF SweepsRows, KeepsAnswers
<1> QED
  BY <1>2, <1>3, <1>4, StepMovesRows

LEMMA WhoAnswers ==
  ASSUME BuilderInv, Next, NEW s \in Used,
         \A c \in Callers : Update(c) \/ UpdateUnseen(c) => call[c].session # s
  PROVE  row'[s].index = row[s].index
<1>0. /\ row \in [Sessions -> Row] /\ s \in Sessions /\ row[s] \in Row /\ row[s].status # "none"
      /\ TypeOK
  BY DEF BuilderInv, TypeOK, Used
<1>1. ASSUME NEW c \in Callers, Update(c) \/ UpdateUnseen(c) PROVE row'[s] = row[s]
  <2>1. AnswersRow(call[c].session) /\ call[c].session # s
    BY <1>1, AnsweringMovesRow DEF Update, UpdateUnseen
  <2> QED
    BY <1>0, <2>1 DEF AnswersRow, OthersStay
<1>2. ASSUME NEW c \in Callers, Insert(c) PROVE row'[s] = row[s]
  <2>1. PICK t \in Sessions \ Used : \E new : row' = [row EXCEPT ![t] = new]
    BY <1>2 DEF Insert, Write
  <2> QED
    BY <1>0, <2>1
<1>3. ASSUME NEW c \in Callers, MarkSubmitted(c) PROVE row'[s].index = row[s].index
  BY <1>0, <1>3 DEF MarkSubmitted, Write, Row
<1>4. ASSUME NEW t \in Sessions, AbandonSession(t) PROVE row'[s].index = row[s].index
  BY <1>0, <1>4 DEF AbandonSession, Write, Row
<1>5. ASSUME SweepIdle PROVE row'[s].index = row[s].index
  BY <1>0, <1>5 DEF SweepIdle, Row
<1>6. CASE row' = row
  BY <1>6
<1> QED
  BY <1>1, <1>2, <1>3, <1>4, <1>5, <1>6
     DEF Next, SlackCall, Step, LookUp, Refine, Finalize, ServerStep, InsertFails,
         ReadForAnswer, UpdateRefused, Check, CreateTask, CreateUnseen,
         CreateRetried, TriesAgain, CreateFails, MarkFails, Fails,
         WizardStep, Boot, HandleSubmit, HandleFinalize, HandleReply, LoseReply,
         DigestWorker, SweepFails, QueryClosed, QueryOpen, PostDigest

LEMMA WhoCreates ==
  ASSUME BuilderInv, Next
  PROVE  /\ unheard \subseteq unheard'
         /\ (~\E c \in Callers : CreateTask(c) \/ CreateUnseen(c)) => tickets' = tickets
BY DEF Next, SlackCall, Step, LookUp, Refine, Finalize, ServerStep, Insert, InsertFails,
       ReadForAnswer, Update, UpdateRefused, UpdateUnseen, Check, CreateTask, CreateUnseen,
       CreateRetried, CreateFails, MarkSubmitted, MarkFails, Fails, WizardStep, Boot,
       HandleSubmit, HandleFinalize, HandleReply, LoseReply, AbandonSession, DigestWorker,
       SweepIdle, SweepFails, QueryClosed, QueryOpen, PostDigest

LEMMA NewTicket ==
  ASSUME BuilderInv, NEW c \in Callers, CreateTask(c) \/ CreateUnseen(c)
  PROVE  /\ DOMAIN tickets' = DOMAIN tickets \cup {Len(tickets) + 1}
         /\ \A i \in DOMAIN tickets : tickets'[i] = tickets[i]
         /\ tickets'[Len(tickets) + 1].session = call[c].session
         /\ Len(tickets) + 1 \notin DOMAIN tickets
         /\ CreateTask(c) => unheard' = unheard
         /\ CreateUnseen(c) => unheard' = unheard \cup {Len(tickets) + 1}
<1>1. TypeOK /\ MakeTicket(c) /\ call[c].session \in Sessions
  BY DEF BuilderInv, CallInv, CreateTask, CreateUnseen, At, Working, Used
<1> QED
  BY <1>1, TicketAdded DEF CreateTask, CreateUnseen

LEMMA QuietKeeps ==
  ASSUME NEW s, Quiet(s)
  PROVE  /\ NoTicket(s) => NoTicket(s)'
         /\ OneTicket(s) => OneTicket(s)'
         /\ \A t : OnlyTicket(s, t) => OnlyTicket(s, t)'
BY DEF Quiet, NoTicket, OneTicket, OnlyTicket

SamePage(w) ==
  /\ wiz'[w].session = wiz[w].session /\ wiz'[w].index = wiz[w].index
  /\ wiz'[w].ready = wiz[w].ready /\ wiz'[w].done = wiz[w].done
  /\ wiz'[w].trouble = wiz[w].trouble \/ wiz'[w].trouble = TRUE

SameCall(w) ==
  call'[w].session = call[w].session /\ call'[w].index = call[w].index /\ call'[w].ticket = call[w].ticket

(* The server's steps of a call that a page has made.                      *)
LEMMA ServerMove ==
  ASSUME BuilderInv, NEW w \in Wizards, ServerStep(w)
  PROVE  /\ SamePage(w)
         /\ \/ /\ call'[w].pc = "reply" /\ call'[w].result = "error"
               /\ \/ UpdateUnseen(w) /\ wiz'[w].trouble = TRUE
                  \/ MarkFails(w) /\ row' = row
                  \/ /\ call[w].pc \in {"insert", "read", "update", "check", "create"}
                     /\ row' = row
            \/ /\ Insert(w) /\ call'[w].pc = "reply" /\ call'[w].index = 1 /\ call'[w].ticket = 0
               /\ call'[w].session \in Sessions \ Used
               /\ row'[call'[w].session].index = 0 /\ row'[call'[w].session].slack = FALSE
            \/ ReadForAnswer(w) /\ call'[w].pc = "update" /\ SameCall(w)
            \/ /\ Update(w) /\ call'[w].pc = "reply" /\ call'[w].index = NextIndex(call[w].index)
               /\ call'[w].session = call[w].session /\ call'[w].ticket = call[w].ticket
            \/ Check(w) /\ call'[w].pc = "create" /\ SameCall(w)
            \/ /\ CreateUnseen(w) \/ CreateRetried(w)
               /\ call'[w].pc = "create" /\ SameCall(w)
            \/ /\ CreateTask(w) /\ call'[w].pc = "mark" /\ call'[w].session = call[w].session
               /\ call'[w].ticket = Len(tickets) + 1
            \/ MarkSubmitted(w) /\ call'[w].pc = "reply" /\ SameCall(w)
<1>0. /\ TypeOK /\ WizInv(w) /\ call[w] \in Call /\ w \in Callers /\ w \notin Messages
      /\ wiz \in [Wizards -> Wizard] /\ wiz[w] \in Wizard
      /\ call \in [Callers -> Call] /\ row \in [Sessions -> Row]
  <2>1. w \in Callers /\ w \notin Messages
    BY BuilderAssumption DEF Callers
  <2> QED
    BY <2>1 DEF BuilderInv, TypeOK
<1>1. /\ Ended(w, "ok") \in Call /\ Ended(w, "error") \in Call
      /\ Ended(w, "ok").pc = "reply" /\ Ended(w, "ok").session = call[w].session
      /\ Ended(w, "error").pc = "reply" /\ Ended(w, "error").result = "error"
      /\ Ended(w, "ok").ticket = call[w].ticket /\ Ended(w, "ok").index = call[w].index
  BY <1>0, EndedType
<1>2. SamePage(w)
  <2>1. CASE wiz' = wiz
    BY <2>1 DEF SamePage
  <2>2. CASE UpdateUnseen(w)
    <3>1. wiz'[w] = [wiz[w] EXCEPT !.trouble = TRUE]
      BY <1>0, <2>2 DEF UpdateUnseen
    <3> QED
      BY <1>0, <3>1 DEF SamePage, Wizard
  <2> QED
    BY <2>1, <2>2
       DEF ServerStep, Insert, InsertFails, ReadForAnswer, Update, UpdateRefused, Check,
           CreateTask, CreateUnseen, CreateRetried, CreateFails, MarkSubmitted, MarkFails, Fails
<1>3. CASE SetCall(w, Ended(w, "error"))
  <2>1. call'[w] = Ended(w, "error")
    BY <1>0, <1>3 DEF SetCall
  <2>2. CASE UpdateUnseen(w)
    <3>1. wiz'[w] = [wiz[w] EXCEPT !.trouble = TRUE]
      BY <1>0, <2>2 DEF UpdateUnseen
    <3>2. wiz'[w].trouble = TRUE
      BY <1>0, <3>1 DEF Wizard
    <3> QED
      BY <1>1, <1>2, <2>1, <2>2, <3>2
  <2>5. CASE MarkFails(w)
    BY <1>1, <1>2, <2>1, <2>5 DEF MarkFails
  <2>3. CASE \/ InsertFails(w) \/ ReadForAnswer(w) \/ UpdateRefused(w) \/ Check(w)
             \/ CreateUnseen(w) \/ CreateRetried(w) \/ CreateFails(w)
    <3>1. /\ call[w].pc \in {"insert", "read", "update", "check", "create"}
          /\ row' = row
      BY <2>3 DEF InsertFails, ReadForAnswer, UpdateRefused, Check, CreateUnseen, CreateRetried,
                  CreateFails, Fails, At
    <3> QED
      BY <1>1, <1>2, <2>1, <3>1
  <2>4. ~Insert(w) /\ ~Update(w) /\ ~CreateTask(w) /\ ~MarkSubmitted(w)
    <3>1. ASSUME call'[w].result = "ok" PROVE FALSE
      BY <1>1, <2>1, <3>1
    <3>2. Ended(w, "ok").result = "ok"
      BY <1>0, EndedType
    <3>3. ~Insert(w)
      <4> SUFFICES ASSUME Insert(w) PROVE FALSE
        OBVIOUS
      <4>1. PICK s \in Sessions \ Used :
              SetCall(w, [Ended(w, "ok") EXCEPT !.session = s, !.index = 1])
        BY <1>0 DEF Insert
      <4>2. call'[w] = [Ended(w, "ok") EXCEPT !.session = s, !.index = 1]
        BY <1>0, <4>1 DEF SetCall
      <4> QED
        BY <1>1, <3>1, <3>2, <4>2 DEF Call
    <3>4. ~Update(w)
      <4> SUFFICES ASSUME Update(w) PROVE FALSE
        OBVIOUS
      <4>1. call'[w] = [Ended(w, "ok") EXCEPT !.index = NextIndex(call[w].index)]
        BY <1>0 DEF Update, SetCall
      <4> QED
        BY <1>1, <3>1, <3>2, <4>1 DEF Call
    <3>5. ~CreateTask(w)
      <4> SUFFICES ASSUME CreateTask(w) PROVE FALSE
        OBVIOUS
      <4>1. call'[w] = [call[w] EXCEPT !.pc = "mark", !.ticket = Len(tickets) + 1,
                                       !.read = NoCall.read, !.attempt = 1]
        BY <1>0 DEF CreateTask, SetCall
      <4> QED
        BY <1>0, <1>1, <2>1, <4>1 DEF Call
    <3>6. ~MarkSubmitted(w)
      BY <1>0, <3>1, <3>2 DEF MarkSubmitted, SetCall
    <3> QED
      BY <3>3, <3>4, <3>5, <3>6
  <2> QED
    BY <2>2, <2>3, <2>4, <2>5 DEF ServerStep
<1>4. CASE Insert(w)
  <2>1. PICK s \in Sessions \ Used :
          /\ row' = [row EXCEPT ![s] = [NoRow EXCEPT !.status = "open", !.slack = w \in Messages]]
          /\ SetCall(w, [Ended(w, "ok") EXCEPT !.session = s, !.index = 1])
    BY <1>0, <1>4 DEF Insert, Write
  <2>2. call'[w] = [Ended(w, "ok") EXCEPT !.session = s, !.index = 1]
    BY <1>0, <2>1 DEF SetCall
  <2>3. call'[w].pc = "reply" /\ call'[w].index = 1 /\ call'[w].ticket = 0 /\ call'[w].session = s
    BY <1>0, <1>1, <1>4, <2>2 DEF Call, WizInv, Insert, At
  <2>4. row'[s] = [NoRow EXCEPT !.status = "open", !.slack = w \in Messages]
    BY <1>0, <2>1
  <2>5. row'[s].index = 0
    BY <2>4 DEF NoRow
  <2>6. row'[s].slack = FALSE
    <3> DEFINE mine == w \in Messages
    <3>1. row'[s].slack = mine
      BY <2>4 DEF NoRow
    <3>2. mine = FALSE
      BY <1>0
    <3> QED
      BY <3>1, <3>2
  <2> QED
    BY <1>2, <1>4, <2>3, <2>5, <2>6
<1>5. CASE ReadForAnswer(w) /\ ~SetCall(w, Ended(w, "error"))
  <2>1. call'[w] = [call[w] EXCEPT !.pc = "update", !.read = Copy(call[w].session)]
    BY <1>0, <1>5 DEF ReadForAnswer, SetCall
  <2>2. call'[w].pc = "update" /\ SameCall(w)
    BY <1>0, <2>1 DEF Call, SameCall
  <2> QED
    BY <1>2, <1>5, <2>2
<1>6. CASE Update(w)
  <2>1. call'[w] = [Ended(w, "ok") EXCEPT !.index = NextIndex(call[w].index)]
    BY <1>0, <1>6 DEF Update, SetCall
  <2>2. /\ call'[w].pc = "reply" /\ call'[w].index = NextIndex(call[w].index)
        /\ call'[w].session = call[w].session /\ call'[w].ticket = call[w].ticket
    BY <1>1, <2>1 DEF Call
  <2> QED
    BY <1>2, <1>6, <2>2
<1>7. CASE Check(w) /\ ~SetCall(w, Ended(w, "error"))
  <2>1. call'[w] = [call[w] EXCEPT !.pc = "create", !.read = Copy(call[w].session)]
    BY <1>0, <1>7 DEF Check, SetCall
  <2>2. call'[w].pc = "create" /\ SameCall(w)
    BY <1>0, <2>1 DEF Call, SameCall
  <2> QED
    BY <1>2, <1>7, <2>2
<1>8. CASE CreateTask(w)
  <2>1. call'[w] = [call[w] EXCEPT !.pc = "mark", !.ticket = Len(tickets) + 1,
                                   !.read = NoCall.read, !.attempt = 1]
    BY <1>0, <1>8 DEF CreateTask, SetCall
  <2>2. /\ call'[w].pc = "mark" /\ call'[w].session = call[w].session
        /\ call'[w].ticket = Len(tickets) + 1
    BY <1>0, <2>1 DEF Call
  <2> QED
    BY <1>2, <1>8, <2>2
<1>9. CASE MarkSubmitted(w)
  <2>1. call'[w] = Ended(w, "ok")
    BY <1>0, <1>9 DEF MarkSubmitted, SetCall
  <2>2. call'[w].pc = "reply" /\ SameCall(w)
    BY <1>1, <2>1 DEF SameCall
  <2> QED
    BY <1>2, <1>9, <2>2
<1>10. CASE (CreateUnseen(w) \/ CreateRetried(w)) /\ TriesAgain(w)
  <2>1. call'[w].pc = "create" /\ SameCall(w)
    BY <1>0, <1>10, RetryMoves DEF CreateUnseen, CreateRetried, At, SameCall
  <2> QED
    BY <1>2, <1>10, <2>1
<1> QED
  BY <1>3, <1>4, <1>5, <1>6, <1>7, <1>8, <1>9, <1>10
     DEF ServerStep, InsertFails, UpdateRefused, UpdateUnseen, CreateUnseen, CreateRetried,
         CreateFails, MarkFails, Fails

(* The page's own steps.                                                   *)
LEMMA PageMove ==
  ASSUME BuilderInv, NEW w \in Wizards, WizardStep(w)
  PROVE  \/ Boot(w) /\ wiz' = wiz /\ call'[w].pc = "insert"
         \/ /\ HandleSubmit(w) /\ wiz' = wiz /\ call'[w].pc = "read"
            /\ call'[w].session = wiz[w].session /\ call'[w].ticket = 0
         \/ /\ HandleFinalize(w) /\ wiz' = wiz /\ call'[w].pc = "check"
            /\ call'[w].session = wiz[w].session
         \/ HandleReply(w) /\ call'[w].pc = "idle"
         \/ LoseReply(w) /\ SamePage(w) /\ call'[w].pc = "idle" /\ wiz'[w].trouble = TRUE
<1>0. /\ w \in Callers /\ call \in [Callers -> Call] /\ wiz \in [Wizards -> Wizard]
      /\ wiz[w] \in Wizard
  BY DEF BuilderInv, TypeOK, Callers
<1>1. CASE Boot(w)
  <2>1. call'[w] = [NoCall EXCEPT !.pc = "insert"] /\ wiz' = wiz
    BY <1>0, <1>1 DEF Boot, SetCall
  <2> QED
    BY <1>1, <2>1 DEF NoCall
<1>2. CASE HandleSubmit(w)
  <2>1. /\ call'[w] = [NoCall EXCEPT !.pc = "read", !.session = wiz[w].session,
                                     !.index = wiz[w].index]
        /\ wiz' = wiz
    BY <1>0, <1>2 DEF HandleSubmit, SetCall
  <2> QED
    BY <1>2, <2>1 DEF NoCall
<1>3. CASE HandleFinalize(w)
  <2>1. /\ call'[w] = [NoCall EXCEPT !.pc = "check", !.session = wiz[w].session]
        /\ wiz' = wiz
    BY <1>0, <1>3 DEF HandleFinalize, SetCall
  <2> QED
    BY <1>3, <2>1 DEF NoCall
<1>4. CASE HandleReply(w)
  BY <1>0, <1>4 DEF HandleReply, SetCall, NoCall
<1>5. CASE LoseReply(w)
  BY <1>0, <1>5 DEF LoseReply, SetCall, NoCall, SamePage, Wizard
<1> QED
  BY <1>1, <1>2, <1>3, <1>4, <1>5 DEF WizardStep

LEMMA HeldSessions ==
  ASSUME BuilderInv, NEW w \in Wizards
  PROVE  /\ \A s \in Sessions : Holds(w, s) => s \in Used
         /\ call[w].pc \in Working => Holds(w, call[w].session) /\ call[w].session = wiz[w].session
         /\ Answers(w) => Holds(w, call[w].session)
         /\ wiz[w].session # 0 => Holds(w, wiz[w].session)
<1>1. /\ w \in Callers /\ WizInv(w) /\ CallInv(w) /\ 0 \notin Sessions /\ Used \subseteq Sessions
  BY DEF BuilderInv, Callers, Sessions, Used
<1> QED
  BY <1>1 DEF WizInv, CallInv, Holds

LEMMA HoldsKept ==
  ASSUME BuilderInv, Next, NEW w \in Wizards, NEW s \in Sessions, Holds(w, s)'
  PROVE  \/ Holds(w, s)
         \/ /\ Insert(w) /\ s = call'[w].session /\ s \notin Used
            /\ row'[s].index = 0 /\ row'[s].slack = FALSE
<1>0. w \in Callers /\ WizInv(w) /\ wiz \in [Wizards -> Wizard] /\ wiz[w] \in Wizard
  BY DEF BuilderInv, Callers, TypeOK
<1>1. CASE call'[w] = call[w] /\ wiz'[w] = wiz[w]
  BY <1>1 DEF Holds, Answers
<1>2. CASE ServerStep(w)
  <2>1. CASE s = wiz[w].session
    BY <2>1 DEF Holds
  <2>2. CASE s # wiz[w].session
    <3>1. Answers(w)' /\ s = call'[w].session
      BY <1>2, <2>2, ServerMove DEF Holds, SamePage
    <3>2. CASE Update(w) \/ MarkSubmitted(w)
      <4>1. call[w].pc \in Working
        BY <3>2 DEF Update, MarkSubmitted, At, Working
      <4>2. call'[w].session = call[w].session \/ Insert(w)
        BY <1>2, <3>1, ServerMove DEF Answers, SameCall
      <4>3. ~Insert(w)
        BY <3>2 DEF Insert, Update, MarkSubmitted, At
      <4> QED
        BY <2>2, <3>1, <4>1, <4>2, <4>3, HeldSessions
    <3> QED
      BY <1>2, <3>1, <3>2, ServerMove DEF Answers
  <2> QED
    BY <2>1, <2>2
<1>3. CASE WizardStep(w)
  <2>1. CASE HandleReply(w) /\ call'[w].pc = "idle"
    <3>1. s = wiz'[w].session
      BY <2>1 DEF Holds, Answers
    <3>2. \/ wiz'[w].session = wiz[w].session
          \/ Answers(w) /\ wiz'[w].session = call[w].session
      BY <1>0, <2>1 DEF HandleReply, Answers, At, Wizard
    <3> QED
      BY <3>1, <3>2 DEF Holds
  <2> QED
    BY <1>3, <2>1, PageMove DEF Holds, Answers, SamePage
<1>4. w \notin Messages
  BY BuilderAssumption
<1> QED
  BY <1>0, <1>1, <1>2, <1>3, <1>4, WhoMoves, MoveOfOne DEF Moves

LEMMA ApartKept ==
  ASSUME BuilderInv, OwnedApart, Next
  PROVE  OwnedApart'
<1>0. /\ TypeOK /\ call \in [Callers -> Call] /\ \A s \in Sessions : row[s] \in Row
      /\ Messages \subseteq Callers /\ \A c \in Callers : CallInv(c)
      /\ Messages \cap Wizards = {} /\ Grows
  BY StepGrows, BuilderAssumption DEF BuilderInv, TypeOK, Callers
<1>1. ASSUME NEW w \in Wizards, NEW s \in Sessions, Holds(w, s)' PROVE row'[s].slack = FALSE
  <2>1. CASE Holds(w, s)
    BY <2>1, HeldSessions, SideKept DEF OwnedApart
  <2> QED
    BY <1>1, <2>1, HoldsKept
<1>2. ASSUME NEW v \in Wizards, NEW w \in Wizards, NEW s \in Sessions, Holds(v, s)', Holds(w, s)'
      PROVE  v = w
  <2>1. CASE Holds(v, s) /\ Holds(w, s)
    BY <2>1 DEF OwnedApart
  <2>2. ASSUME Holds(v, s), ~Holds(w, s) PROVE FALSE
    BY <1>2, <2>2, HoldsKept, HeldSessions
  <2>3. ASSUME ~Holds(v, s), Holds(w, s) PROVE FALSE
    BY <1>2, <2>3, HoldsKept, HeldSessions
  <2>4. CASE ~Holds(v, s) /\ ~Holds(w, s)
    <3>1. Insert(v) /\ Insert(w)
      BY <1>2, <2>4, HoldsKept
    <3>2. v \in Callers /\ w \in Callers /\ ServerStep(v) /\ ServerStep(w)
      BY <3>1 DEF ServerStep, Callers
    <3>3. call'[w] # call[w]
      <4>1. call[w].pc = "insert" /\ call'[w].pc # "insert"
        BY <3>1, <3>2, ServerMove DEF Insert, At
      <4> QED
        BY <4>1
    <3> QED
      BY <3>2, <3>3, MoveOfOne DEF Moves
  <2> QED
    BY <2>1, <2>2, <2>3, <2>4
<1>3. ASSUME NEW c \in Messages, call'[c].pc \in Working PROVE row'[call'[c].session].slack = TRUE
  <2>0. c \in Callers /\ c \notin Wizards
    BY <1>0
  <2>1. CASE call[c].pc \in Working /\ call'[c].session = call[c].session
    BY <1>0, <2>0, <2>1, SideKept DEF OwnedApart, CallInv
  <2>2. CASE call'[c].session \in Thread
    <3>1. call'[c].session \in Used /\ row[call'[c].session].slack = TRUE
      <4>1. call'[c].session \in Sessions /\ call'[c].session \in Used
        BY <2>2 DEF Thread, Used
      <4> QED
        BY <1>0, <2>2, <4>1 DEF Thread, Row
    <3> QED
      BY <3>1, SideKept
  <2>3. CASE SlackCall(c)
    <3>1. CASE Step(c)
      <4>1. PICK answer \in BOOLEAN : call'[c] = [NoCall EXCEPT !.pc = "lookup", !.answer = answer]
        BY <1>0, <2>0, <3>1 DEF Step, SetCall
      <4>2. call'[c].pc = "lookup"
        BY <4>1 DEF NoCall
      <4> QED
        BY <1>3, <4>2 DEF Working
    <3>2. CASE LookUp(c)
      <4>1. call'[c].pc # "insert"
        BY <1>3 DEF Working
      <4>2. PICK s \in OpenHere : SetCall(c, Resumed(c, s, row[s].index))
        <5>1. ASSUME SetCall(c, [call[c] EXCEPT !.pc = "insert"]) PROVE FALSE
          BY <1>0, <2>0, <4>1, <5>1 DEF SetCall, Call
        <5> QED
          BY <3>2, <5>1 DEF LookUp
      <4>3. s \in Sessions /\ row[s].index \in Index /\ s \in Thread
        BY <1>0 DEF OpenHere, Thread, Used, Row
      <4>4. call'[c] = Resumed(c, s, row[s].index)
        BY <1>0, <2>0, <4>2 DEF SetCall
      <4>5. call'[c].session = s
        BY <1>0, <1>3, <2>0, <4>3, <4>4, ResumedType DEF Working
      <4> QED
        BY <2>2, <4>3, <4>5
    <3>3. CASE Refine(c)
      <4>1. PICK s \in Thread, index \in Index \ {0} :
              call'[c] = [NoCall EXCEPT !.pc = "read", !.session = s, !.index = index]
        BY <1>0, <2>0, <3>3 DEF Refine, SetCall
      <4>2. call'[c].session = s
        BY <4>1 DEF NoCall
      <4> QED
        BY <2>2, <4>2
    <3>4. CASE Finalize(c)
      <4>1. PICK s \in Thread : call'[c] = [NoCall EXCEPT !.pc = "check", !.session = s]
        BY <1>0, <2>0, <3>4 DEF Finalize, SetCall
      <4>2. call'[c].session = s
        BY <4>1 DEF NoCall
      <4> QED
        BY <2>2, <4>2
    <3> QED
      BY <2>3, <3>1, <3>2, <3>3, <3>4 DEF SlackCall
  <2>4. CASE ServerStep(c)
    <3>0. Ended(c, "ok").pc = "idle" /\ Ended(c, "error").pc = "idle"
      BY <1>0, <2>0, EndedType
    <3>1. ~SetCall(c, Ended(c, "ok")) /\ ~SetCall(c, Ended(c, "error")) /\ ~SetCall(c, NoCall)
      BY <1>0, <1>3, <2>0, <3>0 DEF SetCall, Working, NoCall
    <3>2. CASE Insert(c)
      <4>1. PICK s \in Sessions \ Used :
              /\ row' = [row EXCEPT ![s] = [NoRow EXCEPT !.status = "open", !.slack = c \in Messages]]
              /\ SetCall(c, Resumed(c, s, 0))
        BY <3>2 DEF Insert, Write
      <4>2. row'[s] = [NoRow EXCEPT !.status = "open", !.slack = c \in Messages]
        BY <1>0, <4>1 DEF TypeOK
      <4>3. row'[s].slack = (c \in Messages)
        BY <4>2 DEF NoRow
      <4>4. row'[s].slack = TRUE
        BY <4>3
      <4>5. call'[c] = Resumed(c, s, 0)
        BY <1>0, <2>0, <4>1 DEF SetCall
      <4>6. call'[c].session = s
        BY <1>0, <1>3, <2>0, <4>5, ResumedType, Indices DEF Working
      <4> QED
        BY <4>4, <4>6
    <3>3. CASE ReadForAnswer(c)
      <4>1. call'[c] = [call[c] EXCEPT !.pc = "update", !.read = Copy(call[c].session)]
        BY <1>0, <2>0, <3>1, <3>3 DEF ReadForAnswer, SetCall
      <4> QED
        BY <1>0, <2>0, <2>1, <3>3, <4>1 DEF Call, ReadForAnswer, At, Working
    <3>4. CASE Check(c)
      <4>1. call'[c] = [call[c] EXCEPT !.pc = "create", !.read = Copy(call[c].session)]
        BY <1>0, <2>0, <3>1, <3>4 DEF Check, SetCall
      <4> QED
        BY <1>0, <2>0, <2>1, <3>4, <4>1 DEF Call, Check, At, Working
    <3>5. CASE CreateTask(c)
      <4>1. call'[c] = [call[c] EXCEPT !.pc = "mark", !.ticket = Len(tickets) + 1,
                                       !.read = NoCall.read, !.attempt = 1]
        BY <1>0, <2>0, <3>5 DEF CreateTask, SetCall
      <4> QED
        BY <1>0, <2>0, <2>1, <3>5, <4>1 DEF Call, CreateTask, At, Working
    <3>6. CASE (CreateUnseen(c) \/ CreateRetried(c)) /\ TriesAgain(c)
      <4>1. call[c].pc = "create" /\ call'[c].session = call[c].session
        BY <1>0, <2>0, <3>6, RetryMoves DEF CreateUnseen, CreateRetried, At
      <4> QED
        BY <2>1, <4>1 DEF Working
    <3> QED
      BY <2>4, <3>1, <3>2, <3>3, <3>4, <3>5, <3>6
         DEF ServerStep, InsertFails, Update, UpdateRefused, UpdateUnseen, CreateUnseen,
             CreateRetried, CreateFails, MarkSubmitted, MarkFails, Fails
  <2>5. CASE call'[c] = call[c]
    BY <1>3, <2>1, <2>5
  <2> QED
    BY <2>0, <2>3, <2>4, <2>5, WhoMoves, MoveOfOne DEF Moves
<1>4. ASSUME NEW i \in DOMAIN tickets' PROVE tickets'[i].session \in Used'
  <2>1. CASE tickets' = tickets
    BY <1>0, <2>1 DEF OwnedApart, Grows
  <2>2. ASSUME NEW c \in Callers, CreateTask(c) \/ CreateUnseen(c)
        PROVE  tickets'[i].session \in Used'
    <3>1. call[c].session \in Used
      BY <1>0, <2>2 DEF CallInv, CreateTask, CreateUnseen, At, Working
    <3> QED
      BY <1>0, <2>2, <3>1, NewTicket DEF OwnedApart, Grows
  <2> QED
    BY <2>1, <2>2, WhoCreates
<1> QED
  BY <1>1, <1>2, <1>3, <1>4 DEF OwnedApart

(* What others, and the page's other steps, leave of a held session.       *)
LEMMA HeldIndex ==
  ASSUME BuilderInv, OwnedApart, Next, NEW w \in Wizards, NEW s \in Sessions, Holds(w, s),
         ~Update(w), ~UpdateUnseen(w)
  PROVE  row'[s].index = row[s].index
<1>1. ASSUME NEW c \in Callers, Update(c) \/ UpdateUnseen(c) PROVE call[c].session # s
  <2>1. call[c].pc \in Working
    BY <1>1 DEF Update, UpdateUnseen, At, Working
  <2>2. c # w
    BY <1>1
  <2>3. CASE c \in Messages
    BY <2>1, <2>3 DEF OwnedApart
  <2>4. CASE c \in Wizards
    BY <2>1, <2>2, <2>4, HeldSessions DEF OwnedApart
  <2> QED
    BY <2>3, <2>4 DEF Callers
<1> QED
  BY <1>1, HeldSessions, WhoAnswers

LEMMA HeldTickets ==
  ASSUME BuilderInv, OwnedApart, Next, NEW w \in Wizards, NEW s \in Sessions, Holds(w, s),
         ~CreateTask(w)
  PROVE  Quiet(s)
<1>0. unheard \subseteq unheard'
  BY WhoCreates
<1>1. CASE tickets' = tickets
  BY <1>0, <1>1 DEF Quiet, Heard
<1>2. ASSUME NEW c \in Callers, CreateTask(c) PROVE Quiet(s)
  <2>1. call[c].pc \in Working
    BY <1>2 DEF CreateTask, At, Working
  <2>2. call[c].session # s
    <3>1. c # w
      BY <1>2
    <3>2. CASE c \in Messages
      BY <2>1, <3>2 DEF OwnedApart
    <3>3. CASE c \in Wizards
      BY <2>1, <3>1, <3>3, HeldSessions DEF OwnedApart
    <3> QED
      BY <3>2, <3>3 DEF Callers
  <2> QED
    BY <1>2, <2>2, NewTicket DEF Quiet, Heard
<1>3. ASSUME NEW c \in Callers, CreateUnseen(c) PROVE Quiet(s)
  BY <1>3, NewTicket DEF Quiet, Heard
<1> QED
  BY <1>1, <1>2, <1>3, WhoCreates

LEMMA InStepKept ==
  ASSUME BuilderInv, WizardSteps, Next, NEW w \in Wizards
  PROVE  InStep(w)'
<1> SUFFICES ASSUME NEW s, s = wiz[w].session, NEW cs, cs = call[w].session,
                    NEW s1, s1 = wiz'[w].session, NEW cs1, cs1 = call'[w].session
             PROVE  InStepAt(w, s1, cs1)'
  BY DEF InStep
<1>0. /\ OwnedApart /\ InStepAt(w, s, cs) /\ WizInv(w) /\ CallInv(w) /\ w \in Callers
      /\ w \notin Messages
      /\ wiz \in [Wizards -> Wizard] /\ wiz[w] \in Wizard /\ call[w] \in Call
      /\ call \in [Callers -> Call]
      /\ Used \subseteq Sessions /\ 0 \notin Sessions
  <2>1. w \in Callers /\ w \notin Messages /\ 0 \notin Sessions
    BY BuilderAssumption DEF Callers, Sessions
  <2> QED
    BY <2>1 DEF BuilderInv, TypeOK, WizardSteps, Used, InStep
<1>3. /\ s # 0 => Holds(w, s) /\ s \in Sessions
      /\ Answers(w) => Holds(w, cs) /\ cs \in Sessions /\ cs \in Used
      /\ call[w].pc \in Working => cs = s /\ Holds(w, s) /\ s \in Sessions
  BY <1>0, HeldSessions DEF Holds, WizInv
<1>1. ~Update(w) /\ ~UpdateUnseen(w) =>
        /\ s # 0 => row'[s].index = row[s].index
        /\ Answers(w) => row'[cs].index = row[cs].index
  BY <1>0, <1>3, HeldIndex
<1>2. ~CreateTask(w) =>
        /\ s # 0 => /\ NoTicket(s) => NoTicket(s)'
                    /\ OneTicket(s) => OneTicket(s)'
                    /\ \A t : OnlyTicket(s, t) => OnlyTicket(s, t)'
        /\ Answers(w) => (NoTicket(cs) => NoTicket(cs)')
  BY <1>0, <1>3, HeldTickets, QuietKeeps
<1>7. CreateTask(w) => call[w].pc = "create" /\ call'[w].pc = "mark"
  <2> SUFFICES ASSUME CreateTask(w) PROVE call[w].pc = "create" /\ call'[w].pc = "mark"
    OBVIOUS
  <2>1. call'[w] = [call[w] EXCEPT !.pc = "mark", !.ticket = Len(tickets) + 1,
                                   !.read = NoCall.read, !.attempt = 1]
    BY <1>0 DEF CreateTask, SetCall
  <2> QED
    BY <1>0, <2>1 DEF CreateTask, At, Call
<1>8. Update(w) \/ UpdateUnseen(w) => call[w].pc = "update" /\ call'[w].pc = "reply"
  <2>1. /\ Ended(w, "ok") \in Call /\ Ended(w, "error") \in Call
        /\ Ended(w, "ok").pc = "reply" /\ Ended(w, "error").pc = "reply"
    BY <1>0, EndedType DEF BuilderInv
  <2>2. \A i : [Ended(w, "ok") EXCEPT !.index = i].pc = "reply"
    BY <2>1 DEF Call
  <2> QED
    BY <1>0, <2>1, <2>2 DEF Update, UpdateUnseen, At, SetCall
<1>4. CASE call'[w] = call[w] /\ wiz'[w] = wiz[w]
  <2>1. ~Update(w) /\ ~UpdateUnseen(w) /\ ~CreateTask(w)
    BY <1>4, <1>7, <1>8
  <2>2. (Answers(w)' <=> Answers(w)) /\ (TurnReply(w)' <=> TurnReply(w)) /\ (Made(w)' <=> Made(w))
    BY <1>4 DEF Answers, TurnReply, Made
  <2>3. s1 = s /\ cs1 = cs
    BY <1>4
  <2>4. s # 0 => (Agrees(w, s) => Agrees(w, s)')
    BY <1>1, <1>4, <2>1 DEF Agrees
  <2> QED
    BY <1>0, <1>1, <1>2, <1>4, <2>1, <2>2, <2>3, <2>4 DEF InStepAt
<1>5. CASE ServerStep(w)
  <2>0. /\ s1 = s /\ wiz'[w].index = wiz[w].index /\ wiz'[w].ready = wiz[w].ready
        /\ wiz'[w].done = wiz[w].done
        /\ wiz'[w].trouble = FALSE => wiz[w].trouble = FALSE
    BY <1>5, ServerMove DEF SamePage
  <2>1. CASE /\ call'[w].pc = "reply" /\ call'[w].result = "error"
             /\ \/ UpdateUnseen(w) /\ wiz'[w].trouble = TRUE
                \/ /\ call[w].pc \in {"insert", "read", "update", "check", "create"}
                   /\ row' = row
    <3>1. ~Answers(w)' /\ ~TurnReply(w)' /\ ~Made(w)'
      BY <2>1 DEF Answers, TurnReply, Made
    <3>2. /\ ~Answers(w) /\ ~TurnReply(w) /\ ~Made(w) /\ ~CreateTask(w)
          /\ call[w].pc \in {"insert", "read", "update", "check", "create"}
      BY <1>7, <1>8, <2>1 DEF Answers, TurnReply, Made
    <3>3. row' = row => (Agrees(w, s) => Agrees(w, s)')
      BY <2>0 DEF Agrees
    <3> QED
      BY <1>0, <1>2, <2>0, <2>1, <3>1, <3>2, <3>3 DEF InStepAt
  <2>2. CASE call'[w].pc = "reply" /\ call'[w].result = "error" /\ MarkFails(w) /\ row' = row
    <3>1. ~Answers(w)' /\ ~TurnReply(w)' /\ ~Made(w)'
      BY <2>2 DEF Answers, TurnReply, Made
    <3>2. /\ ~Answers(w) /\ ~TurnReply(w) /\ Made(w) /\ ~CreateTask(w)
          /\ tickets' = tickets /\ unheard' = unheard \cup {call[w].ticket}
      BY <1>7, <2>2 DEF MarkFails, At, Answers, TurnReply, Made
    <3>3. Agrees(w, s) => Agrees(w, s)'
      BY <2>0, <2>2 DEF Agrees
    <3>4. OnlyTicket(s, call[w].ticket) => NoTicket(s)'
      BY <3>2 DEF OnlyTicket, NoTicket, Heard
    <3> QED
      BY <1>0, <1>2, <2>0, <2>2, <3>1, <3>2, <3>3, <3>4 DEF InStepAt
  <2>3. CASE /\ Insert(w) /\ call'[w].pc = "reply" /\ call'[w].index = 1 /\ call'[w].ticket = 0
             /\ cs1 \in Sessions \ Used
             /\ row'[cs1].index = 0 /\ row'[cs1].slack = FALSE
    <3>1. call[w].pc = "insert" /\ tickets' = tickets
      BY <2>3 DEF Insert, At
    <3>2. NoTicket(cs1)'
      BY <1>0, <2>3, <3>1 DEF OwnedApart, NoTicket, Heard
    <3>3. Expected(row'[cs1].index) = 1
      BY <2>3 DEF Expected
    <3>4. s = 0
      BY <1>0, <3>1 DEF InStepAt
    <3> QED
      BY <2>0, <2>3, <3>2, <3>3, <3>4 DEF InStepAt
  <2>4. CASE ReadForAnswer(w) /\ call'[w].pc = "update" /\ SameCall(w)
    <3>1. call[w].pc = "read" /\ row' = row /\ tickets' = tickets
      BY <2>4 DEF ReadForAnswer, At
    <3>2. /\ ~Answers(w)' /\ ~Answers(w) /\ ~TurnReply(w)' /\ ~TurnReply(w)
          /\ ~Made(w)' /\ ~Made(w)
      BY <2>4, <3>1 DEF Answers, TurnReply, Made
    <3>3. Agrees(w, s) => Agrees(w, s)'
      BY <2>0, <3>1 DEF Agrees
    <3> QED
      BY <1>0, <1>2, <1>7, <2>0, <2>4, <3>1, <3>2, <3>3 DEF InStepAt, SameCall
  <2>5. CASE /\ Update(w) /\ call'[w].pc = "reply" /\ call'[w].index = NextIndex(call[w].index)
             /\ cs1 = cs /\ call'[w].ticket = call[w].ticket
    <3>1. /\ call[w].pc = "update" /\ tickets' = tickets
          /\ AnswersRow(cs) /\ call[w].index = Expected(row[cs].index) /\ cs \in Sessions
      <4>1. At(w, "update") /\ UpdateMatches(w) /\ Advance(w) /\ tickets' = tickets
        BY <2>5 DEF Update
      <4> QED
        BY <1>0, <4>1, AnsweringMovesRow DEF CallInv, At, UpdateMatches
    <3>2. cs = s
      BY <1>3, <3>1 DEF Working
    <3>3. row'[s].index = call'[w].index /\ call'[w].index # 0
      <4>1. row[s].index \in Index
        BY <3>1, <3>2 DEF BuilderInv, TypeOK, Row
      <4> QED
        BY <2>5, <3>1, <3>2, <4>1, NextAnswer DEF AnswersRow
    <3>4. Matches(call'[w].index, row'[s].index)
      BY <3>3 DEF Matches, Expected
    <3>5. call'[w].ticket = 0 /\ ~TurnReply(w) /\ ~Answers(w)
      BY <1>0, <2>5, <3>1 DEF InStepAt, TurnReply, Answers
    <3>6. ~Made(w) /\ ~Made(w)' /\ ~CreateTask(w)
      BY <1>7, <2>5, <3>1, <3>5 DEF Made, Answers
    <3>7. Answers(w)' => TurnReply(w)'
      BY <3>5 DEF TurnReply
    <3>8. Answers(w)'
      <4>1. call'[w].result = "ok"
        <5>1. call'[w] = [Ended(w, "ok") EXCEPT !.index = NextIndex(call[w].index)]
          BY <1>0, <2>5 DEF Update, SetCall
        <5>2. Ended(w, "ok").result = "ok" /\ Ended(w, "ok") \in Call
          BY <1>0, EndedType DEF BuilderInv
        <5> QED
          BY <5>1, <5>2 DEF Call
      <4> QED
        BY <2>5, <4>1 DEF Answers
    <3> QED
      BY <1>0, <1>2, <2>0, <2>5, <3>1, <3>2, <3>4, <3>5, <3>6, <3>7, <3>8 DEF InStepAt
  <2>6. CASE Check(w) /\ call'[w].pc = "create" /\ SameCall(w)
    <3>1. call[w].pc = "check" /\ row' = row
      BY <2>6 DEF Check, At
    <3>2. /\ ~Answers(w)' /\ ~Answers(w) /\ ~TurnReply(w)' /\ ~TurnReply(w)
          /\ ~Made(w)' /\ ~Made(w)
      BY <2>6, <3>1 DEF Answers, TurnReply, Made
    <3>3. Agrees(w, s) => Agrees(w, s)'
      BY <2>0, <3>1 DEF Agrees
    <3> QED
      BY <1>0, <1>2, <1>7, <2>0, <2>6, <3>1, <3>2, <3>3 DEF InStepAt, SameCall
  <2>9. CASE /\ CreateUnseen(w) \/ CreateRetried(w)
             /\ call'[w].pc = "create" /\ SameCall(w)
    <3>1. call[w].pc = "create" /\ row' = row
      BY <2>9 DEF CreateUnseen, CreateRetried, At
    <3>2. /\ ~Answers(w)' /\ ~Answers(w) /\ ~TurnReply(w)' /\ ~TurnReply(w)
          /\ ~Made(w)' /\ ~Made(w)
      BY <2>9, <3>1 DEF Answers, TurnReply, Made
    <3>3. Agrees(w, s) => Agrees(w, s)'
      BY <2>0, <3>1 DEF Agrees
    <3> QED
      BY <1>0, <1>2, <1>7, <2>0, <2>9, <3>1, <3>2, <3>3 DEF InStepAt, SameCall
  <2>7. CASE /\ CreateTask(w) /\ call'[w].pc = "mark" /\ cs1 = cs
             /\ call'[w].ticket = Len(tickets) + 1
    <3>1. call[w].pc = "create" /\ row' = row
      BY <2>7 DEF CreateTask, At
    <3>2. ~Answers(w)' /\ ~Answers(w) /\ ~TurnReply(w)' /\ ~TurnReply(w) /\ Made(w)'
      BY <2>7, <3>1 DEF Answers, TurnReply, Made
    <3>3. Agrees(w, s) => Agrees(w, s)'
      BY <2>0, <3>1 DEF Agrees
    <3>4. PICK n : n = Len(tickets) + 1
      OBVIOUS
    <3>5. NoTicket(s) => OneTicket(s)' /\ OnlyTicket(s, n)'
      BY <1>0, <2>7, <3>4, NewTicket DEF NoTicket, OneTicket, OnlyTicket, Heard
    <3> QED
      BY <1>0, <2>0, <2>7, <3>1, <3>2, <3>3, <3>4, <3>5 DEF InStepAt
  <2>8. CASE MarkSubmitted(w) /\ call'[w].pc = "reply" /\ SameCall(w)
    <3>1. call[w].pc = "mark" /\ tickets' = tickets /\ cs1 = cs
      BY <2>8 DEF MarkSubmitted, At, SameCall
    <3>2. cs = s /\ s \in Sessions
      BY <1>3, <3>1 DEF Working
    <3>3. call[w].ticket # 0
      <4>1. call[w].ticket \in DOMAIN tickets
        BY <1>0, <3>1 DEF CallInv
      <4>2. tickets \in Seq([session : Sessions, sections : SUBSET (1..NumQuestions)])
        BY DEF BuilderInv, TypeOK
      <4> QED
        BY <4>1, <4>2
    <3>4. ~TurnReply(w)' /\ ~TurnReply(w) /\ ~Answers(w) /\ call'[w].ticket # 0
      BY <2>8, <3>1, <3>3 DEF TurnReply, Answers, SameCall
    <3>5. Answers(w)'
      <4>1. call'[w] = Ended(w, "ok")
        BY <1>0, <2>8 DEF MarkSubmitted, SetCall
      <4>2. Ended(w, "ok").result = "ok"
        BY <1>0, EndedType DEF BuilderInv
      <4> QED
        BY <2>8, <4>1, <4>2 DEF Answers
    <3>6. row'[s].index = row[s].index
      <4>1. ~Update(w) /\ ~UpdateUnseen(w)
        BY <3>1 DEF Update, UpdateUnseen, At
      <4> QED
        BY <1>0, <1>1, <3>2, <4>1
    <3>7. Agrees(w, s) => Agrees(w, s)'
      BY <2>0, <3>6 DEF Agrees
    <3>8. Made(w) /\ Made(w)' /\ ~CreateTask(w)
      BY <1>7, <2>8, <3>1, <3>4, <3>5 DEF Made, SameCall
    <3> QED
      BY <1>0, <1>2, <2>0, <2>8, <3>1, <3>2, <3>4, <3>5, <3>7, <3>8 DEF InStepAt, SameCall
  <2> QED
    BY <1>5, <2>1, <2>2, <2>3, <2>4, <2>5, <2>6, <2>7, <2>8, <2>9, ServerMove
<1>6. CASE WizardStep(w)
  <2>1. row' = row /\ tickets' = tickets
    BY <1>6 DEF WizardStep, Boot, HandleSubmit, HandleFinalize, HandleReply, LoseReply
  <2>2. \A t : /\ NoTicket(t) => NoTicket(t)'
               /\ OneTicket(t) => OneTicket(t)'
    <3>1. unheard \subseteq unheard'
      BY WhoCreates
    <3>2. \A t : Quiet(t)
      BY <2>1, <3>1 DEF Quiet, Heard
    <3> QED
      BY <3>2, QuietKeeps
  <2>3. CASE Boot(w) /\ wiz' = wiz /\ call'[w].pc = "insert"
    <3>1. s = 0 /\ s1 = 0 /\ ~Answers(w)'
      BY <2>3 DEF Boot, Answers
    <3> QED
      BY <2>3, <3>1 DEF InStepAt
  <2>4. CASE \/ /\ HandleSubmit(w) /\ wiz' = wiz /\ call'[w].pc = "read"
                /\ cs1 = s /\ call'[w].ticket = 0
             \/ HandleFinalize(w) /\ wiz' = wiz /\ call'[w].pc = "check" /\ cs1 = s
    <3>1. /\ s1 = s /\ ~Answers(w)' /\ ~Answers(w) /\ ~TurnReply(w) /\ ~TurnReply(w)'
          /\ ~Made(w)' /\ ~Made(w) /\ call[w].pc = "idle"
      BY <2>4 DEF HandleSubmit, HandleFinalize, At, Answers, TurnReply, Made
    <3>2. Agrees(w, s) => Agrees(w, s)'
      BY <2>1, <2>4 DEF Agrees
    <3>3. /\ call'[w].pc = "read" => wiz[w].ready = FALSE /\ call'[w].ticket = 0
          /\ call'[w].pc = "check" => wiz[w].done = FALSE
          /\ call'[w].pc \in {"read", "check"}
      BY <1>0, <2>4 DEF HandleSubmit, HandleFinalize, Wizard
    <3> QED
      BY <1>0, <2>2, <2>4, <3>1, <3>2, <3>3 DEF InStepAt
  <2>5. CASE LoseReply(w) /\ SamePage(w) /\ call'[w].pc = "idle" /\ wiz'[w].trouble = TRUE
    <3>1. ~Answers(w)' /\ ~TurnReply(w)' /\ ~Made(w)' /\ call[w].pc = "reply"
      BY <2>5 DEF LoseReply, At, Answers, TurnReply, Made
    <3>2. s1 = s /\ wiz'[w].done = wiz[w].done
      BY <2>5 DEF SamePage
    <3>3. Made(w) /\ OnlyTicket(s, call[w].ticket) => NoTicket(s)'
      BY <2>1, <2>5, <3>1 DEF Made, LoseReply, OnlyTicket, NoTicket, Heard
    <3> QED
      BY <1>0, <2>2, <2>5, <3>1, <3>2, <3>3 DEF InStepAt
  <2>6. CASE HandleReply(w) /\ call'[w].pc = "idle"
    <3>0. ~Answers(w)' /\ ~TurnReply(w)' /\ ~Made(w)' /\ call[w].pc = "reply"
      BY <2>6 DEF HandleReply, At, Answers, TurnReply, Made
    <3>1. CASE call[w].result = "error"
      <4>1. wiz' = wiz /\ ~Answers(w) /\ ~TurnReply(w) /\ ~Made(w) /\ s1 = s
        BY <2>6, <3>0, <3>1 DEF HandleReply, Answers, TurnReply, Made
      <4>2. Agrees(w, s) => Agrees(w, s)'
        BY <2>1, <4>1 DEF Agrees
      <4> QED
        BY <1>0, <2>2, <2>6, <3>0, <4>1, <4>2 DEF InStepAt
    <3>2. CASE call[w].result # "error" /\ call[w].ticket # 0
      <4>1. wiz'[w] = [wiz[w] EXCEPT !.done = TRUE]
        BY <1>0, <2>6, <3>2 DEF HandleReply
      <4>2. /\ wiz'[w].session = s /\ wiz'[w].ready = wiz[w].ready /\ wiz'[w].index = wiz[w].index
            /\ wiz'[w].done = TRUE /\ wiz'[w].trouble = wiz[w].trouble
        BY <1>0, <4>1 DEF Wizard
      <4>3. ~TurnReply(w)
        BY <3>2 DEF TurnReply
      <4>4. Agrees(w, s) => Agrees(w, s)'
        BY <2>1, <4>2 DEF Agrees
      <4> QED
        BY <1>0, <2>2, <2>6, <3>0, <4>2, <4>3, <4>4 DEF InStepAt
    <3>3. CASE call[w].result # "error" /\ call[w].ticket = 0 /\ call[w].index = Ready
      <4>1. wiz'[w] = [wiz[w] EXCEPT !.ready = TRUE]
        BY <1>0, <2>6, <3>3 DEF HandleReply
      <4>2. /\ wiz'[w].session = s /\ wiz'[w].ready = TRUE /\ wiz'[w].index = wiz[w].index
            /\ wiz'[w].done = wiz[w].done /\ wiz'[w].trouble = wiz[w].trouble
        BY <1>0, <4>1 DEF Wizard
      <4>3. TurnReply(w) /\ Answers(w) /\ ~Made(w)
        BY <3>0, <3>3 DEF TurnReply, Answers, Made
      <4>4. Matches(call[w].index, row[s].index) => Agrees(w, s)'
        BY <2>1, <3>3, <4>2 DEF Agrees, Matches
      <4> QED
        BY <1>0, <2>2, <2>6, <3>0, <3>3, <4>2, <4>3, <4>4 DEF InStepAt
    <3>4. CASE call[w].result # "error" /\ call[w].ticket = 0 /\ call[w].index # Ready
      <4>1. wiz'[w] = [wiz[w] EXCEPT !.session = cs, !.index = call[w].index]
        BY <1>0, <2>6, <3>4 DEF HandleReply
      <4>2. /\ s1 = cs /\ wiz'[w].ready = wiz[w].ready /\ wiz'[w].index = call[w].index
            /\ wiz'[w].done = wiz[w].done /\ wiz'[w].trouble = wiz[w].trouble
        <5>1. cs \in {0} \cup Sessions /\ call[w].index \in Index
          BY <1>0 DEF Call
        <5> QED
          BY <1>0, <4>1, <5>1 DEF Wizard
      <4>3. TurnReply(w) /\ Answers(w) /\ ~Made(w)
        BY <3>0, <3>4 DEF TurnReply, Answers, Made
      <4>4. CASE s # 0
        <5>0. NoTicket(s1)' \/ s1 = s
          BY <1>0, <2>2, <4>2, <4>3 DEF InStepAt
        <5>3. NoTicket(s1)' => OneTicket(s1)'
          BY DEF NoTicket, OneTicket
        <5>1. wiz[w].trouble = FALSE => cs = s /\ wiz[w].ready = FALSE /\ Expected(row[s].index) = call[w].index
          BY <1>0, <3>4, <4>3, <4>4 DEF InStepAt, Matches
        <5>2. wiz[w].trouble = FALSE => Agrees(w, s1)'
          BY <2>1, <4>2, <5>1 DEF Agrees
        <5> QED
          BY <1>0, <2>2, <2>6, <3>0, <3>4, <4>2, <4>3, <4>4, <5>0, <5>1, <5>2, <5>3 DEF InStepAt
      <4>5. CASE s = 0
        <5>1. cs # s /\ call[w].index = 1 /\ wiz[w].ready # TRUE
          BY <1>0, <1>3, <4>3, <4>5 DEF WizInv
        <5>2. Expected(row[cs].index) = 1 /\ NoTicket(cs)
          BY <1>0, <4>3, <5>1 DEF InStepAt
        <5>3. Agrees(w, s1)'
          BY <2>1, <4>2, <5>1, <5>2 DEF Agrees
        <5>4. NoTicket(s1)'
          BY <2>2, <4>2, <5>2
        <5>5. OneTicket(s1)'
          BY <5>4 DEF NoTicket, OneTicket
        <5> QED
          BY <2>6, <3>0, <5>3, <5>4, <5>5 DEF InStepAt
      <4> QED
        BY <4>4, <4>5
    <3> QED
      BY <3>1, <3>2, <3>3, <3>4
  <2> QED
    BY <1>6, <2>3, <2>4, <2>5, <2>6, PageMove
<1> QED
  BY <1>0, <1>4, <1>5, <1>6, WhoMoves, MoveOfOne DEF Moves

(* Unless a reply was lost or an error hid a write, the wizard asks the    *)
(* question the server expects; and of the tickets of its session at most  *)
(* one is there whose answer was not lost, however often ClickUp's client  *)
(* tries again and Finalize is pressed (the wizard page, its routes and    *)
(* ClickUpHttpClient.request), for any number of pages and attempts.       *)
THEOREM WizardsStayInStep == Spec => []WizardInStep
<1>1. Init => WizardSteps
  <2> SUFFICES ASSUME Init PROVE WizardSteps
    OBVIOUS
  <2>1. /\ \A w \in Wizards : wiz[w].session = 0 /\ call[w] = NoCall
        /\ \A c \in Messages : call[c] = NoCall
        /\ DOMAIN tickets = {}
    BY DEF Init, Callers
  <2>2. 0 \notin Sessions /\ NoCall.pc = "idle"
    BY DEF Sessions, NoCall
  <2> QED
    BY <2>1, <2>2
       DEF WizardSteps, OwnedApart, Holds, Answers, Working, InStep, InStepAt
<1>2. BuilderInv /\ WizardSteps /\ [Next]_builderVars => WizardSteps'
  <2> SUFFICES ASSUME BuilderInv, WizardSteps, [Next]_builderVars PROVE WizardSteps'
    OBVIOUS
  <2>1. CASE Next
    BY <2>1, ApartKept, InStepKept DEF WizardSteps
  <2>2. CASE UNCHANGED builderVars
    BY <2>2 DEF builderVars, WizardSteps, OwnedApart, InStep, InStepAt, Holds, Answers, TurnReply,
                Agrees, Made, NoTicket, OneTicket, OnlyTicket, Heard, Used
  <2> QED
    BY <2>1, <2>2
<1>3. BuilderInv /\ WizardSteps => WizardInStep
  <2> SUFFICES ASSUME BuilderInv, WizardSteps, NEW w \in Wizards, NEW s, s = wiz[w].session, s # 0
               PROVE  /\ ~wiz[w].trouble /\ At(w, "idle") =>
                           IF wiz[w].ready THEN row[s].index = Ready
                                           ELSE Expected(row[s].index) = wiz[w].index
                      /\ \A i, k \in DOMAIN tickets \ unheard :
                           tickets[i].session = s /\ tickets[k].session = s => i = k
    BY DEF WizardInStep
  <2>0. wiz[w] \in Wizard /\ InStepAt(w, s, call[w].session)
    BY DEF BuilderInv, TypeOK, WizardSteps, InStep
  <2>1. ASSUME ~wiz[w].trouble, At(w, "idle")
        PROVE  IF wiz[w].ready THEN row[s].index = Ready
                               ELSE Expected(row[s].index) = wiz[w].index
    <3>1. wiz[w].trouble = FALSE
      BY <2>0, <2>1 DEF Wizard
    <3>2. Agrees(w, s)
      BY <2>0, <2>1, <3>1 DEF InStepAt, TurnReply, Answers, At
    <3> QED
      BY <2>0, <3>2 DEF Agrees, Wizard
  <2>2. OneTicket(s)
    BY <2>0 DEF InStepAt
  <2> QED
    BY <2>1, <2>2 DEF OneTicket, Heard
<1> QED
  BY <1>1, <1>2, <1>3, BuilderInvariant, PTL DEF Spec

=============================================================================
