--------------------------- MODULE AgentBuilder ---------------------------
(***************************************************************************)
(* Agent Builder: sessions that ask a fixed list of questions and end in a *)
(* ClickUp ticket.  The rows live in Supabase (src/core/agent-builder/     *)
(* session.ts) and are reached from Slack (slack-tools.ts: one call per    *)
(* message, several messages of a thread in flight at once), from the      *)
(* dashboard's wizard (src/api/agent-builder.routes.ts and                 *)
(* dashboard/src/app/(dashboard)/agents/new/page.tsx) and by the weekly    *)
(* digest worker (digest-worker.ts, digest.ts).                            *)
(*                                                                         *)
(* One action is the code between two awaits: a call reads the row it will *)
(* later write.  All Slack messages here are of one user in one thread.    *)
(* Only the numbers of the answered questions are kept of a transcript.    *)
(***************************************************************************)
EXTENDS Naturals, Sequences, FiniteSets, SequencesExt

CONSTANTS
  MaxSessions,   \* bound: sessions that are ever created
  Messages,      \* handlers of the thread's Slack messages, one message at a time each
  Wizards,       \* browser tabs with the dashboard's wizard
  NumQuestions,  \* CANONICAL_COUNT
  MaxAnswers,    \* bound: answers in one transcript
  MaxTickets,    \* bound: tickets created in ClickUp
  MaxAttempts    \* MAX_ATTEMPTS of ClickUpHttpClient.request

ASSUME BuilderAssumption ==
  /\ MaxSessions \in Nat \ {0}
  /\ NumQuestions \in 2..98   \* below READY_TO_FINALIZE_INDEX
  /\ MaxAnswers \in Nat
  /\ MaxTickets \in Nat
  /\ MaxAttempts \in Nat \ {0}
  /\ Messages \cap Wizards = {}

VARIABLES
  row,      \* row[s]: the row of session s
  call,     \* call[c]: the server's call on behalf of c, between two awaits
  wiz,      \* wiz[w]: the state the wizard page keeps
  tickets,  \* the tickets in ClickUp, each with the sections that were filled in
  digest,   \* the digest worker's run and what it has collected
  accepted, \* history: accepted[s], how often an answer to a question was written
  raced,    \* history: a lookup failed, or overlapped an insert, in the thread
  unheard   \* history: the tickets about which an answer was lost on its way
            \* from ClickUp, from the database or to the wizard

builderVars == <<row, call, wiz, tickets, digest, accepted, raced, unheard>>

Sessions == 1..MaxSessions
Callers  == Messages \cup Wizards
Ready    == 99                            \* READY_TO_FINALIZE_INDEX
Index    == 0..NumQuestions \cup {Ready}

Row == [status  : {"none", "open", "submitted", "abandoned"},
        slack   : BOOLEAN,                \* opened from the Slack thread
        index   : Index,                  \* current_question_index
        answers : Seq(Index),             \* the user turns of the transcript
        ticket  : 0..MaxTickets]          \* clickup_task_id, 0 for null

NoRow == [status |-> "none", slack |-> FALSE, index |-> 0, answers |-> <<>>,
          ticket |-> 0]

Call == [pc      : {"idle", "lookup", "insert", "read", "update", "check",
                    "create", "mark", "reply"},
         session : {0} \cup Sessions,
         answer  : BOOLEAN,               \* agent_builder_step was given an answer
         index   : Index,                 \* questionIndex of submitAnswer
         read    : [index : Index, answers : Seq(Index)],   \* what it read of the row
         attempt : 1..MaxAttempts,        \* of the request to ClickUp
         ticket  : 0..MaxTickets,
         result  : {"none", "ok", "error"}]

NoCall == [pc |-> "idle", session |-> 0, answer |-> FALSE, index |-> 0,
           read |-> [index |-> 0, answers |-> <<>>], attempt |-> 1, ticket |-> 0,
           result |-> "none"]

Copy(s) == [index |-> row[s].index, answers |-> row[s].answers]

Wizard == [session : {0} \cup Sessions, index : Index, ready : BOOLEAN,
           done    : BOOLEAN,             \* the ticket is shown
           trouble : BOOLEAN]             \* history: a reply was lost, or an
                                          \* error reply hid an answer's write

Used     == {s \in Sessions : row[s].status # "none"}
Thread   == {s \in Used : row[s].slack}
OpenHere == {s \in Thread : row[s].status = "open"}

Init ==
  /\ row = [s \in Sessions |-> NoRow]
  /\ call = [c \in Callers |-> NoCall]
  /\ wiz = [w \in Wizards |-> [session |-> 0, index |-> 0, ready |-> FALSE,
                               done |-> FALSE, trouble |-> FALSE]]
  /\ tickets = <<>>
  /\ digest = [pc |-> "idle", swept |-> {}, open |-> {}]
  /\ accepted = [s \in Sessions |-> 0]
  /\ raced = FALSE
  /\ unheard = {}

(***************************************************************************)
(* Calls                                                                   *)
(***************************************************************************)

At(c, pc) == call[c].pc = pc

SetCall(c, new) == call' = [call EXCEPT ![c] = new]

(* The call is over: a tool's result goes back to the tool loop, a route's *)
(* reply is on its way to the wizard.                                      *)
Ended(c, result) ==
  IF c \in Messages THEN NoCall
  ELSE [call[c] EXCEPT !.pc = "reply", !.result = result, !.read = NoCall.read,
                       !.attempt = 1]

Fails(c) == SetCall(c, Ended(c, "error")) /\ UNCHANGED <<row, wiz, tickets, digest, accepted, raced, unheard>>

(* Index 0 means that question 1 is the current one.                       *)
Expected(index) == IF index = 0 THEN 1 ELSE index

(* Seeded faults: no end after the last question; the last question is not *)
(* asked.                                                                  *)
NextIndexEndless(index) == index + 1

NextIndexEarly(index) == IF index + 1 < NumQuestions THEN index + 1 ELSE Ready

NextIndex(index) == IF index < NumQuestions THEN index + 1 ELSE Ready

Write(s, new) == row' = [row EXCEPT ![s] = new]

(***************************************************************************)
(* startOrResumeSession                                                    *)
(***************************************************************************)

(* agent_builder_step with or without an answer; propose_agent is the      *)
(* latter.                                                                 *)
Step(c) ==
  /\ c \in Messages
  /\ At(c, "idle")
  /\ \E answer \in BOOLEAN :
       SetCall(c, [NoCall EXCEPT !.pc = "lookup", !.answer = answer])
  /\ UNCHANGED <<row, wiz, tickets, digest, accepted, raced, unheard>>

(* What the tool does with the session it got: an answer is submitted      *)
(* unless the session is waiting to be finalized.                          *)
Resumed(c, s, index) ==
  IF call[c].answer /\ index # Ready
  THEN [NoCall EXCEPT !.pc = "read", !.session = s, !.index = Expected(index)]
  ELSE Ended(c, "ok")

(* Seeded fault: the lookup of a message outside a thread compares with    *)
(* undefined instead of null and matches nothing.                          *)
LookUpMatchesNothing(c) ==
  /\ At(c, "lookup")
  /\ SetCall(c, [call[c] EXCEPT !.pc = "insert"])
  /\ UNCHANGED <<row, wiz, tickets, digest, accepted, raced, unheard>>

(* maybeSingle returns the row, or null for none and for an error, and two *)
(* matching rows are an error: null makes the caller insert another one.   *)
LookUp(c) ==
  /\ At(c, "lookup")
  /\ UNCHANGED <<row, wiz, tickets, digest, accepted, unheard>>
  /\ \/ \E s \in OpenHere :
          /\ OpenHere = {s}
          /\ SetCall(c, Resumed(c, s, row[s].index))
          /\ UNCHANGED raced
     \/ /\ SetCall(c, [call[c] EXCEPT !.pc = "insert"])
        /\ raced' = (raced \/ OpenHere # {}
                           \/ \E d \in Messages \ {c} : At(d, "insert"))

Insert(c) ==
  /\ At(c, "insert")
  /\ \E s \in Sessions \ Used :
       /\ \A t \in Sessions \ Used : s <= t
       /\ Write(s, [NoRow EXCEPT !.status = "open", !.slack = c \in Messages])
       /\ SetCall(c, IF c \in Messages THEN Resumed(c, s, 0)
                     ELSE [Ended(c, "ok") EXCEPT !.session = s, !.index = 1])
  /\ UNCHANGED <<wiz, tickets, digest, accepted, raced, unheard>>

InsertFails(c) == At(c, "insert") /\ Fails(c)

(***************************************************************************)
(* submitAnswer                                                            *)
(***************************************************************************)

(* refine_agent_spec: the model passes a session of its thread and an      *)
(* index, right or wrong.                                                  *)
Refine(c) ==
  /\ c \in Messages
  /\ At(c, "idle")
  /\ \E s \in Thread, index \in Index \ {0} :
       SetCall(c, [NoCall EXCEPT !.pc = "read", !.session = s, !.index = index])
  /\ UNCHANGED <<row, wiz, tickets, digest, accepted, raced, unheard>>

ReadForAnswer(c) ==
  LET s == call[c].session IN
  /\ At(c, "read")
  /\ SetCall(c, IF row[s].status = "open" /\ call[c].index = Expected(row[s].index)
                THEN [call[c] EXCEPT !.pc = "update", !.read = Copy(s)]
                ELSE Ended(c, "error"))
  /\ UNCHANGED <<row, wiz, tickets, digest, accepted, raced, unheard>>

(* Seeded fault: the update without its optimistic check.                  *)
NoOptimisticCheck(c) == TRUE

(* The update names the index that was read, and writes the transcript     *)
(* that was read plus the answer.  The status is not looked at again.      *)
UpdateMatches(c) == row[call[c].session].index = call[c].read.index

Advance(c) ==
  LET s == call[c].session IN
  /\ Len(call[c].read.answers) < MaxAnswers
  /\ Write(s, [row[s] EXCEPT !.index = NextIndex(call[c].index),
                             !.answers = Append(call[c].read.answers, call[c].index)])
  /\ accepted' = [accepted EXCEPT ![s] = IF call[c].index = Ready THEN @ ELSE @ + 1]

Update(c) ==
  /\ At(c, "update")
  /\ UpdateMatches(c)
  /\ Advance(c)
  /\ SetCall(c, IF c \in Messages THEN NoCall
                ELSE [Ended(c, "ok") EXCEPT !.index = NextIndex(call[c].index)])
  /\ UNCHANGED <<wiz, tickets, digest, raced, unheard>>

(* No row matched, or the request failed after it was carried out.         *)
UpdateRefused(c) == At(c, "update") /\ Fails(c)

UpdateUnseen(c) ==
  /\ At(c, "update")
  /\ UpdateMatches(c)
  /\ Advance(c)
  /\ SetCall(c, Ended(c, "error"))
  /\ wiz' = [w \in Wizards |-> IF w = c THEN [wiz[w] EXCEPT !.trouble = TRUE] ELSE wiz[w]]
  /\ UNCHANGED <<tickets, digest, raced, unheard>>

(***************************************************************************)
(* Finalizing: create_agent_prd_ticket and POST /:id/ticket                *)
(***************************************************************************)

Finalize(c) ==
  /\ c \in Messages
  /\ At(c, "idle")
  /\ \E s \in Thread : SetCall(c, [NoCall EXCEPT !.pc = "check", !.session = s])
  /\ UNCHANGED <<row, wiz, tickets, digest, accepted, raced, unheard>>

(* Seeded fault: finalizing a session that is still being answered.        *)
CheckAnyIndex(c) ==
  /\ At(c, "check")
  /\ SetCall(c, [call[c] EXCEPT !.pc = "create", !.read = Copy(call[c].session)])
  /\ UNCHANGED <<row, wiz, tickets, digest, accepted, raced, unheard>>

(* Only the index is checked, not the status.                              *)
Check(c) ==
  LET s == call[c].session IN
  /\ At(c, "check")
  /\ SetCall(c, IF row[s].index = Ready
                THEN [call[c] EXCEPT !.pc = "create", !.read = Copy(s)]
                ELSE Ended(c, "error"))
  /\ UNCHANGED <<row, wiz, tickets, digest, accepted, raced, unheard>>

(* renderPRD: the sections of the ticket that quote an answer.             *)
Sections(answers) == ToSet(answers) \cap 1..NumQuestions

Ticket(c) == [session |-> call[c].session, sections |-> Sections(call[c].read.answers)]

MakeTicket(c) ==
  /\ Len(tickets) < MaxTickets
  /\ tickets' = Append(tickets, Ticket(c))

(* One attempt of the POST to ClickUp that is carried out and answered.    *)
CreateTask(c) ==
  /\ At(c, "create")
  /\ MakeTicket(c)
  /\ SetCall(c, [call[c] EXCEPT !.pc = "mark", !.ticket = Len(tickets) + 1,
                                !.read = NoCall.read, !.attempt = 1])
  /\ UNCHANGED <<row, wiz, digest, accepted, raced, unheard>>

(* ClickUpHttpClient.request tries again after a network error, a 429 or a *)
(* 5xx, whether or not ClickUp did what it was asked.                      *)
TriesAgain(c) ==
  /\ call[c].attempt < MaxAttempts
  /\ SetCall(c, [call[c] EXCEPT !.attempt = @ + 1])

(* An attempt that is carried out and whose answer is lost, or an error,   *)
(* unreadable or without an id.                                            *)
CreateUnseen(c) ==
  /\ At(c, "create")
  /\ MakeTicket(c)
  /\ unheard' = unheard \cup {Len(tickets) + 1}
  /\ TriesAgain(c) \/ SetCall(c, Ended(c, "error"))
  /\ UNCHANGED <<row, wiz, digest, accepted, raced>>

(* An attempt that is not carried out.                                     *)
CreateRetried(c) ==
  /\ At(c, "create")
  /\ TriesAgain(c)
  /\ UNCHANGED <<row, wiz, tickets, digest, accepted, raced, unheard>>

(* ClickUp is not configured, refuses, or the last attempt fails.          *)
CreateFails(c) == At(c, "create") /\ Fails(c)

(* markSubmitted overwrites status and ticket whatever they were.          *)
MarkSubmitted(c) ==
  LET s == call[c].session IN
  /\ At(c, "mark")
  /\ Write(s, [row[s] EXCEPT !.status = "submitted", !.ticket = call[c].ticket])
  /\ SetCall(c, Ended(c, "ok"))
  /\ UNCHANGED <<wiz, tickets, digest, accepted, raced, unheard>>

(* The ticket exists and the session does not know it.                     *)
MarkFails(c) ==
  /\ At(c, "mark")
  /\ SetCall(c, Ended(c, "error"))
  /\ unheard' = unheard \cup {call[c].ticket}
  /\ UNCHANGED <<row, wiz, tickets, digest, accepted, raced>>

(* abandonSession, from POST /:id/abandon: one blind update.               *)
AbandonSession(s) ==
  /\ s \in Used
  /\ Write(s, [row[s] EXCEPT !.status = "abandoned"])
  /\ UNCHANGED <<call, wiz, tickets, digest, accepted, raced, unheard>>

(***************************************************************************)
(* The wizard.  The composer is disabled while a call is in flight and is  *)
(* replaced by the panel that finalizes when the last answer is in.        *)
(***************************************************************************)

Boot(w) ==
  /\ At(w, "idle")
  /\ wiz[w].session = 0
  /\ SetCall(w, [NoCall EXCEPT !.pc = "insert"])
  /\ UNCHANGED <<row, wiz, tickets, digest, accepted, raced, unheard>>

HandleSubmit(w) ==
  /\ At(w, "idle")
  /\ wiz[w].session # 0 /\ ~wiz[w].ready
  /\ SetCall(w, [NoCall EXCEPT !.pc = "read", !.session = wiz[w].session,
                               !.index = wiz[w].index])
  /\ UNCHANGED <<row, wiz, tickets, digest, accepted, raced, unheard>>

(* Seeded fault: the panel still finalizes when the ticket is shown.       *)
FinalizesAgain(w) ==
  /\ At(w, "idle")
  /\ wiz[w].ready
  /\ SetCall(w, [NoCall EXCEPT !.pc = "check", !.session = wiz[w].session])
  /\ UNCHANGED <<row, wiz, tickets, digest, accepted, raced, unheard>>

HandleFinalize(w) ==
  /\ At(w, "idle")
  /\ wiz[w].ready /\ ~wiz[w].done
  /\ SetCall(w, [NoCall EXCEPT !.pc = "check", !.session = wiz[w].session])
  /\ UNCHANGED <<row, wiz, tickets, digest, accepted, raced, unheard>>

(* Seeded fault: the page counts questions itself.                         *)
CountsItself(w) ==
  /\ At(w, "reply")
  /\ wiz' = [wiz EXCEPT ![w].session = call[w].session,
               ![w].index = IF @ < NumQuestions THEN @ + 1 ELSE @,
               ![w].ready = call[w].index = Ready]
  /\ SetCall(w, NoCall)
  /\ UNCHANGED <<row, tickets, digest, accepted, raced, unheard>>

(* The reply to the creation, to a turn or to the ticket.  After an error  *)
(* the page only takes back its own message.                               *)
HandleReply(w) ==
  /\ At(w, "reply")
  /\ wiz' = IF call[w].result = "error" THEN wiz
            ELSE IF call[w].ticket # 0 THEN [wiz EXCEPT ![w].done = TRUE]
            ELSE IF call[w].index = Ready THEN [wiz EXCEPT ![w].ready = TRUE]
            ELSE [wiz EXCEPT ![w].session = call[w].session, ![w].index = call[w].index]
  /\ SetCall(w, NoCall)
  /\ UNCHANGED <<row, tickets, digest, accepted, raced, unheard>>

LoseReply(w) ==
  /\ At(w, "reply")
  /\ wiz' = [wiz EXCEPT ![w].trouble = TRUE]
  /\ unheard' = unheard \cup ({call[w].ticket} \ {0})
  /\ SetCall(w, NoCall)
  /\ UNCHANGED <<row, tickets, digest, accepted, raced>>

(***************************************************************************)
(* The weekly digest.  A tick while a run is in flight is skipped; a query *)
(* that fails reads as an empty list.                                      *)
(***************************************************************************)

DigestStep(from, to) == digest.pc = from /\ digest'.pc = to

WithStatus(status) == {s \in Used : row[s].status = status}

(* Seeded fault: the worker does not wait for the sweep's update.          *)
SweepComesLate ==
  \E idle \in SUBSET WithStatus("open") :
    /\ row' = row
    /\ digest' = [digest EXCEPT !.pc = "closed", !.swept = idle]
    /\ DigestStep("idle", "closed")
    /\ UNCHANGED <<call, wiz, tickets, accepted, raced, unheard>>

(* markIdleSessionsAbandoned: one statement.  Which of the open sessions   *)
(* have not been updated for a week is left open.                          *)
SweepIdle ==
  \E idle \in SUBSET WithStatus("open") :
    /\ row' = [s \in Sessions |-> IF s \in idle
                                  THEN [row[s] EXCEPT !.status = "abandoned"]
                                  ELSE row[s]]
    /\ digest' = [digest EXCEPT !.pc = "closed", !.swept = idle]
    /\ DigestStep("idle", "closed")
    /\ UNCHANGED <<call, wiz, tickets, accepted, raced, unheard>>

SweepFails ==
  /\ digest' = [digest EXCEPT !.pc = "closed"]
  /\ DigestStep("idle", "closed")
  /\ UNCHANGED <<row, call, wiz, tickets, accepted, raced, unheard>>

(* The queries of what was submitted and abandoned this week.              *)
QueryClosed ==
  /\ digest' = [digest EXCEPT !.pc = "open"]
  /\ DigestStep("closed", "open")
  /\ UNCHANGED <<row, call, wiz, tickets, accepted, raced, unheard>>

(* Then the totals and the rendering, which keep nothing.                  *)
QueryOpen ==
  /\ \E found \in {WithStatus("open"), {}} :
       digest' = [digest EXCEPT !.pc = "post", !.open = found]
  /\ DigestStep("open", "post")
  /\ UNCHANGED <<row, call, wiz, tickets, accepted, raced, unheard>>

PostDigest ==
  /\ digest' = [pc |-> "idle", swept |-> {}, open |-> {}]
  /\ DigestStep("post", "idle")
  /\ UNCHANGED <<row, call, wiz, tickets, accepted, raced, unheard>>

(***************************************************************************)
(* The specification                                                       *)
(***************************************************************************)

SlackCall(c) == Step(c) \/ LookUp(c) \/ Refine(c) \/ Finalize(c)

ServerStep(c) ==
  \/ Insert(c) \/ InsertFails(c)
  \/ ReadForAnswer(c) \/ Update(c) \/ UpdateRefused(c) \/ UpdateUnseen(c)
  \/ Check(c) \/ CreateTask(c) \/ CreateUnseen(c) \/ CreateRetried(c) \/ CreateFails(c)
  \/ MarkSubmitted(c) \/ MarkFails(c)

WizardStep(w) ==
  Boot(w) \/ HandleSubmit(w) \/ HandleFinalize(w) \/ HandleReply(w) \/ LoseReply(w)

DigestWorker ==
  \/ SweepIdle \/ SweepFails
  \/ QueryClosed \/ QueryOpen \/ PostDigest

Next ==
  \/ \E c \in Messages : SlackCall(c)
  \/ \E c \in Callers : ServerStep(c)
  \/ \E w \in Wizards : WizardStep(w)
  \/ \E s \in Sessions : AbandonSession(s)
  \/ DigestWorker

Spec == Init /\ [][Next]_builderVars

(***************************************************************************)
(* Properties                                                              *)
(***************************************************************************)

TypeOK ==
  /\ row \in [Sessions -> Row]
  /\ call \in [Callers -> Call]
  /\ wiz \in [Wizards -> Wizard]
  /\ tickets \in Seq([session : Sessions, sections : SUBSET (1..NumQuestions)])
  /\ digest \in [pc : {"idle", "closed", "open", "post"},
                 swept : SUBSET Sessions, open : SUBSET Sessions]
  /\ accepted \in [Sessions -> Nat]
  /\ raced \in BOOLEAN
  /\ unheard \subseteq 1..MaxTickets

(* How many questions the index says are answered.                         *)
Answered(index) == IF index = Ready THEN NumQuestions
                   ELSE IF index = 0 THEN 0 ELSE index - 1

(* Two messages answered at once, a wizard that retries, or a model that   *)
(* passes a wrong index never lose, repeat or reorder an answer: as many   *)
(* were accepted as there are questions below the index, the transcript    *)
(* holds exactly those, in order, and after the last one only remarks made *)
(* at the finalize prompt.                                                 *)
AnswersInOrder ==
  \A s \in Used :
    LET n == Answered(row[s].index)
        a == row[s].answers
    IN /\ accepted[s] = n
       /\ Len(a) >= n
       /\ \A k \in DOMAIN a : a[k] = IF k <= n THEN k ELSE Ready
       /\ row[s].index # Ready => Len(a) = n

(* No ticket goes to engineering without an answer to every question,      *)
(* and a submitted session points at a ticket that exists and is its own,  *)
(* however often and from wherever it was finalized.                       *)
TicketsAreComplete ==
  /\ \A i \in DOMAIN tickets : tickets[i].sections = 1..NumQuestions
  /\ \A s \in Used : row[s].status = "submitted" =>
       row[s].ticket \in DOMAIN tickets /\ tickets[row[s].ticket].session = s

(* A thread has two open sessions only if two messages raced through the   *)
(* unlocked lookup, or a lookup failed.                                    *)
OneOpenPerThread == ~raced => Cardinality(OpenHere) <= 1

(* The wizard asks the question the server expects, unless a reply was     *)
(* lost or an error hid an answer's write. And whatever is retried, by the *)
(* client of ClickUp or by whoever presses Finalize again, a session has   *)
(* two tickets only if the answer about all but one of them was lost.      *)
WizardInStep ==
  \A w \in Wizards :
    LET s == wiz[w].session IN
    s # 0 =>
      /\ ~wiz[w].trouble /\ At(w, "idle") =>
           IF wiz[w].ready THEN row[s].index = Ready
                           ELSE Expected(row[s].index) = wiz[w].index
      /\ \A i, k \in DOMAIN tickets \ unheard :
           tickets[i].session = s /\ tickets[k].session = s => i = k

(* A session that this run of the digest worker abandoned for being idle   *)
(* is not listed as open by the digest it posts.                           *)
SweptNotOpen == digest.pc = "post" => digest.swept \cap digest.open = {}

Life == INSTANCE SessionLifecycle
          WITH status   <- [s \in Sessions |-> row[s].status],
               answered <- [s \in Sessions |-> Answered(row[s].index)]

(* Each step of Agent Builder is one step of a session's life or none.     *)
ImplementsSession == Life!Spec

=============================================================================
