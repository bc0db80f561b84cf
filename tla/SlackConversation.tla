-------------------------- MODULE SlackConversation --------------------------
(***************************************************************************)
(* A question asked in Slack (src/adapters/slack/events.ts): Slack         *)
(* delivers an event to the webhook, the webhook acknowledges it and       *)
(* answers it in the background: channel context, attached images, the     *)
(* tool loop with Claude, one post in the thread. Slack delivers again     *)
(* what it saw no acknowledgement of, and nothing in the daemon remembers  *)
(* an event it has had. What the tools do is in BotTools.                  *)
(***************************************************************************)
EXTENDS Naturals, Sequences, FiniteSets

CONSTANTS
    SlackMessages,  \* records [event, bot, subtype, text, files]
    MaxDeliveries,  \* bound: times Slack delivers a message
    MaxAsked,       \* bound: messages people write
    MaxRestarts,    \* bound: restarts of the daemon
    MaxIterations,  \* QA_MAX_TOOL_ITERATIONS
    MaxImages,      \* images taken of one message
    MaxImageBytes,  \* size of an image
    MaxTotalBytes   \* size of a message's images together

ASSUME SlackLimits ==
    /\ MaxDeliveries \in Nat \ {0} /\ MaxIterations \in Nat /\ MaxRestarts \in Nat
    /\ MaxImages \in Nat /\ MaxImageBytes \in Nat /\ MaxTotalBytes \in Nat

\* A message with the files attached to it: an image or not, the size Slack
\* announces and the size that arrives.
ASSUME SlackEvents ==
    SlackMessages \subseteq
        [event : STRING, bot : BOOLEAN, subtype : STRING, text : BOOLEAN,
         files : Seq([image : BOOLEAN, announced : Nat, size : Nat])]

VARIABLES
    posted,         \* messages in the channel
    delivery,       \* [message -> [1..MaxDeliveries -> delivery]]
    answers,        \* [message -> posts the bot made to answer it]
    lostAcks,       \* [message -> acknowledgements that got lost] (history)
    restarts

slackVars == <<posted, delivery, answers, lostAcks, restarts>>

Slots == 1 .. MaxDeliveries
Working == {"context", "images", "model", "tools", "reply"}
NoDelivery == [pc |-> "unsent", heard |-> "waiting", text |-> "none", iteration |-> 0,
               taken |-> 0, skipped |-> 0, bytes |-> 0]

SlackTypeOK ==
    /\ posted \subseteq SlackMessages /\ restarts \in 0 .. MaxRestarts
    /\ \A m \in SlackMessages :
         /\ answers[m] \in 0 .. MaxDeliveries /\ lostAcks[m] \in 0 .. MaxDeliveries
         /\ \A k \in Slots :
              LET d == delivery[m][k] IN
              /\ d.pc \in Working \union {"unsent", "flight", "lost", "refused", "dropped", "killed", "done"}
              /\ d.heard \in {"waiting", "acked", "failed"}
              /\ d.text \in {"none", "hint", "answer", "prompt", "apology", "unsaid"}
              /\ d.iteration \in 0 .. MaxIterations /\ d.taken + d.skipped <= Len(m.files)

SlackInit ==
    /\ posted = {} /\ restarts = 0
    /\ delivery = [m \in SlackMessages |-> [k \in Slots |-> NoDelivery]]
    /\ answers = [m \in SlackMessages |-> 0]
    /\ lostAcks = [m \in SlackMessages |-> 0]

-----------------------------------------------------------------------------
\* Someone writes in Slack, or Slack echoes a post of the bot.
Post(m) ==
    /\ m \notin posted
    /\ IF m.bot THEN \E x \in SlackMessages : answers[x] > 0
                ELSE Cardinality({x \in posted : ~x.bot}) < MaxAsked
    /\ posted' = posted \union {m}
    /\ delivery' = [delivery EXCEPT ![m][1].pc = "flight"]
    /\ UNCHANGED <<answers, lostAcks, restarts>>

\* Three seconds pass without an acknowledgement.
SlackGivesUp(m, k) ==
    /\ delivery[m][k].pc \in Working \union {"flight"} /\ delivery[m][k].heard = "waiting"
    /\ delivery' = [delivery EXCEPT ![m][k].heard = "failed",
                                    ![m][k].pc = IF @ = "flight" THEN "lost" ELSE @]
    /\ UNCHANGED <<posted, answers, lostAcks, restarts>>

\* Slack delivers again what failed.
Redeliver(m, k) ==
    /\ k > 1 /\ delivery[m][k].pc = "unsent" /\ delivery[m][k - 1].heard = "failed"
    /\ delivery' = [delivery EXCEPT ![m][k].pc = "flight"]
    /\ UNCHANGED <<posted, answers, lostAcks, restarts>>

-----------------------------------------------------------------------------
\* verifySlackSignature and the parse: 503 without a secret, 401 for a
\* missing, wrong or stale signature, 400 for a body that is not JSON.
Rejects == {"no secret", "bad signature", "stale", "not json"}
Reject(m, k, why) ==
    /\ delivery[m][k].pc = "flight" /\ why \in Rejects
    /\ delivery' = [delivery EXCEPT ![m][k].pc = "refused", ![m][k].heard = "failed"]
    /\ UNCHANGED <<posted, answers, lostAcks, restarts>>

\* Seeded fault: the envelope's app id is taken for the author's.
AuthorFromEnvelope(m) == TRUE

\* Only the event's own bot_id and app_id say that the bot wrote it.
IsSelfEvent(m) == m.bot

\* answerDM ignores edits, joins and messages with nothing in them.
AnswersDM(m) == m.subtype = "none" /\ (m.text \/ m.files # <<>>)

\* The first step of an event's handling, up to the first await.
Dispatch(m) ==
    IF \/ IsSelfEvent(m)
       \/ m.event \notin {"app_mention", "im"}
       \/ m.event = "im" /\ ~AnswersDM(m) THEN "dropped"
    ELSE IF ~m.text /\ m.files = <<>> THEN "reply" ELSE "context"

\* Seeded fault: the webhook waits for the answer before it acknowledges.
AckAfterAnswer(lost) == "waiting"

\* What Slack hears of the acknowledgement the webhook sends first.
Heard(lost) == IF lost THEN "failed" ELSE "acked"

ReceiveSlackWebhook(m, k, lost) ==
    /\ delivery[m][k].pc = "flight"
    /\ delivery' = [delivery EXCEPT ![m][k].pc = Dispatch(m), ![m][k].heard = Heard(lost),
                                    ![m][k].text = IF Dispatch(m) = "reply" THEN "hint" ELSE "none"]
    /\ lostAcks' = [lostAcks EXCEPT ![m] = IF lost THEN @ + 1 ELSE @]
    /\ UNCHANGED <<posted, answers, restarts>>

At(m, k, pc) == delivery[m][k].pc = pc
Become(m, k, d) == delivery' = [delivery EXCEPT ![m][k] = d] /\ UNCHANGED <<posted, answers, lostAcks, restarts>>

\* fetchChannelContext always resolves; what Slack does not tell is left out.
FetchChannelContext(m, k) ==
    /\ At(m, k, "context")
    /\ Become(m, k, [delivery[m][k] EXCEPT !.pc = IF m.files = <<>> THEN "model" ELSE "images"])

\* Seeded fault: the size Slack announces is believed.
TrustsAnnounced(d, size, announced) ==
    /\ d.taken < MaxImages /\ announced <= MaxImageBytes
    /\ d.bytes + announced <= MaxTotalBytes

\* An image is taken if it fits by what Slack announced and by what arrived.
Takes(d, size, announced) ==
    /\ d.taken < MaxImages /\ announced <= MaxImageBytes
    /\ size <= MaxImageBytes /\ d.bytes + size <= MaxTotalBytes

\* ingestSlackImages, one file: no image, refused, not downloaded or taken.
IngestFile(m, k, works) ==
    LET d == delivery[m][k]
        file == m.files[d.taken + d.skipped + 1]
        done == d.taken + d.skipped + 1 = Len(m.files)
        ok == works /\ file.image /\ Takes(d, file.size, file.announced)
    IN  /\ d.pc = "images"
        /\ Become(m, k, [d EXCEPT !.pc = IF done THEN "model" ELSE "images",
                                  !.taken = IF ok THEN @ + 1 ELSE @,
                                  !.skipped = IF ok THEN @ ELSE @ + 1,
                                  !.bytes = IF ok THEN @ + file.size ELSE @])

\* Seeded fault: the loop forgets to count.
ForgetsToCount(n) == n

\* An iteration of the tool loop is counted.
NextIteration(n) == n + 1

\* A turn of Claude: an error makes the apology the reply; text ends the
\* loop, and no text at all is replaced by a prompt; a tool call is only
\* possible while iterations are left, for the last turn names no tools.
AskClaude(m, k, turn) ==
    LET d == delivery[m][k] IN
    /\ d.pc = "model"
    /\ \/ turn = "tools" /\ d.iteration < MaxIterations /\ Become(m, k, [d EXCEPT !.pc = "tools"])
       \/ turn \in {"answer", "prompt", "apology"} /\ Become(m, k, [d EXCEPT !.pc = "reply", !.text = turn])

\* The turn's tools run one after another; a tool that throws is a result.
RunTools(m, k) ==
    /\ At(m, k, "tools")
    /\ Become(m, k, [delivery[m][k] EXCEPT !.pc = "model", !.iteration = NextIteration(@)])

\* What a handler held is gone when it is over.
Over(d, how) == [d EXCEPT !.pc = how, !.iteration = 0, !.taken = 0, !.skipped = 0, !.bytes = 0]

\* postToSlack logs what fails and never throws.
PostToSlack(m, k, works) ==
    /\ At(m, k, "reply")
    /\ delivery' = [delivery EXCEPT ![m][k] =
                       [Over(delivery[m][k], "done") EXCEPT !.text = IF works THEN @ ELSE "unsaid"]]
    /\ answers' = [answers EXCEPT ![m] = IF works THEN @ + 1 ELSE @]
    /\ UNCHANGED <<posted, lostAcks, restarts>>

\* The daemon stops and starts: what was being answered is gone.
Restart ==
    /\ restarts < MaxRestarts
    /\ restarts' = restarts + 1
    /\ delivery' = [m \in SlackMessages |-> [k \in Slots |->
           LET d == delivery[m][k] IN IF d.pc \in Working THEN Over(d, "killed") ELSE d]]
    /\ UNCHANGED <<posted, answers, lostAcks>>

\* A step of an answer under way.
Handle(m, k) ==
    \/ FetchChannelContext(m, k) \/ RunTools(m, k)
    \/ \E works \in BOOLEAN : IngestFile(m, k, works) \/ PostToSlack(m, k, works)
    \/ \E turn \in {"tools", "answer", "prompt", "apology"} : AskClaude(m, k, turn)

SlackNext ==
    \/ Restart
    \/ \E m \in SlackMessages : Post(m)
    \/ \E m \in SlackMessages, k \in Slots :
         \/ SlackGivesUp(m, k) \/ Redeliver(m, k) \/ Handle(m, k)
         \/ \E why \in Rejects : Reject(m, k, why)
         \/ \E lost \in BOOLEAN : ReceiveSlackWebhook(m, k, lost)

\* The event loop goes on with some answer while one is under way: every
\* request to Claude and to Slack returns or times out.
SlackFairness == WF_slackVars(\E m \in SlackMessages, k \in Slots : Handle(m, k))

SlackSpec == SlackInit /\ [][SlackNext]_slackVars /\ SlackFairness

-----------------------------------------------------------------------------
(* A message is answered once, and again only for an acknowledgement the   *)
(* network lost: however long an answer takes, Slack does not deliver the  *)
(* question again; and the bot never answers itself.                       *)
AnsweredOnce ==
    \A m \in SlackMessages : answers[m] <= IF m.bot THEN 0 ELSE 1 + lostAcks[m]

(* What a person asks and the webhook acknowledged is not dropped in       *)
(* silence: it is worked on, it was answered, Slack refused the post, or a *)
(* restart of the daemon took it.                                          *)
AckedIsAnswered ==
    \A m \in SlackMessages, k \in Slots :
        LET d == delivery[m][k] IN
        d.heard = "acked" /\ ~m.bot /\ (m.event = "app_mention" \/ (m.event = "im" /\ m.subtype = "none" /\ m.text))
            => \/ d.pc \in Working \union {"killed"}
               \/ d.pc = "done" /\ (d.text = "unsaid" \/ answers[m] > 0)

(* Claude is never sent more or larger images than it takes, also when     *)
(* Slack announces no size or a wrong one.                                 *)
ImagesFit ==
    \A m \in SlackMessages, k \in Slots :
        delivery[m][k].taken <= MaxImages /\ delivery[m][k].bytes <= MaxTotalBytes

(* What was begun to answer a message is ended, by posts or by a restart,  *)
(* whatever Claude asks for and however often Slack delivers it again: the *)
(* tool loop stops.                                                        *)
AnswersEnd ==
    \A m \in SlackMessages :
        (\E k \in Slots : delivery[m][k].pc \in Working) ~> (\A k \in Slots : delivery[m][k].pc \notin Working)
=============================================================================
