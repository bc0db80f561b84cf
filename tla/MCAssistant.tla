---------------------------- MODULE MCAssistant ----------------------------
(* Small instance of Assistant for TLC. *)
EXTENDS Assistant

\* The gate in the middle of a workflow.
MCStages == <<"work", "approval_notify", "publish">>

MCMessage(event, bot, subtype, text, files) ==
    [event |-> event, bot |-> bot, subtype |-> subtype, text |-> text, files |-> files]

\* Slack announces no size for the first image and too little for the second.
MCFiles == <<[image |-> TRUE, announced |-> 0, size |-> 2], [image |-> TRUE, announced |-> 1, size |-> 2]>>

\* A mention, an empty one, a direct message of images, an edit of a direct
\* message, and the echo of a post of the bot.
MCMessages == {MCMessage("app_mention", FALSE, "none", TRUE, <<>>),
               MCMessage("app_mention", FALSE, "none", FALSE, <<>>),
               MCMessage("im", FALSE, "none", FALSE, MCFiles),
               MCMessage("im", FALSE, "edit", TRUE, <<>>),
               MCMessage("im", TRUE, "none", TRUE, <<>>)}
=============================================================================
