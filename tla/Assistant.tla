------------------------------ MODULE Assistant ------------------------------
(***************************************************************************)
(* The parts of the daemon that talk to people and to their tools: the     *)
(* Slack bot, the tools Claude calls for it, and the Mission Control       *)
(* worker. They share no state with each other (what a tool returns to a   *)
(* conversation is free in SlackConversation), so a behaviour shows one of *)
(* them: focus names it and never changes.                                 *)
(***************************************************************************)
EXTENDS MissionControl, BotTools, SlackConversation

VARIABLE focus

assistantVars == <<focus, mcVars, toolVars, slackVars>>

AssistantInit ==
    /\ focus \in {"mission control", "tools", "slack"}
    /\ McInit /\ ToolsInit /\ SlackInit

AssistantNext ==
    /\ \/ focus = "mission control" /\ McNext /\ UNCHANGED <<toolVars, slackVars>>
       \/ focus = "tools" /\ ToolsNext /\ UNCHANGED <<mcVars, slackVars>>
       \/ focus = "slack" /\ SlackNext /\ UNCHANGED <<mcVars, toolVars>>
    /\ UNCHANGED focus

AssistantSpec == AssistantInit /\ [][AssistantNext]_assistantVars /\ SlackFairness

\* Every variable of the three parts has its type.
AssistantTypeOK == McTypeOK /\ ToolsTypeOK /\ SlackTypeOK
=============================================================================
