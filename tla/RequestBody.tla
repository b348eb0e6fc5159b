---------------------------- MODULE RequestBody ----------------------------
(***************************************************************************)
(* The two parts of a request that the bridge rewrites for the CLI: its    *)
(* system field and its messages.  validate looks at each by itself, so a  *)
(* caller writes one of them here and leaves the other empty.              *)
(***************************************************************************)
EXTENDS Conversation, SystemPrompt

requestVars == <<messages, system>>

RequestInit == ConversationInit /\ PromptInit

WriteMessages == ConversationNext /\ system = <<>> /\ UNCHANGED system

WriteSystem == PromptNext /\ messages = <<>> /\ UNCHANGED messages

RequestNext == WriteMessages \/ WriteSystem

RequestSpec == RequestInit /\ [][RequestNext]_requestVars
=============================================================================
