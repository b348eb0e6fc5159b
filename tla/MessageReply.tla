---------------------------- MODULE MessageReply ----------------------------
(***************************************************************************)
(* What the caller of /v1/messages is promised, streaming or not: it hears *)
(* the events of one model message and then exactly one verdict.  The      *)
(* verdict is "complete" when, and only when, it has heard a whole         *)
(* message; after a verdict it hears nothing more; every tool it hears of  *)
(* is one it declared.                                                     *)
(*                                                                         *)
(* This is the abstract specification that RpcSession implements.          *)
(***************************************************************************)
EXTENDS MessageEvents

VARIABLES
    heard,   \* the events the caller has
    verdict  \* "pending", "complete", "error", or "gone": the caller left

OwnTools(events) ==
    \A p \in At(events, "content_block_start") :
        events[p].kind = "tool_use" => events[p].name \in Range(ToolMap)

Init == heard = <<>> /\ verdict = "pending"

\* Some more of the message arrives: an event of a stream, or all at once.
Hear ==
    /\ verdict = "pending"
    /\ Len(heard') > Len(heard)
    /\ SubSeq(heard', 1, Len(heard)) = heard
    /\ OwnTools(heard')
    /\ verdict' = IF WholeMessage(heard') THEN "complete" ELSE "pending"

Close ==
    /\ verdict = "pending"
    /\ verdict' \in {"error", "gone"}
    /\ UNCHANGED heard

Next == Hear \/ Close

Spec == Init /\ [][Next]_<<heard, verdict>>
=============================================================================
