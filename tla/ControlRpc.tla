---------------------------- MODULE ControlRpc ----------------------------
(***************************************************************************)
(* The control RPC of account operations (src/src/control.rs): calls one   *)
(* after the other over stdin and stdout of a CLI process.  A call writes  *)
(* a request with a fresh id and reads frames until the response with that *)
(* id; it answers the callbacks it meets and passes over everything else.  *)
(*                                                                         *)
(* Ids are UUIDs; the n-th call has the id n.  Lines that are no frames    *)
(* are passed over and left out.                                           *)
(***************************************************************************)
EXTENDS Naturals, Sequences

CONSTANTS
    Kinds,       \* subtypes of the callbacks the CLI makes
    MaxOut,      \* bound: frames the CLI wrote that are not read yet
    MaxRepeats,  \* bound: responses the CLI sends once more
    MaxCallbacks \* bound: callbacks of one CLI process

\* "mcp_message" stands for every kind the bridge does not know here.
CallbackKinds == {"can_use_tool", "request_user_dialog", "elicitation",
                  "mcp_message"}

ASSUME RpcAssumption ==
    /\ Kinds \subseteq CallbackKinds
    /\ MaxOut \in Nat /\ MaxRepeats \in Nat /\ MaxCallbacks \in Nat

VARIABLES
    calls,    \* requests written
    answered, \* of these, the CLI responded to
    out,      \* the stdout of the CLI
    waits,    \* the CLI waits for the answer to a callback
    repeats,  \* responses the CLI repeated
    callbacks \* callbacks it made

rpcVars == <<calls, answered, out, waits, repeats, callbacks>>

Responses == [type : {"control_response"}, id : 1 .. 3, ok : BOOLEAN]
Requests == [type : {"control_request"}, subtype : Kinds]

RpcTypeCorrect ==
    /\ calls \in 0 .. 3 /\ answered \in 0 .. calls
    /\ out \in Seq(Responses \cup Requests) /\ Len(out) <= MaxOut
    /\ waits \in BOOLEAN
    /\ repeats \in 0 .. MaxRepeats /\ callbacks \in 0 .. MaxCallbacks

\* No CLI process: none was started, or it was closed or killed.
RpcClosed ==
    /\ calls = 0 /\ answered = 0
    /\ out = <<>>
    /\ waits = FALSE
    /\ repeats = 0 /\ callbacks = 0

\* close(), or the drop of the client, kills the process.
RpcClose ==
    /\ calls' = 0 /\ answered' = 0
    /\ out' = <<>>
    /\ waits' = FALSE
    /\ repeats' = 0 /\ callbacks' = 0

\* call() writes its request.
RpcCall ==
    /\ calls' = calls + 1
    /\ UNCHANGED <<answered, out, waits, repeats, callbacks>>

\* Mutant: any response will do.
AnyResponse == out # <<>> /\ Head(out).type = "control_response"

\* The next frame is the response the call waits for.
OwnResponse ==
    /\ out # <<>>
    /\ Head(out).type = "control_response"
    /\ Head(out).id = calls

RpcRead ==
    /\ out' = Tail(out)
    /\ UNCHANGED <<calls, answered, waits, repeats, callbacks>>

\* Mutant: callbacks of a kind that is not known are passed over.
ReadOtherKnown ==
    /\ out # <<>>
    /\ ~OwnResponse
    /\ out' = Tail(out)
    /\ waits' = /\ waits
                /\ \/ Head(out).type = "control_response"
                   \/ Head(out).subtype = "mcp_message"
    /\ UNCHANGED <<calls, answered, repeats, callbacks>>

\* The call reads a frame that is not its response: the response to another
\* call is passed over, a callback is answered where it arrives.
ReadOther ==
    /\ out # <<>>
    /\ ~OwnResponse
    /\ out' = Tail(out)
    /\ waits' = (waits /\ Head(out).type = "control_response")
    /\ UNCHANGED <<calls, answered, repeats, callbacks>>

-----------------------------------------------------------------------------
(* The CLI: it responds to each call in turn, may ask something first, and *)
(* may send a response a second time.                                      *)

CliResponds(ok) ==
    /\ answered < calls
    /\ ~waits
    /\ Len(out) < MaxOut
    /\ answered' = calls
    /\ out' = Append(out, [type |-> "control_response", id |-> calls,
                           ok |-> ok])
    /\ UNCHANGED <<calls, waits, repeats, callbacks>>

CliRepeats ==
    /\ answered > 0
    /\ repeats < MaxRepeats
    /\ Len(out) < MaxOut
    /\ repeats' = repeats + 1
    /\ out' = Append(out, [type |-> "control_response", id |-> answered,
                           ok |-> TRUE])
    /\ UNCHANGED <<calls, answered, waits, callbacks>>

CliAsks(kind) ==
    /\ answered < calls
    /\ ~waits
    /\ callbacks < MaxCallbacks
    /\ Len(out) < MaxOut
    /\ callbacks' = callbacks + 1
    /\ waits' = TRUE
    /\ out' = Append(out, [type |-> "control_request", subtype |-> kind])
    /\ UNCHANGED <<calls, answered, repeats>>

-----------------------------------------------------------------------------
(***************************************************************************)
(* The CLI never waits for an answer that nobody will give: while it does, *)
(* its callback is still unread, or it was answered, also with the error   *)
(* for a kind the bridge does not know ("Unsupported authentication        *)
(* callback", call of control.rs).  A callback that was passed over would  *)
(* hang the login until its timeout.                                       *)
(***************************************************************************)
CallbacksAnswered ==
    waits => \E p \in DOMAIN out : out[p].type = "control_request"
=============================================================================
