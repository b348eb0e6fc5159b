----------------------------- MODULE RpcSession -----------------------------
(***************************************************************************)
(* One model request end to end: the HTTP handler or SSE body (lib.rs),    *)
(* the bounded channel, and the rpc task that talks to the Claude Code CLI *)
(* over its stdin and stdout (rpc.rs).  The CLI is external and may emit   *)
(* any frame at any time; so may the client leave and the server shut      *)
(* down.  The accumulator is MessageEvents; the permit, the working copy   *)
(* of the credentials and the other requests are AccountLifecycle.         *)
(*                                                                         *)
(* Frames the task ignores (blank lines, non-JSON, events of sub-agents, a *)
(* second initialize response, snapshots) are stuttering steps.            *)
(***************************************************************************)
EXTENDS MessageEvents

CONSTANTS
    Events,     \* the events the CLI may emit
    MaxEvents,  \* bound: events of one message
    MaxReplies, \* bound: callbacks of the CLI answered in one session
    Capacity    \* of the channel between the task and the handler

ASSUME SessionAssumption ==
    /\ Events \subseteq AllEvents
    /\ MaxEvents \in Nat /\ MaxReplies \in Nat
    /\ Capacity \in Nat \ {0}

VARIABLES
    mode,      \* "stream" or "unary": MessagesRequest.stream
    task,      \* where the rpc task is
    failed,    \* the work ended with an error
    stdin,     \* what was written to the CLI
    acc,       \* the accumulator of the task
    log,       \* the events it accepted, the last one may not be sent yet
    synced,    \* the points at which the credentials were synced
    chan,      \* the channel: events, and at most one failure, last
    listening, \* the receiver and the cancel guard exist
    shutdown,  \* AppState.shutdown is cancelled
    http,      \* the response
    taken,     \* events the handler took from the channel
    unary      \* the accumulator of a handler that does not stream

taskVars == <<task, failed, stdin, acc, log, synced>>
httpVars == <<http, taken, unary>>
sessionVars == <<mode, taskVars, chan, listening, shutdown, httpVars>>

Failure == [type |-> "failure"]

\* "work" of rpc::start, which the request timeout and the cancel token cover.
Reading == {"handshake", "serving"}
Work    == Reading \cup {"launching", "answering", "greeting", "completing",
                         "sending", "stopping"}
Writes  == {"initialize", "reply", "user", "interrupt"}
Pending == {"waiting", "collecting", "streaming"}

RpcTypeOK ==
    /\ mode \in {"stream", "unary"}
    /\ task \in Work \cup {"spawned", "ended", "reporting", "done"}
    /\ failed \in BOOLEAN
    /\ stdin \in Seq(Writes)
    /\ acc \in Accumulators /\ unary \in Accumulators
    /\ log \in Seq(AllEvents) /\ taken \in Seq(AllEvents)
    /\ synced \subseteq {"init", "complete", "final"}
    /\ chan \in Seq(AllEvents \cup {Failure}) /\ Len(chan) <= Capacity
    /\ listening \in BOOLEAN
    /\ shutdown \in BOOLEAN
    /\ http \in Pending \cup {"complete", "failed", "gone"}

SessionInit ==
    /\ mode \in {"stream", "unary"}
    /\ task = "spawned"
    /\ failed = FALSE
    /\ stdin = <<>>
    /\ acc = EmptyAccumulator
    /\ log = <<>>
    /\ synced = {}
    /\ chan = <<>>
    /\ listening = TRUE
    /\ shutdown = FALSE
    /\ http = "waiting"
    /\ taken = <<>>
    /\ unary = EmptyAccumulator

Written(w) == {p \in DOMAIN stdin : stdin[p] = w}

\* The request's token: its guard was dropped, or the server shuts down.
Cancelled == ~listening \/ shutdown

-----------------------------------------------------------------------------
(* The rpc task. *)

\* Nobody is signed in: the error fits in the empty channel.
NoCredential ==
    /\ task = "spawned"
    /\ task' = "done"
    /\ chan' = IF listening THEN Append(chan, Failure) ELSE chan
    /\ UNCHANGED <<mode, failed, stdin, acc, log, synced, listening, shutdown,
                   httpVars>>

GetCredential ==
    /\ task = "spawned"
    /\ task' = "launching"
    /\ UNCHANGED <<mode, failed, stdin, acc, log, synced, chan, listening,
                   shutdown, httpVars>>

\* Workspace, history and command line are ready; the CLI was spawned.
Initialize ==
    /\ task = "launching"
    /\ task' = "handshake"
    /\ stdin' = Append(stdin, "initialize")
    /\ UNCHANGED <<mode, failed, acc, log, synced, chan, listening, shutdown,
                   httpVars>>

\* A permission, dialog or MCP callback: the CLI may need its answer to finish
\* initializing.
ReadCallback ==
    /\ task \in Reading
    /\ Cardinality(Written("reply")) < MaxReplies
    /\ task' = "answering"
    /\ UNCHANGED <<mode, failed, stdin, acc, log, synced, chan, listening,
                   shutdown, httpVars>>

\* The answer is written before the next frame is read.  A CLI that does not
\* read its stdin leaves the task here, where the initialization deadline does
\* not count.
WriteReply ==
    /\ task = "answering"
    /\ task' = IF Written("user") = {} THEN "handshake" ELSE "serving"
    /\ stdin' = Append(stdin, "reply")
    /\ UNCHANGED <<mode, failed, acc, log, synced, chan, listening, shutdown,
                   httpVars>>

\* Mutant: a second initialize response is not ignored.
InitializedAgain ==
    /\ task \in Reading
    /\ task' = "greeting"
    /\ synced' = synced \cup {"init"}
    /\ UNCHANGED <<mode, failed, stdin, acc, log, chan, listening, shutdown,
                   httpVars>>

\* The CLI accepted initialize; what it refreshed is saved before the turn.
Initialized ==
    /\ task = "handshake"
    /\ task' = "greeting"
    /\ synced' = synced \cup {"init"}
    /\ UNCHANGED <<mode, failed, stdin, acc, log, chan, listening, shutdown,
                   httpVars>>

SendTurn ==
    /\ task = "greeting"
    /\ task' = "serving"
    /\ stdin' = Append(stdin, "user")
    /\ UNCHANGED <<mode, failed, acc, log, synced, chan, listening, shutdown,
                   httpVars>>

\* Mutant: message_stop is forwarded without the sync.
ReadEventUnsynced(e) ==
    /\ task = "serving"
    /\ Len(log) < MaxEvents
    /\ Translatable(e)
    /\ Accepts(acc, Translate(e))
    /\ acc' = After(acc, Translate(e))
    /\ log' = Append(log, Translate(e))
    /\ task' = "sending"
    /\ UNCHANGED <<mode, failed, stdin, synced, chan, listening, shutdown,
                   httpVars>>

\* Mutant: an event is forwarded before it is checked.
ReadEventUnchecked(e) ==
    /\ task = "serving"
    /\ Len(log) < MaxEvents
    /\ Translatable(e)
    /\ acc' = IF Accepts(acc, Translate(e)) THEN After(acc, Translate(e)) ELSE acc
    /\ log' = Append(log, Translate(e))
    /\ task' = IF acc'.done THEN "completing" ELSE "sending"
    /\ UNCHANGED <<mode, failed, stdin, synced, chan, listening, shutdown,
                   httpVars>>

\* A model event, translated, then checked, within the output limit.
ReadEvent(e) ==
    /\ task = "serving"
    /\ Len(log) < MaxEvents
    /\ Translatable(e)
    /\ Accepts(acc, Translate(e))
    /\ acc' = After(acc, Translate(e))
    /\ log' = Append(log, Translate(e))
    /\ task' = IF acc'.done THEN "completing" ELSE "sending"
    /\ UNCHANGED <<mode, failed, stdin, synced, chan, listening, shutdown,
                   httpVars>>

\* The sync before message_stop is forwarded.
SyncCompletion ==
    /\ task = "completing"
    /\ task' = "sending"
    /\ synced' = synced \cup {"complete"}
    /\ UNCHANGED <<mode, failed, stdin, acc, log, chan, listening, shutdown,
                   httpVars>>

\* Mutant: the channel has no bound.
SendUnbounded ==
    /\ task = "sending"
    /\ listening
    /\ chan' = Append(chan, log[Len(log)])
    /\ task' = IF acc.done THEN "stopping" ELSE "serving"
    /\ UNCHANGED <<mode, failed, stdin, acc, log, synced, listening, shutdown,
                   httpVars>>

\* The task waits here while the channel is full.
Send ==
    /\ task = "sending"
    /\ listening
    /\ Len(chan) < Capacity
    /\ chan' = Append(chan, log[Len(log)])
    /\ task' = IF acc.done THEN "stopping" ELSE "serving"
    /\ UNCHANGED <<mode, failed, stdin, acc, log, synced, listening, shutdown,
                   httpVars>>

\* After one message the CLI is interrupted and killed.
StopCli ==
    /\ task = "stopping"
    /\ task' = "ended"
    /\ stdin' = Append(stdin, "interrupt")
    /\ UNCHANGED <<mode, failed, acc, log, synced, chan, listening, shutdown,
                   httpVars>>

\* The end of the work; the process is killed with it.
WorkEnds(error) ==
    /\ task' = "ended"
    /\ failed' = error
    /\ UNCHANGED <<mode, stdin, acc, log, synced, chan, listening, shutdown,
                   httpVars>>

BadEvent(e) ==
    /\ task = "serving"
    /\ Translatable(e) => ~Accepts(acc, Translate(e))
    /\ WorkEnds(TRUE)

\* The workspace, the process or a pipe failed, stdout ended, a frame was too
\* long, initialize was refused or late, a model event came before it, a
\* callback had no id, the CLI sent its result, the output limit was exceeded,
\* or a sync failed.
WorkFails ==
    /\ task \in Work \ {"sending", "stopping"}
    /\ WorkEnds(TRUE)

SendFails ==
    /\ task = "sending"
    /\ ~listening
    /\ WorkEnds(TRUE)

\* Mutant: the timeout covers the reading of frames only.
TimedOutReading ==
    /\ task \in Reading
    /\ WorkEnds(TRUE)

TimedOut ==
    /\ task \in Work
    /\ WorkEnds(TRUE)

WorkCancelled ==
    /\ task \in Work
    /\ Cancelled
    /\ WorkEnds(FALSE)

FinalSync(ok) ==
    /\ task = "ended"
    /\ task' = IF failed \/ ~ok THEN "reporting" ELSE "done"
    /\ synced' = IF ok THEN synced \cup {"final"} ELSE synced
    /\ UNCHANGED <<mode, failed, stdin, acc, log, chan, listening, shutdown,
                   httpVars>>

ReportError ==
    /\ task = "reporting"
    /\ listening
    /\ Len(chan) < Capacity
    /\ chan' = Append(chan, Failure)
    /\ task' = "done"
    /\ UNCHANGED <<mode, failed, stdin, acc, log, synced, listening, shutdown,
                   httpVars>>

\* Mutant: an error waits for room in the channel whatever happens.
ReportDroppedReceiver ==
    /\ task = "reporting"
    /\ ~listening
    /\ task' = "done"
    /\ UNCHANGED <<mode, failed, stdin, acc, log, synced, chan, listening,
                   shutdown, httpVars>>

ReportDropped ==
    /\ task = "reporting"
    /\ Cancelled
    /\ task' = "done"
    /\ UNCHANGED <<mode, failed, stdin, acc, log, synced, chan, listening,
                   shutdown, httpVars>>

-----------------------------------------------------------------------------
(* The HTTP side. *)

\* handle() returns: an error before the first event, or a whole answer to a
\* request that does not stream, takes the receiver and the guard with it; an
\* SSE body keeps them until it is dropped.
Respond(answer) ==
    /\ http' = answer
    /\ listening' = \/ answer \in Pending
                    \/ mode = "stream" /\ http = "streaming"

TakeEvent ==
    /\ http \in Pending
    /\ listening
    /\ chan # <<>>
    /\ Head(chan) # Failure
    /\ LET e == Head(chan) IN
       IF mode = "stream"
       THEN /\ Respond(IF e.type = "message_stop" THEN "complete"
                                                  ELSE "streaming")
            /\ taken' = Append(taken, e)
            /\ UNCHANGED unary
       ELSE IF Accepts(unary, e)
       THEN /\ unary' = After(unary, e)
            /\ taken' = Append(taken, e)
            /\ Respond(IF unary'.done THEN "complete" ELSE "collecting")
       ELSE /\ Respond("failed")
            /\ UNCHANGED <<taken, unary>>
    /\ chan' = Tail(chan)
    /\ UNCHANGED <<mode, taskVars, shutdown>>

TakeFailure ==
    /\ http \in Pending
    /\ listening
    /\ chan # <<>>
    /\ Head(chan) = Failure
    /\ Respond("failed")
    /\ chan' = Tail(chan)
    /\ UNCHANGED <<mode, taskVars, shutdown, taken, unary>>

\* Mutant: the end of the channel is taken for the end of the message.
ChannelEndCompletes ==
    /\ http \in Pending
    /\ listening
    /\ chan = <<>>
    /\ task = "done"
    /\ Respond(IF http = "streaming" THEN "complete" ELSE "failed")
    /\ UNCHANGED <<mode, taskVars, chan, shutdown, taken, unary>>

\* The channel is empty and the task is gone.
ChannelEnds ==
    /\ http \in Pending
    /\ listening
    /\ chan = <<>>
    /\ task = "done"
    /\ Respond("failed")
    /\ UNCHANGED <<mode, taskVars, chan, shutdown, taken, unary>>

\* The SSE body ends after its last item.
BodyDropped ==
    /\ http \in {"complete", "failed"}
    /\ listening
    /\ listening' = FALSE
    /\ UNCHANGED <<mode, taskVars, chan, shutdown, httpVars>>

ClientLeaves ==
    /\ http \in Pending
    /\ http' = "gone"
    /\ listening' = FALSE
    /\ UNCHANGED <<mode, taskVars, chan, shutdown, taken, unary>>

Shutdown ==
    /\ ~shutdown
    /\ shutdown' = TRUE
    /\ UNCHANGED <<mode, taskVars, chan, listening, httpVars>>

-----------------------------------------------------------------------------
TaskNext ==
    \/ NoCredential \/ GetCredential \/ Initialize \/ ReadCallback
    \/ WriteReply \/ Initialized \/ SendTurn \/ SyncCompletion \/ Send \/ StopCli
    \/ \E e \in Events : ReadEvent(e) \/ BadEvent(e)
    \/ WorkFails \/ SendFails \/ TimedOut \/ WorkCancelled
    \/ \E ok \in BOOLEAN : FinalSync(ok)
    \/ ReportError \/ ReportDropped

HttpNext == TakeEvent \/ TakeFailure \/ ChannelEnds \/ BodyDropped

SessionNext == TaskNext \/ HttpNext \/ ClientLeaves \/ Shutdown

SessionSpec == SessionInit /\ [][SessionNext]_sessionVars

-----------------------------------------------------------------------------
(***************************************************************************)
(* The dialogue with the CLI: one user turn, only after the initialize     *)
(* response and the sync that follows it; no model event from before the   *)
(* turn is forwarded; nothing but the interrupt follows a complete message *)
(* ("terminate before the CLI continues", run of rpc.rs).                  *)
(***************************************************************************)
TurnProtocol ==
    /\ \A p \in Written("user") :
           /\ Written("user") = {p}
           /\ \A q \in Written("initialize") : q < p
           /\ "init" \in synced
    /\ log # <<>> => Written("user") # {}
    /\ \A p \in Written("interrupt") : p = Len(stdin) /\ acc.done

(***************************************************************************)
(* A client that sees message_stop has a message whose tokens were saved:  *)
(* the sync at completion precedes the forwarding, and when it fails the   *)
(* message ends in an error instead (run of rpc.rs).                       *)
(***************************************************************************)
CompletionPersisted ==
    \A s \in {chan, taken} :
        At(s, "message_stop") # {} => "complete" \in synced

(***************************************************************************)
(* The two accumulators of a request agree: what the task forwards is      *)
(* never refused by the handler that reassembles it ("validate/reassemble  *)
(* the same events forwarded to SSE clients", response.rs).                *)
(***************************************************************************)
SecondCheckAgrees ==
    mode = "unary" /\ http \in Pending /\ chan # <<>> /\ Head(chan) # Failure
        => Accepts(unary, Head(chan))

\* What the caller has of the response, and what it is told at the end.
Heard == IF mode = "stream" \/ http = "complete" THEN taken ELSE <<>>

Verdict == IF http \in Pending THEN "pending"
           ELSE IF http = "failed" THEN "error" ELSE http

(***************************************************************************)
(* Whatever the CLI, the timers and the client do, the caller gets what    *)
(* MessageReply promises: never a faked success, an answer of one piece    *)
(* when it does not stream, its own tool names ("a started SSE that fails  *)
(* sends event: error and never fakes a message_stop", README).            *)
(***************************************************************************)
Reply == INSTANCE MessageReply WITH heard <- Heard, verdict <- Verdict

DeliversMessage == Reply!Spec

-----------------------------------------------------------------------------
(***************************************************************************)
(* Fairness: the runtime polls the task when it can go on by itself and    *)
(* its timers fire.  The CLI owes nothing, and neither does a client: that *)
(* it reads (the handler and the body are polled) is an assumption of the  *)
(* one property that needs it.                                             *)
(***************************************************************************)
TaskFairness ==
    /\ WF_sessionVars(NoCredential \/ GetCredential)
    /\ WF_sessionVars(TimedOut)
    /\ WF_sessionVars(\E ok \in BOOLEAN : FinalSync(ok))
    /\ WF_sessionVars(ReportDropped)

ClientReads ==
    /\ WF_sessionVars(HttpNext)
    /\ WF_sessionVars(ReportError)

FairSpec == SessionSpec /\ TaskFairness

(***************************************************************************)
(* A request whose client is gone, or that a shutdown cancels, gives up    *)
(* its slot even if the CLI hangs and nobody reads the channel (the two    *)
(* selects on the cancel token in rpc::start).                             *)
(***************************************************************************)
CancelFreesSlot == Cancelled ~> task = "done"

(***************************************************************************)
(* Every client that reads is answered, whatever the CLI does: the message *)
(* is completed, or the failure is reported (request_timeout, the error    *)
(* sent by rpc::start, and the end of the channel in lib.rs).              *)
(***************************************************************************)
ClientAnswered == ClientReads => (http \in Pending ~> http \notin Pending)
=============================================================================
