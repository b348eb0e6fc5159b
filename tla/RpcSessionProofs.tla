-------------------------- MODULE RpcSessionProofs --------------------------
(***************************************************************************)
(* The safety of one request against every CLI, client, channel capacity   *)
(* and number of events.  RpcInv is inductive: its parts say what was      *)
(* written to the CLI at each point of the task, what a task that sends    *)
(* has saved, and how the channel and the handler lag behind the log.      *)
(***************************************************************************)
EXTENDS RpcSession, MessageEventsProofs

\* Where the task is tells what the CLI was told.
DialogueInv ==
    /\ task \in {"spawned", "launching"} => stdin = <<>>
    /\ task \in {"handshake", "greeting"} => Written("user") = {}
    /\ task \in {"serving", "completing", "sending", "stopping"}
           => Written("user") # {}
    /\ Written("interrupt") # {} => task \in {"ended", "reporting", "done"}
    /\ task = "greeting" => "init" \in synced
    /\ task = "stopping" => acc.done
    /\ TurnProtocol

\* An event on its way, or further, is no message_stop unless it was synced.
PersistInv ==
    /\ task \in {"completing", "sending"} => log # <<>>
    /\ task = "sending" /\ log[Len(log)].type = "message_stop"
           => "complete" \in synced
    /\ CompletionPersisted

\* s are the accumulators of the task before each event of the log, and after.
Path(s) ==
    /\ s \in Seq(Accumulators) /\ Len(s) = Len(log) + 1
    /\ s[1] = EmptyAccumulator /\ s[Len(log) + 1] = acc
    /\ \A i \in 1 .. Len(log) :
           Accepts(s[i], log[i]) /\ s[i + 1] = After(s[i], log[i])

\* The task has nothing under way to the channel.
Idle == (Work \cup {"spawned"}) \ {"completing", "sending"}

\* The handler is at one point of that path: what it took leads there, and if
\* it has an accumulator, it is the one of that point.
HandlerOn(s) ==
    /\ Follows(s[Len(taken) + 1], taken)
    /\ mode = "unary" => unary = s[Len(taken) + 1]

\* The caller declared every tool that an event of the log names.
ToolsInv ==
    \A p \in DOMAIN log :
        log[p].type = "content_block_start" /\ log[p].kind = "tool_use"
            => log[p].name \in Range(ToolMap)

\* The handler took the log up to a point; the channel goes on from there, up
\* to the event not sent yet.
LagInv ==
    /\ task # "done" =>
           /\ \A i \in DOMAIN chan : chan[i] # Failure
           /\ task \in Idle =>
                  Len(log) = Len(taken) + Len(chan)
           /\ task \in {"completing", "sending"} =>
                  Len(log) = Len(taken) + Len(chan) + 1
    /\ \A i \in DOMAIN chan :
           IF chan[i] = Failure THEN i = Len(chan)
           ELSE Len(taken) + i \in 1 .. Len(log) /\ chan[i] = log[Len(taken) + i]
    /\ Len(taken) <= Len(log)
    /\ \A i \in DOMAIN taken : taken[i] = log[i]
    /\ \E s : Path(s) /\ HandlerOn(s)

RpcInv == RpcTypeOK /\ DialogueInv /\ PersistInv /\ LagInv /\ ToolsInv

-----------------------------------------------------------------------------
(* Types. *)

\* Whatever the task writes to the CLI, stdin keeps its type.
LEMMA StdinTypes ==
    ASSUME stdin \in Seq(Writes)
    PROVE  /\ Append(stdin, "initialize") \in Seq(Writes)
           /\ Append(stdin, "reply") \in Seq(Writes)
           /\ Append(stdin, "user") \in Seq(Writes)
           /\ Append(stdin, "interrupt") \in Seq(Writes)
  <1>1. \A w \in Writes : Append(stdin, w) \in Seq(Writes)
    OBVIOUS
  <1> QED
    BY <1>1 DEF Writes

\* The state a request starts in.
LEMMA RpcTypeInitially == SessionInit => RpcTypeOK
  <1>1. \A S : <<>> \in Seq(S)
    OBVIOUS
  <1>2. Len(<<>>) <= Capacity
    BY SessionAssumption DEF SessionAssumption
  <1> QED
    BY <1>1, <1>2, EmptyTypes
       DEF SessionInit, RpcTypeOK, Work, Reading, Pending

\* Reading an event or answering it keeps the types.
LEMMA EventTypes ==
    ASSUME RpcTypeOK, NEW e \in Events, ReadEvent(e)
    PROVE  RpcTypeOK'
  <1>1. Translate(e) \in AllEvents
    BY SessionAssumption, TranslateTypes DEF ReadEvent, SessionAssumption
  <1>2. acc' \in Accumulators
    BY <1>1, AfterTypes DEF ReadEvent, RpcTypeOK
  <1> QED
    BY <1>1, <1>2 DEF ReadEvent, RpcTypeOK, httpVars, Work, Reading

\* The steps of the task that touch neither the log nor the channel.
LEMMA DialogueTypes ==
    ASSUME RpcTypeOK,
           \/ GetCredential \/ Initialize \/ ReadCallback \/ WriteReply
           \/ Initialized \/ SendTurn \/ SyncCompletion \/ StopCli
           \/ (\E error \in BOOLEAN : WorkEnds(error))
           \/ (\E ok \in BOOLEAN : FinalSync(ok)) \/ ReportDropped
    PROVE  RpcTypeOK'
  <1> USE StdinTypes DEF RpcTypeOK, Work, Reading, httpVars
  <1>1. CASE GetCredential \/ Initialize \/ ReadCallback
    BY <1>1 DEF GetCredential, Initialize, ReadCallback
  <1>2. CASE WriteReply \/ Initialized \/ SendTurn
    BY <1>2 DEF WriteReply, Initialized, SendTurn
  <1>3. CASE SyncCompletion \/ StopCli \/ ReportDropped
    BY <1>3 DEF SyncCompletion, StopCli, ReportDropped
  <1>4. CASE \E error \in BOOLEAN : WorkEnds(error)
    BY <1>4 DEF WorkEnds
  <1>5. CASE \E ok \in BOOLEAN : FinalSync(ok)
    BY <1>5 DEF FinalSync
  <1> QED
    BY <1>1, <1>2, <1>3, <1>4, <1>5

\* What goes into the channel fits.
LEMMA ChannelTypes ==
    ASSUME RpcTypeOK, task = "sending" => log # <<>>,
           (NoCredential /\ chan = <<>>) \/ Send \/ ReportError
    PROVE  RpcTypeOK'
  <1> USE SessionAssumption
      DEF RpcTypeOK, Work, Reading, httpVars, SessionAssumption
  <1>1. CASE NoCredential /\ chan = <<>>
    <2>1. /\ chan' \in Seq(AllEvents \cup {Failure})
          /\ Len(chan') <= Capacity
      <3>1. /\ Append(chan, Failure) \in Seq(AllEvents \cup {Failure})
            /\ Len(Append(chan, Failure)) = Len(chan) + 1
        OBVIOUS
      <3>2. Len(chan) = 0 /\ Capacity >= 1
        BY <1>1
      <3>3. chan' = chan \/ chan' = Append(chan, Failure)
        BY <1>1 DEF NoCredential
      <3>4. Len(Append(chan, Failure)) <= Capacity
        BY <3>1, <3>2
      <3>5. CASE chan' = chan
        BY <3>5
      <3>6. CASE chan' = Append(chan, Failure)
        BY <3>1, <3>4, <3>6
      <3> QED
        BY <3>3, <3>5, <3>6
    <2> QED
      BY <1>1, <2>1 DEF NoCredential
  <1>2. CASE Send
    <2>1. log[Len(log)] \in AllEvents
      BY <1>2 DEF Send
    <2> QED
      BY <1>2, <2>1 DEF Send
  <1>3. CASE ReportError
    <2>1. /\ Append(chan, Failure) \in Seq(AllEvents \cup {Failure})
          /\ Len(Append(chan, Failure)) <= Capacity
      BY <1>3 DEF ReportError
    <2> QED
      BY <1>3, <2>1 DEF ReportError
  <1> QED
    BY <1>1, <1>2, <1>3

\* The HTTP side keeps the types.
LEMMA HttpTypes ==
    ASSUME RpcTypeOK, HttpNext \/ ClientLeaves \/ Shutdown
    PROVE  RpcTypeOK'
  <1> USE DEF RpcTypeOK, taskVars, httpVars, Pending, Respond
  <1>1. CASE TakeEvent
    <2>1. Head(chan) \in AllEvents /\ Tail(chan) \in Seq(AllEvents \cup {Failure})
          /\ Len(Tail(chan)) <= Capacity
      BY <1>1, SessionAssumption DEF TakeEvent, SessionAssumption
    <2>2. taken' \in Seq(AllEvents)
      <3>1. taken' = taken \/ taken' = Append(taken, Head(chan))
        BY <1>1 DEF TakeEvent
      <3>2. Append(taken, Head(chan)) \in Seq(AllEvents)
        BY <2>1
      <3> QED
        BY <3>1, <3>2
    <2>3. unary' \in Accumulators
      BY <1>1, <2>1, AfterTypes DEF TakeEvent
    <2>4. http' \in Pending \cup {"complete", "failed"} /\ listening' \in BOOLEAN
      BY <1>1 DEF TakeEvent
    <2>5. chan' = Tail(chan) /\ UNCHANGED <<mode, taskVars, shutdown>>
      BY <1>1 DEF TakeEvent
    <2> QED
      <3>1. chan' \in Seq(AllEvents \cup {Failure}) /\ Len(chan') <= Capacity
        BY <2>1, <2>5
      <3> QED
        BY <2>2, <2>3, <2>4, <2>5, <3>1
  <1>2. CASE TakeFailure
    <2>1. Tail(chan) \in Seq(AllEvents \cup {Failure}) /\ Len(Tail(chan)) <= Capacity
      BY <1>2, SessionAssumption DEF TakeFailure, SessionAssumption
    <2> QED
      BY <1>2, <2>1 DEF TakeFailure
  <1>3. CASE ChannelEnds
    BY <1>3 DEF ChannelEnds
  <1>4. CASE BodyDropped \/ ClientLeaves \/ Shutdown
    BY <1>4 DEF BodyDropped, ClientLeaves, Shutdown, httpVars
  <1> QED
    BY <1>1, <1>2, <1>3, <1>4 DEF HttpNext

-----------------------------------------------------------------------------
(* The dialogue. *)

\* What was written when the task writes one more frame.
LEMMA WrittenAppended ==
    ASSUME stdin \in Seq(Writes), NEW w, stdin' = Append(stdin, w)
    PROVE  /\ \A v : Written(v)' = IF v = w THEN Written(v) \cup {Len(stdin) + 1}
                                           ELSE Written(v)
           /\ Len(stdin') = Len(stdin) + 1
           /\ \A v : Written(v) \subseteq 1 .. Len(stdin)
  <1>1. /\ DOMAIN stdin = 1 .. Len(stdin)
        /\ DOMAIN stdin' = 1 .. Len(stdin) + 1
        /\ Len(stdin') = Len(stdin) + 1 /\ Len(stdin) \in Nat
        /\ stdin'[Len(stdin) + 1] = w
        /\ \A p \in DOMAIN stdin : stdin'[p] = stdin[p]
    OBVIOUS
  <1> QED
    BY <1>1 DEF Written

\* What was written when the task writes nothing.
LEMMA WrittenKept ==
    ASSUME stdin' = stdin
    PROVE  \A v : Written(v)' = Written(v)
  BY DEF Written

\* Each write of the task, at its point of the dialogue.
LEMMA WriteDialogue ==
    ASSUME RpcTypeOK, DialogueInv,
           Initialize \/ WriteReply \/ SendTurn \/ StopCli
    PROVE  DialogueInv'
  <1> USE DEF RpcTypeOK, DialogueInv, TurnProtocol
  <1>1. CASE Initialize
    <2>1. \A v : Written(v)' = IF v = "initialize" THEN {1} ELSE {}
      BY <1>1, WrittenAppended DEF Initialize, Written
    <2>2. log = <<>>
      BY <1>1 DEF Initialize, Written
    <2> QED
      BY <1>1, <2>1, <2>2 DEF Initialize
  <1>2. CASE WriteReply
    <2>1. /\ \A v \in {"initialize", "user", "interrupt"} : Written(v)' = Written(v)
          /\ Written("interrupt") = {}
      BY <1>2, WrittenAppended DEF WriteReply
    <2> QED
      BY <1>2, <2>1 DEF WriteReply
  <1>3. CASE SendTurn
    <2>1. /\ Written("user")' = {Len(stdin) + 1}
          /\ \A v \in {"initialize", "interrupt"} : Written(v)' = Written(v)
          /\ Written("initialize") \subseteq 1 .. Len(stdin)
          /\ Written("interrupt") = {} /\ Len(stdin) \in Nat
      BY <1>3, WrittenAppended DEF SendTurn
    <2>2. \A q \in Written("initialize") : q < Len(stdin) + 1
      BY <2>1
    <2>3. /\ Written("initialize")' = Written("initialize")
          /\ Written("interrupt")' = {}
      BY <2>1
    <2>4. TurnProtocol'
      BY <1>3, <2>1, <2>2, <2>3 DEF SendTurn
    <2> QED
      BY <1>3, <2>1, <2>3, <2>4 DEF SendTurn
  <1>4. CASE StopCli
    <2>1. /\ Written("interrupt")' = {Len(stdin')}
          /\ \A v \in {"initialize", "user"} : Written(v)' = Written(v)
      BY <1>4, WrittenAppended DEF StopCli
    <2> QED
      BY <1>4, <2>1 DEF StopCli
  <1> QED
    BY <1>1, <1>2, <1>3, <1>4

\* A step that writes nothing to the CLI: where it may lead.
SilentStep ==
    /\ UNCHANGED stdin
    /\ synced \subseteq synced'
    /\ \/ UNCHANGED task
       \/ task' \in {"ended", "reporting", "done"}
       \/ task \in Reading /\ task' = "answering"
       \/ task = "spawned" /\ task' = "launching"
       \/ task = "handshake" /\ task' = "greeting" /\ "init" \in synced'
       \/ task \in {"serving", "completing"} /\ task' \in {"completing", "sending"}
       \/ task = "sending" /\ task' = "serving"
       \/ task = "sending" /\ task' = "stopping" /\ acc.done
    /\ task # "serving" => UNCHANGED <<acc, log>>

\* The steps of the task that neither write nor log.
LEMMA SilentDialogue ==
    ASSUME RpcTypeOK, DialogueInv, SilentStep
    PROVE  DialogueInv'
  <1> USE DEF SilentStep, Reading
  <1>1. \A v : Written(v)' = Written(v)
    BY WrittenKept
  <1>2. Written("interrupt") # {} => task' \in {"ended", "reporting", "done"}
    BY DEF DialogueInv
  <1>3. TurnProtocol'
    <2>1. Len(stdin') = Len(stdin)
      OBVIOUS
    <2>2. log' # <<>> => Written("user") # {}
      BY DEF DialogueInv, TurnProtocol
    <2>3. \A p \in Written("interrupt") : p = Len(stdin) /\ acc'.done
      BY DEF DialogueInv, TurnProtocol
    <2> QED
      BY <1>1, <2>1, <2>2, <2>3 DEF DialogueInv, TurnProtocol
  <1> QED
    BY <1>1, <1>2, <1>3 DEF DialogueInv

\* Every step of the task keeps the dialogue.
LEMMA TaskDialogue ==
    ASSUME RpcTypeOK, DialogueInv, TaskNext
    PROVE  DialogueInv'
  <1>1. CASE Initialize \/ WriteReply \/ SendTurn \/ StopCli
    BY <1>1, WriteDialogue
  <1>2. CASE NoCredential \/ GetCredential \/ ReadCallback
    BY <1>2, SilentDialogue
       DEF SilentStep, NoCredential, GetCredential, ReadCallback
  <1>3. CASE Initialized \/ SyncCompletion \/ Send
    BY <1>3, SilentDialogue DEF SilentStep, Initialized, SyncCompletion, Send
  <1>4. CASE \E e \in Events : ReadEvent(e)
    BY <1>4, SilentDialogue DEF SilentStep, ReadEvent
  <1>5. CASE \/ \E e \in Events : BadEvent(e)
             \/ WorkFails \/ SendFails \/ TimedOut \/ WorkCancelled
    BY <1>5, SilentDialogue
       DEF SilentStep, BadEvent, WorkFails, SendFails, TimedOut, WorkCancelled,
           WorkEnds
  <1>6. CASE \/ \E ok \in BOOLEAN : FinalSync(ok)
             \/ ReportError \/ ReportDropped
    BY <1>6, SilentDialogue DEF SilentStep, FinalSync, ReportError, ReportDropped
  <1> QED
    BY <1>1, <1>2, <1>3, <1>4, <1>5, <1>6 DEF TaskNext

\* The HTTP side does not touch the dialogue.
LEMMA HttpDialogue ==
    ASSUME RpcTypeOK, DialogueInv, HttpNext \/ ClientLeaves \/ Shutdown
    PROVE  DialogueInv'
  <1>1. UNCHANGED taskVars
    BY DEF HttpNext, TakeEvent, TakeFailure, ChannelEnds, BodyDropped,
           ClientLeaves, Shutdown
  <1> QED
    BY <1>1, SilentDialogue DEF taskVars, SilentStep

-----------------------------------------------------------------------------
(* What is forwarded was saved. *)

\* message_stop ends the message.
LEMMA StopEndsMessage ==
    ASSUME NEW a \in Accumulators, NEW e \in AllEvents, e.type = "message_stop"
    PROVE  After(a, e).done
  BY DEF After, Accumulators

\* The positions of one type in a list that has one more element.
LEMMA AtLengthened ==
    ASSUME NEW S, NEW s \in Seq(S), NEW x, NEW type
    PROVE  At(Append(s, x), type) = IF x.type = type THEN At(s, type) \cup {Len(s) + 1}
                                                     ELSE At(s, type)
  <1>1. /\ DOMAIN Append(s, x) = DOMAIN s \cup {Len(s) + 1}
        /\ Append(s, x)[Len(s) + 1] = x
        /\ \A p \in DOMAIN s : Append(s, x)[p] = s[p]
    OBVIOUS
  <1> QED
    BY <1>1 DEF At

\* Every step of the task keeps what it says of the syncs.
LEMMA TaskPersists ==
    ASSUME RpcTypeOK, PersistInv, TaskNext
    PROVE  PersistInv'
  <1> USE DEF PersistInv, CompletionPersisted
  <1>1. CASE NoCredential \/ ReportError
    <2>1. chan' = chan \/ chan' = Append(chan, Failure)
      BY <1>1 DEF NoCredential, ReportError
    <2>2. At(Append(chan, Failure), "message_stop") = At(chan, "message_stop")
      BY AtLengthened DEF RpcTypeOK, Failure
    <2> QED
      BY <1>1, <2>1, <2>2 DEF NoCredential, ReportError, httpVars
  <1>2. CASE \E e \in Events : ReadEvent(e)
    <2> PICK e \in Events : ReadEvent(e)
      BY <1>2
    <2>1. Translate(e) \in AllEvents
      BY SessionAssumption, TranslateTypes DEF ReadEvent, SessionAssumption
    <2>2. /\ log' # <<>> /\ log'[Len(log')] = Translate(e)
      BY <2>1 DEF ReadEvent, RpcTypeOK
    <2>3. task' = "sending" => log'[Len(log')].type # "message_stop"
      BY <2>1, <2>2, StopEndsMessage DEF ReadEvent, RpcTypeOK
    <2> QED
      BY <2>2, <2>3 DEF ReadEvent, httpVars
  <1>3. CASE SyncCompletion
    BY <1>3 DEF SyncCompletion, httpVars
  <1>4. CASE Send
    <2>1. /\ chan' = Append(chan, log[Len(log)])
          /\ UNCHANGED <<taken, synced>>
          /\ task = "sending" /\ task' \notin {"completing", "sending"}
      BY <1>4 DEF Send, httpVars
    <2>2. At(chan', "message_stop") # {} =>
              \/ At(chan, "message_stop") # {}
              \/ log[Len(log)].type = "message_stop"
      BY <2>1, AtLengthened DEF RpcTypeOK
    <2> QED
      BY <2>1, <2>2
  <1>5. CASE GetCredential \/ Initialize \/ ReadCallback \/ WriteReply
    BY <1>5 DEF GetCredential, Initialize, ReadCallback, WriteReply, httpVars
  <1>6. CASE Initialized \/ SendTurn \/ StopCli
    BY <1>6 DEF Initialized, SendTurn, StopCli, httpVars
  <1>7. CASE \/ \E e \in Events : BadEvent(e)
             \/ WorkFails \/ SendFails \/ TimedOut \/ WorkCancelled
    BY <1>7 DEF BadEvent, WorkFails, SendFails, TimedOut, WorkCancelled, WorkEnds,
                httpVars
  <1>8. CASE (\E ok \in BOOLEAN : FinalSync(ok)) \/ ReportDropped
    BY <1>8 DEF FinalSync, ReportDropped, httpVars
  <1> QED
    BY <1>1, <1>2, <1>3, <1>4, <1>5, <1>6, <1>7, <1>8 DEF TaskNext

\* The HTTP side does not sync.
LEMMA HttpPersists ==
    ASSUME RpcTypeOK, PersistInv, HttpNext \/ ClientLeaves \/ Shutdown
    PROVE  PersistInv'
  <1> USE DEF PersistInv, CompletionPersisted, taskVars
  <1>1. CASE TakeEvent
    <2>1. /\ chan # <<>> /\ chan' = Tail(chan) /\ UNCHANGED taskVars
          /\ taken' = taken \/ taken' = Append(taken, Head(chan))
      BY <1>1 DEF TakeEvent
    <2>2. \A p \in DOMAIN Tail(chan) : p + 1 \in DOMAIN chan
                                       /\ Tail(chan)[p] = chan[p + 1]
      BY <2>1 DEF RpcTypeOK
    <2>3. At(chan', "message_stop") # {} => At(chan, "message_stop") # {}
      BY <2>1, <2>2 DEF At
    <2>4. Head(chan).type = "message_stop" => 1 \in At(chan, "message_stop")
      BY <2>1 DEF At, RpcTypeOK
    <2>5. At(Append(taken, Head(chan)), "message_stop") # {} =>
              \/ At(taken, "message_stop") # {}
              \/ Head(chan).type = "message_stop"
      BY AtLengthened DEF RpcTypeOK
    <2> QED
      BY <2>1, <2>3, <2>4, <2>5
  <1>2. CASE TakeFailure
    <2>1. chan # <<>> /\ chan' = Tail(chan) /\ UNCHANGED <<taskVars, taken>>
      BY <1>2 DEF TakeFailure
    <2>2. \A p \in DOMAIN Tail(chan) : p + 1 \in DOMAIN chan
                                       /\ Tail(chan)[p] = chan[p + 1]
      BY <2>1 DEF RpcTypeOK
    <2>3. At(chan', "message_stop") # {} => At(chan, "message_stop") # {}
      BY <2>1, <2>2 DEF At
    <2> QED
      BY <2>1, <2>3
  <1>3. CASE ChannelEnds \/ BodyDropped \/ ClientLeaves \/ Shutdown
    BY <1>3 DEF ChannelEnds, BodyDropped, ClientLeaves, Shutdown, httpVars
  <1> QED
    BY <1>1, <1>2, <1>3 DEF HttpNext

-----------------------------------------------------------------------------
(* The channel and the handler's accumulator. *)

\* A failure in the channel is not taken for an event.
LEMMA FailureIsNoEvent == Failure \notin AllEvents
  BY DEF Failure, AllEvents

\* Steps that leave the log, the channel and the handler alone.
LEMMA LagKept ==
    ASSUME LagInv, UNCHANGED <<mode, log, acc, chan, taken, unary>>,
           task' # "done" => task # "done",
           task' \in Idle => task \in Idle,
           task' \in {"completing", "sending"} => task \in {"completing", "sending"}
    PROVE  LagInv'
  BY DEF LagInv, Path, HandlerOn

\* The head of the channel is the event the handler has to take next.
LEMMA AgreesNow ==
    ASSUME RpcTypeOK, LagInv, chan # <<>>, Head(chan) # Failure
    PROVE  /\ Len(taken) + 1 \in 1 .. Len(log)
           /\ Head(chan) = log[Len(taken) + 1]
           /\ mode = "unary" => Accepts(unary, Head(chan))
  <1>1. 1 \in DOMAIN chan /\ Head(chan) = chan[1]
    BY DEF RpcTypeOK
  <1> QED
    BY <1>1 DEF LagInv, Path, HandlerOn

\* The task logs an event it has not sent.
LEMMA ReadLags ==
    ASSUME RpcTypeOK, LagInv, NEW e \in Events, ReadEvent(e)
    PROVE  LagInv'
  <1> DEFINE x == Translate(e)
  <1>1. x \in AllEvents
    BY SessionAssumption, TranslateTypes DEF ReadEvent, SessionAssumption
  <1>2. /\ log' = Append(log, x) /\ log \in Seq(AllEvents)
        /\ acc' = After(acc, x) /\ Accepts(acc, x)
        /\ task = "serving" /\ task' \in {"completing", "sending"}
        /\ UNCHANGED <<mode, chan, taken, unary>>
    BY DEF ReadEvent, RpcTypeOK, httpVars
  <1> HIDE DEF x
  <1>3. acc' \in Accumulators
    BY <1>1, <1>2, AfterTypes DEF RpcTypeOK
  <1>4. /\ Len(log') = Len(log) + 1 /\ log'[Len(log) + 1] = x
        /\ \A i \in 1 .. Len(log) : log'[i] = log[i]
        /\ Len(log) \in Nat /\ Len(taken) \in Nat /\ Len(chan) \in Nat
    BY <1>2 DEF RpcTypeOK
  <1>5. PICK s : Path(s) /\ HandlerOn(s)
    BY DEF LagInv
  <1>b. PICK t : t = Append(s, acc')
    OBVIOUS
  <1>6. /\ t \in Seq(Accumulators) /\ Len(t) = Len(log) + 2
        /\ t[Len(log) + 2] = acc'
        /\ \A i \in 1 .. Len(log) + 1 : t[i] = s[i]
    BY <1>3, <1>4, <1>5, <1>b DEF Path
  <1>7. Path(t)'
    <2>1. /\ Len(t) = Len(log') + 1 /\ t[1] = EmptyAccumulator
          /\ t[Len(log') + 1] = acc'
      BY <1>4, <1>5, <1>6 DEF Path
    <2>2. ASSUME NEW i \in 1 .. Len(log')
          PROVE  Accepts(t[i], log'[i]) /\ t[i + 1] = After(t[i], log'[i])
      <3>1. CASE i \in 1 .. Len(log)
        BY <1>4, <1>5, <1>6, <3>1 DEF Path
      <3>2. CASE i = Len(log) + 1
        <4>1. t[i] = acc /\ t[i + 1] = acc' /\ log'[i] = x
          BY <1>4, <1>5, <1>6, <3>2 DEF Path
        <4> QED
          BY <1>2, <4>1
      <3> QED
        BY <1>4, <3>1, <3>2
    <2> QED
      BY <1>6, <2>1, <2>2 DEF Path
  <1>8. HandlerOn(t)'
    <2>1. Len(taken) <= Len(log)
      BY DEF LagInv
    <2>2. t[Len(taken) + 1] = s[Len(taken) + 1]
      BY <1>4, <1>6, <2>1
    <2> QED
      BY <1>2, <1>5, <2>2 DEF HandlerOn
  <1>9. Len(log) = Len(taken) + Len(chan)
    BY <1>2 DEF LagInv, Idle, Work, Reading
  <1>10. \A i \in DOMAIN taken : taken[i] = log'[i]
    <2>1. DOMAIN taken \subseteq 1 .. Len(log)
      BY <1>4 DEF LagInv, RpcTypeOK
    <2> QED
      BY <1>4, <2>1 DEF LagInv
  <1> QED
    BY <1>2, <1>4, <1>7, <1>8, <1>9, <1>10 DEF LagInv, Idle

\* The task sends the event it logged.
LEMMA SendLags ==
    ASSUME RpcTypeOK, LagInv, PersistInv, Send
    PROVE  LagInv'
  <1>1. /\ chan' = Append(chan, log[Len(log)])
        /\ UNCHANGED <<mode, log, acc, taken, unary>>
        /\ task = "sending" /\ task' \in {"stopping", "serving"}
    BY DEF Send, httpVars
  <1>2. log # <<>> /\ log[Len(log)] \in AllEvents
    BY <1>1 DEF PersistInv, RpcTypeOK
  <1>3. log[Len(log)] # Failure
    BY <1>2, FailureIsNoEvent
  <1>4. /\ Len(chan') = Len(chan) + 1 /\ chan'[Len(chan) + 1] = log[Len(log)]
        /\ DOMAIN chan' = 1 .. Len(chan) + 1 /\ DOMAIN chan = 1 .. Len(chan)
        /\ \A i \in 1 .. Len(chan) : chan'[i] = chan[i]
        /\ Len(log) \in Nat /\ Len(taken) \in Nat /\ Len(chan) \in Nat
    BY <1>1 DEF RpcTypeOK
  <1>5. Len(log) = Len(taken) + Len(chan) + 1
    BY <1>1 DEF LagInv
  <1>6. \A i \in DOMAIN chan :
            /\ chan[i] # Failure
            /\ Len(taken) + i \in 1 .. Len(log) /\ chan[i] = log[Len(taken) + i]
    BY <1>1 DEF LagInv
  <1>7. /\ \E s : Path(s)' /\ HandlerOn(s)'
        /\ \A i \in DOMAIN taken : taken[i] = log[i]
    BY <1>1 DEF LagInv, Path, HandlerOn
  <1>8. \A i \in DOMAIN chan' :
            /\ chan'[i] # Failure
            /\ Len(taken) + i \in 1 .. Len(log) /\ chan'[i] = log[Len(taken) + i]
    <2> TAKE i \in DOMAIN chan'
    <2>1. CASE i \in DOMAIN chan
      BY <1>4, <1>6, <2>1
    <2>2. CASE i = Len(chan) + 1
      BY <1>3, <1>4, <1>5, <2>2
    <2> QED
      BY <1>4, <2>1, <2>2
  <1>9. task' # "done" =>
            /\ \A i \in DOMAIN chan' : chan'[i] # Failure
            /\ task' \in Idle => Len(log') = Len(taken') + Len(chan')
            /\ task' \in {"completing", "sending"} =>
                   Len(log') = Len(taken') + Len(chan') + 1
    BY <1>1, <1>4, <1>5, <1>8
  <1> QED
    BY <1>1, <1>4, <1>5, <1>7, <1>8, <1>9 DEF LagInv, Idle

\* The task ends, with or without a failure in the channel.
LEMMA FailureLags ==
    ASSUME RpcTypeOK, LagInv, task # "done", task' = "done",
           chan' = chan \/ chan' = Append(chan, Failure),
           UNCHANGED <<mode, log, acc, taken, unary>>
    PROVE  LagInv'
  <1>1. CASE chan' = chan
    BY <1>1, LagKept DEF Idle, Work, Reading
  <1>2. CASE chan' = Append(chan, Failure)
    <2>1. /\ Len(chan') = Len(chan) + 1 /\ chan'[Len(chan) + 1] = Failure
          /\ DOMAIN chan' = 1 .. Len(chan) + 1 /\ DOMAIN chan = 1 .. Len(chan)
          /\ \A i \in 1 .. Len(chan) : chan'[i] = chan[i]
      BY <1>2 DEF RpcTypeOK
    <2>2. \A i \in DOMAIN chan : chan[i] # Failure
      BY DEF LagInv
    <2>3. \E s : Path(s)' /\ HandlerOn(s)'
      BY DEF LagInv, Path, HandlerOn
    <2> QED
      BY <2>1, <2>2, <2>3 DEF LagInv, Idle
  <1> QED
    BY <1>1, <1>2

\* A CLI was never started: nothing is on its way.
LEMMA SpawnedIsEmpty ==
    ASSUME RpcTypeOK, DialogueInv, LagInv, task = "spawned"
    PROVE  chan = <<>>
  <1>1. log = <<>>
    BY DEF DialogueInv, TurnProtocol, Written
  <1>2. Len(chan) = 0
    BY <1>1 DEF LagInv, Idle, RpcTypeOK
  <1> QED
    BY <1>2 DEF RpcTypeOK

\* Every step of the task.
LEMMA TaskLags ==
    ASSUME RpcTypeOK, PersistInv, LagInv, TaskNext
    PROVE  LagInv'
  <1>1. CASE \E e \in Events : ReadEvent(e)
    BY <1>1, ReadLags
  <1>2. CASE Send
    BY <1>2, SendLags
  <1>3. CASE NoCredential \/ ReportError
    BY <1>3, FailureLags DEF NoCredential, ReportError, httpVars
  <1> USE DEF Idle, Work, Reading, httpVars
  <1>4. CASE GetCredential \/ Initialize \/ ReadCallback \/ WriteReply
    BY <1>4, LagKept DEF GetCredential, Initialize, ReadCallback, WriteReply
  <1>5. CASE Initialized \/ SendTurn \/ SyncCompletion \/ StopCli
    BY <1>5, LagKept DEF Initialized, SendTurn, SyncCompletion, StopCli
  <1>6. CASE \/ \E e \in Events : BadEvent(e)
             \/ WorkFails \/ SendFails \/ TimedOut \/ WorkCancelled
    <2>1. task \in Work /\ (\E error \in BOOLEAN : WorkEnds(error))
      BY <1>6 DEF BadEvent, WorkFails, SendFails, TimedOut, WorkCancelled
    <2> QED
      BY <2>1, LagKept DEF WorkEnds
  <1>7. CASE (\E ok \in BOOLEAN : FinalSync(ok)) \/ ReportDropped
    BY <1>7, LagKept DEF FinalSync, ReportDropped
  <1> QED
    BY <1>1, <1>2, <1>3, <1>4, <1>5, <1>6, <1>7 DEF TaskNext

\* The handler takes the next event of the log, and accepts it.
LEMMA TakeLags ==
    ASSUME RpcTypeOK, LagInv, TakeEvent
    PROVE  LagInv'
  <1> DEFINE x == Head(chan)
  <1>1. /\ Len(taken) + 1 \in 1 .. Len(log) /\ x = log[Len(taken) + 1]
        /\ mode = "unary" => Accepts(unary, x)
    BY AgreesNow DEF TakeEvent
  <1>2. /\ chan # <<>> /\ chan' = Tail(chan) /\ taken' = Append(taken, x)
        /\ mode = "unary" => unary' = After(unary, x)
        /\ UNCHANGED <<mode, task, log, acc>>
    BY <1>1 DEF TakeEvent, RpcTypeOK, taskVars
  <1>3. /\ Len(taken') = Len(taken) + 1 /\ Len(chan') = Len(chan) - 1
        /\ DOMAIN chan = 1 .. Len(chan) /\ DOMAIN chan' = 1 .. Len(chan) - 1
        /\ \A i \in DOMAIN chan' : i + 1 \in DOMAIN chan /\ chan'[i] = chan[i + 1]
        /\ Len(log) \in Nat /\ Len(taken) \in Nat /\ Len(chan) \in Nat
    BY <1>1, <1>2 DEF RpcTypeOK
  <1>4. \E s : Path(s)' /\ HandlerOn(s)'
    <2>1. PICK s : Path(s) /\ HandlerOn(s)
      BY DEF LagInv
    <2>2. Path(s)'
      BY <1>2, <2>1 DEF Path
    <2>3. s[Len(taken) + 2] = After(s[Len(taken) + 1], x)
      BY <1>1, <1>3, <2>1 DEF Path
    <2>4. Accepts(s[Len(taken) + 1], x)
      BY <1>1, <2>1 DEF Path
    <2>5. Grows(taken', taken, x)
      <3>1. taken \in Seq(AllEvents) /\ x \in AllEvents
        BY <1>1 DEF RpcTypeOK
      <3> QED
        BY <1>2, <3>1, AppendGrows
    <2>6. Follows(s[Len(taken) + 2], taken')
      <3>1. Follows(s[Len(taken) + 1], taken)
        BY <2>1 DEF HandlerOn
      <3> HIDE DEF x
      <3> QED
        BY <2>3, <2>4, <2>5, <3>1, FollowsAfter
    <2>7. mode' = "unary" => unary' = s[Len(taken) + 2]
      BY <1>2, <2>1, <2>3 DEF HandlerOn
    <2>8. HandlerOn(s)'
      <3>1. Len(taken') + 1 = Len(taken) + 2
        BY <1>3
      <3> QED
        BY <2>6, <2>7, <3>1 DEF HandlerOn
    <2> QED
      BY <2>2, <2>8
  <1> HIDE DEF x
  <1>5. \A i \in DOMAIN chan' :
            IF chan'[i] = Failure THEN i = Len(chan')
            ELSE /\ Len(taken') + i \in 1 .. Len(log)
                 /\ chan'[i] = log[Len(taken') + i]
    <2> TAKE i \in DOMAIN chan'
    <2>1. /\ i + 1 \in DOMAIN chan /\ chan'[i] = chan[i + 1]
          /\ Len(taken') + i = Len(taken) + (i + 1) /\ i \in Nat
      BY <1>3
    <2> QED
      BY <1>3, <2>1 DEF LagInv
  <1>6. task # "done" =>
            /\ \A i \in DOMAIN chan' : chan'[i] # Failure
            /\ Len(taken') + Len(chan') = Len(taken) + Len(chan)
    BY <1>3 DEF LagInv
  <1>7. Len(taken') <= Len(log)
    BY <1>1, <1>3
  <1>8. \A i \in DOMAIN taken' : taken'[i] = log[i]
    <2>1. /\ DOMAIN taken' = DOMAIN taken \cup {Len(taken) + 1}
          /\ \A i \in DOMAIN taken : taken'[i] = taken[i]
          /\ taken'[Len(taken) + 1] = x
      BY <1>2 DEF RpcTypeOK
    <2> QED
      BY <1>1, <2>1 DEF LagInv
  <1> QED
    BY <1>2, <1>4, <1>5, <1>6, <1>7, <1>8 DEF LagInv, Idle

\* Every step of the HTTP side.
LEMMA HttpLags ==
    ASSUME RpcTypeOK, LagInv, HttpNext \/ ClientLeaves \/ Shutdown
    PROVE  LagInv'
  <1>1. CASE TakeEvent
    BY <1>1, TakeLags
  <1>2. CASE TakeFailure
    <2>1. /\ chan # <<>> /\ chan[1] = Failure /\ chan' = Tail(chan)
          /\ UNCHANGED <<mode, task, log, acc, taken, unary>>
      BY <1>2 DEF TakeFailure, taskVars, RpcTypeOK
    <2>2. 1 \in DOMAIN chan
      BY <2>1 DEF RpcTypeOK
    <2>3. task = "done" /\ Len(chan) = 1
      BY <2>1, <2>2 DEF LagInv
    <2>4. DOMAIN chan' = {}
      BY <2>1, <2>3 DEF RpcTypeOK
    <2> QED
      BY <2>1, <2>3, <2>4 DEF LagInv, Path, HandlerOn
  <1>3. CASE ChannelEnds \/ BodyDropped \/ ClientLeaves \/ Shutdown
    BY <1>3, LagKept
       DEF ChannelEnds, BodyDropped, ClientLeaves, Shutdown, taskVars, httpVars
  <1> QED
    BY <1>1, <1>2, <1>3 DEF HttpNext

-----------------------------------------------------------------------------
(* The inductive invariant. *)

\* The state a request starts in satisfies the invariant.
LEMMA RpcInitially == SessionInit => RpcInv
  <1> SUFFICES ASSUME SessionInit PROVE RpcInv
    OBVIOUS
  <1>1. RpcTypeOK
    BY RpcTypeInitially
  <1>2. DialogueInv /\ PersistInv
    BY DEF SessionInit, DialogueInv, TurnProtocol, Written, PersistInv,
           CompletionPersisted, At
  <1>3. \E s : Path(s) /\ HandlerOn(s)
    <2>1. PICK s : s = <<EmptyAccumulator>>
      OBVIOUS
    <2>2. s \in Seq(Accumulators) /\ Len(s) = 1 /\ s[1] = EmptyAccumulator
      BY <2>1, EmptyTypes
    <2>3. log = <<>> /\ Len(log) = 0 /\ Len(taken) = 0
      BY DEF SessionInit
    <2>4. Path(s)
      BY <2>2, <2>3 DEF SessionInit, Path
    <2>5. HandlerOn(s)
      BY <2>2, <2>3, FollowsEmpty DEF SessionInit, HandlerOn
    <2> QED
      BY <2>4, <2>5
  <1>4. LagInv
    BY <1>3 DEF SessionInit, LagInv, Idle
  <1>5. ToolsInv
    BY DEF SessionInit, ToolsInv
  <1> QED
    BY <1>1, <1>2, <1>4, <1>5 DEF RpcInv

\* The task keeps the types; a full channel needs the invariant.
LEMMA TaskTypes ==
    ASSUME RpcInv, TaskNext
    PROVE  RpcTypeOK'
  <1>1. RpcTypeOK /\ DialogueInv /\ PersistInv /\ LagInv
    BY DEF RpcInv
  <1>2. CASE \E e \in Events : ReadEvent(e)
    BY <1>1, <1>2, EventTypes
  <1>3. CASE NoCredential \/ Send \/ ReportError
    <2>1. task = "sending" => log # <<>>
      BY <1>1 DEF PersistInv
    <2>2. NoCredential => chan = <<>>
      BY <1>1, SpawnedIsEmpty DEF NoCredential
    <2> QED
      BY <1>1, <1>3, <2>1, <2>2, ChannelTypes
  <1>4. CASE \/ \E e \in Events : BadEvent(e)
             \/ WorkFails \/ SendFails \/ TimedOut \/ WorkCancelled
    <2>1. \E error \in BOOLEAN : WorkEnds(error)
      BY <1>4 DEF BadEvent, WorkFails, SendFails, TimedOut, WorkCancelled
    <2> QED
      BY <1>1, <2>1, DialogueTypes
  <1> QED
    BY <1>1, <1>2, <1>3, <1>4, DialogueTypes DEF TaskNext

\* The log only gains translated events: those whose tool the caller declared.
LEMMA ToolsStep ==
    ASSUME RpcTypeOK, ToolsInv, [SessionNext]_sessionVars
    PROVE  ToolsInv'
  <1>1. ASSUME NEW e \in Events, ReadEvent(e)
        PROVE  ToolsInv'
    <2> DEFINE x == Translate(e)
    <2>1. x \in AllEvents /\ log' = Append(log, x) /\ Translatable(e)
      BY <1>1, SessionAssumption, TranslateTypes
         DEF ReadEvent, SessionAssumption
    <2>2. x.type = "content_block_start" /\ x.kind = "tool_use"
              => x.name \in Range(ToolMap)
      <3>1. e \in AllEvents
        BY SessionAssumption DEF SessionAssumption
      <3> QED
        BY <2>1, <3>1 DEF Translate, Translatable, Range, AllEvents
    <2> HIDE DEF x
    <2>3. /\ DOMAIN log' = DOMAIN log \cup {Len(log) + 1}
          /\ log'[Len(log) + 1] = x
          /\ \A p \in DOMAIN log : log'[p] = log[p]
      BY <2>1 DEF RpcTypeOK
    <2> QED
      BY <2>2, <2>3 DEF ToolsInv
  <1>2. CASE UNCHANGED log
    BY <1>2 DEF ToolsInv
  <1>3. CASE TaskNext /\ ~(\E e \in Events : ReadEvent(e))
    BY <1>2, <1>3
       DEF TaskNext, NoCredential, GetCredential, Initialize, ReadCallback,
           WriteReply, Initialized, SendTurn, SyncCompletion, Send, StopCli,
           BadEvent, WorkFails, SendFails, TimedOut, WorkCancelled, WorkEnds,
           FinalSync, ReportError, ReportDropped
  <1>4. CASE HttpNext \/ ClientLeaves \/ Shutdown
    BY <1>2, <1>4
       DEF HttpNext, TakeEvent, TakeFailure, ChannelEnds, BodyDropped,
           ClientLeaves, Shutdown, taskVars
  <1>5. CASE UNCHANGED sessionVars
    BY <1>2, <1>5 DEF sessionVars, taskVars
  <1> QED
    BY <1>1, <1>3, <1>4, <1>5 DEF SessionNext

\* Every step of a request keeps the invariant.
LEMMA RpcStep == RpcInv /\ [SessionNext]_sessionVars => RpcInv'
  <1> SUFFICES ASSUME RpcInv, [SessionNext]_sessionVars PROVE RpcInv'
    OBVIOUS
  <1>1. RpcTypeOK /\ DialogueInv /\ PersistInv /\ LagInv /\ ToolsInv
    BY DEF RpcInv
  <1>5. ToolsInv'
    BY <1>1, ToolsStep
  <1>2. CASE TaskNext
    BY <1>1, <1>2, <1>5, TaskTypes, TaskDialogue, TaskPersists,
       TaskLags DEF RpcInv
  <1>3. CASE HttpNext \/ ClientLeaves \/ Shutdown
    BY <1>1, <1>3, <1>5, HttpTypes, HttpDialogue, HttpPersists,
       HttpLags DEF RpcInv
  <1>4. CASE UNCHANGED sessionVars
    <2> USE <1>4 DEF sessionVars, taskVars, httpVars
    <2>1. RpcTypeOK'
      BY <1>1 DEF RpcTypeOK
    <2>2. DialogueInv'
      BY <1>1, SilentDialogue DEF SilentStep
    <2>3. PersistInv'
      BY <1>1 DEF PersistInv, CompletionPersisted
    <2>4. LagInv'
      BY <1>1, LagKept
    <2> QED
      BY <1>5, <2>1, <2>2, <2>3, <2>4 DEF RpcInv
  <1> QED
    BY <1>2, <1>3, <1>4 DEF SessionNext

(***************************************************************************)
(* Every state of a request satisfies RpcInv, however many events the CLI  *)
(* emits and however small the channel is.                                 *)
(***************************************************************************)
THEOREM RpcInvariant == SessionSpec => []RpcInv
  BY RpcInitially, RpcStep, PTL DEF SessionSpec

(***************************************************************************)
(* Every variable of a request keeps its type; in particular the channel   *)
(* never holds more than its capacity, the last failure included           *)
(* (mpsc::channel of rpc::start).                                          *)
(***************************************************************************)
THEOREM RpcTypeCorrect == SessionSpec => []RpcTypeOK
  <1>1. RpcInv => RpcTypeOK
    BY DEF RpcInv
  <1> QED
    BY <1>1, RpcInvariant, PTL

(***************************************************************************)
(* One user turn, after the initialize response and the sync; events only  *)
(* after the turn; nothing after the interrupt (run of rpc.rs).            *)
(***************************************************************************)
THEOREM TurnsAreProper == SessionSpec => []TurnProtocol
  <1>1. RpcInv => TurnProtocol
    BY DEF RpcInv, DialogueInv
  <1> QED
    BY <1>1, RpcInvariant, PTL

(***************************************************************************)
(* No client sees message_stop before the tokens of its request were saved *)
(* (the sync at completion in run of rpc.rs).                              *)
(***************************************************************************)
THEOREM CompletionIsPersisted == SessionSpec => []CompletionPersisted
  <1>1. RpcInv => CompletionPersisted
    BY DEF RpcInv, PersistInv
  <1> QED
    BY <1>1, RpcInvariant, PTL

(***************************************************************************)
(* The handler that reassembles a message accepts every event the task     *)
(* forwarded to it (collect_response in lib.rs, EventAccumulator in        *)
(* response.rs): its accumulator is on the path of the task's own.         *)
(***************************************************************************)
THEOREM AccumulatorsAgree == SessionSpec => []SecondCheckAgrees
  <1>1. RpcInv => SecondCheckAgrees
    BY AgreesNow DEF RpcInv, SecondCheckAgrees
  <1> QED
    BY <1>1, RpcInvariant, PTL

-----------------------------------------------------------------------------
(* What the caller gets. *)

\* The instance of MessageReply counts as this module does.
LEMMA ReplyCardinality == \A S : Reply!Cardinality(S) = Cardinality(S)
  BY DEF Reply!Cardinality, Cardinality

\* MessageReply means the same by a whole message and its parts.
LEMMA ReplyPositions ==
    /\ \A s, type : Reply!At(s, type) = At(s, type)
    /\ \A s, i : Reply!StopsOf(s, i) = StopsOf(s, i)
    /\ \A s, i : Reply!DeltasOf(s, i) = DeltasOf(s, i)
    /\ \A s, i, d : Reply!PartsFor(s, i, d) = PartsFor(s, i, d)
  <1>1. \A s, type : Reply!At(s, type) = At(s, type)
    BY DEF Reply!At, At
  <1>2. /\ \A s, i : Reply!StopsOf(s, i) = StopsOf(s, i)
        /\ \A s, i : Reply!DeltasOf(s, i) = DeltasOf(s, i)
    BY <1>1 DEF Reply!StopsOf, StopsOf, Reply!DeltasOf, DeltasOf
  <1>3. \A s, i, d : Reply!Carrying(s, i, d) = Carrying(s, i, d)
    BY <1>2 DEF Reply!Carrying, Carrying
  <1>4. \A S, p : Reply!Rank(S, p) = Rank(S, p)
    BY ReplyCardinality DEF Reply!Rank, Rank
  <1>5. \A S, n : Reply!Nth(S, n) = Nth(S, n)
    <2> TAKE S, n
    <2>1. {q \in S : Reply!Rank(S, q) = n} = {q \in S : Rank(S, q) = n}
      BY <1>4
    <2> QED
      BY <2>1 DEF Reply!Nth, Nth
  <1>6. \A s, i, d : Reply!PartsFor(s, i, d) = PartsFor(s, i, d)
    <2> TAKE s, i, d
    <2>1. Reply!Cardinality(Reply!Carrying(s, i, d))
              = Cardinality(Carrying(s, i, d))
      BY <1>3, ReplyCardinality
    <2> QED
      BY <1>3, <1>5, <2>1 DEF Reply!PartsFor, PartsFor
  <1> QED
    BY <1>1, <1>2, <1>6

\* MessageReply means the same by a viable block.
LEMMA ReplyBlocks ==
    \A s, p : Reply!ViableBlock(s, p) <=> ViableBlock(s, p)
  <1>1. \A s, p : Reply!InputWhole(s, p) <=> InputWhole(s, p)
    BY ReplyPositions DEF Reply!InputWhole, InputWhole
  <1>2. \A s, p : Reply!StartedBefore(s, p) = StartedBefore(s, p)
    <2> TAKE s, p
    <2>1. {q \in Reply!At(s, "content_block_start") : q < p}
              = {q \in At(s, "content_block_start") : q < p}
      BY ReplyPositions
    <2> QED
      BY <2>1, ReplyCardinality DEF Reply!StartedBefore, StartedBefore
  <1>3. \A e : Reply!Block(e) = Block(e)
    BY DEF Reply!Block, Block, Reply!DeltaTypes, DeltaTypes,
           Reply!DeltaTarget, DeltaTarget
  <1>4. \A b, e : Reply!DeltaFits(b, e) <=> DeltaFits(b, e)
    BY DEF Reply!DeltaFits, DeltaFits, Reply!DeltaTarget, DeltaTarget
  <1> QED
    BY <1>1, <1>2, <1>3, <1>4, ReplyPositions, ReplyCardinality
       DEF Reply!ViableBlock, ViableBlock

\* MessageReply means the same by a whole message.
LEMMA ReplyWhole ==
    \A s : Reply!WholeMessage(s) <=> WholeMessage(s)
  <1>1. \A s : Reply!StartsOnce(s) <=> StartsOnce(s)
    BY ReplyPositions, ReplyCardinality DEF Reply!StartsOnce, StartsOnce
  <1>2. \A s : Reply!NamesBlocks(s) <=> NamesBlocks(s)
    BY ReplyPositions DEF Reply!NamesBlocks, NamesBlocks
  <1>3. \A s : Reply!LastSaysString(s) <=> LastSaysString(s)
    BY ReplyPositions
       DEF Reply!LastSaysString, LastSaysString, Reply!Says, Says
  <1>4. \A s : Reply!Ended(s) <=> Ended(s)
    BY <1>3, ReplyPositions, ReplyCardinality DEF Reply!Ended, Ended
  <1>5. \A s : Reply!Viable(s) <=> Viable(s)
    BY <1>1, <1>2, <1>4, ReplyPositions, ReplyBlocks
       DEF Reply!Viable, Viable
  <1> QED
    BY <1>5, ReplyPositions DEF Reply!WholeMessage, WholeMessage

\* A prefix of the log names declared tools only.
LEMMA PrefixOwnTools ==
    ASSUME NEW l, NEW k,
           \A i \in DOMAIN k : i \in DOMAIN l /\ k[i] = l[i],
           \A p \in DOMAIN l :
               l[p].type = "content_block_start" /\ l[p].kind = "tool_use"
                   => l[p].name \in Range(ToolMap)
    PROVE  Reply!OwnTools(k)
  <1>1. \A f : Reply!Range(f) = Range(f)
    BY DEF Reply!Range, Range
  <1>2. \A p \in At(k, "content_block_start") :
            k[p].kind = "tool_use" => k[p].name \in Range(ToolMap)
    BY DEF At
  <1> QED
    BY <1>1, <1>2, ReplyPositions DEF Reply!OwnTools

\* The handler takes the last event of a message just when the message is whole.
LEMMA TakenWhole ==
    ASSUME RpcTypeOK, LagInv, TakeEvent
    PROVE  /\ taken' = Append(taken, Head(chan))
           /\ WholeMessage(taken') <=> Head(chan).type = "message_stop"
           /\ mode = "unary" => /\ Accepts(unary, Head(chan))
                                /\ unary'.done <=> WholeMessage(taken')
  <1>1. PICK x : x = Head(chan)
    OBVIOUS
  <1>2. /\ Len(taken) + 1 \in 1 .. Len(log) /\ x = log[Len(taken) + 1]
        /\ mode = "unary" => Accepts(unary, x)
    BY <1>1, AgreesNow DEF TakeEvent
  <1>3. /\ taken' = Append(taken, x)
        /\ mode = "unary" => unary' = After(unary, x)
    BY <1>1, <1>2 DEF TakeEvent, RpcTypeOK
  <1>4. taken \in Seq(AllEvents) /\ x \in AllEvents
    BY <1>2 DEF RpcTypeOK
  <1>5. PICK s : Path(s) /\ HandlerOn(s)
    BY DEF LagInv
  <1>6. PICK a : a = s[Len(taken) + 1]
    OBVIOUS
  <1>7. /\ Follows(a, taken) /\ Accepts(a, x)
        /\ mode = "unary" => unary = a
    BY <1>2, <1>5, <1>6 DEF Path, HandlerOn
  <1>8. Grows(taken', taken, x)
    BY <1>3, <1>4, AppendGrows
  <1>9. Follows(After(a, x), taken')
    BY <1>7, <1>8, FollowsAfter
  <1>10. After(a, x).done <=> WholeMessage(taken')
    BY <1>9 DEF Follows, WholeMessage
  <1>11. After(a, x).done <=> x.type = "message_stop"
    <2>1. a \in Accumulators /\ ~a.done
      BY <1>7 DEF Follows, Accepts
    <2> QED
      BY <1>4, <2>1, FlagsAfter
  <1> QED
    BY <1>1, <1>2, <1>3, <1>7, <1>10, <1>11

\* Taking an event: the caller hears it, or the handler keeps it for later.
LEMMA TakeHears ==
    ASSUME RpcTypeOK, LagInv, LagInv', RpcTypeOK', ToolsInv', TakeEvent
    PROVE  Reply!Hear \/ UNCHANGED <<Heard, Verdict>>
  <1>1. PICK e : e = Head(chan)
    OBVIOUS
  <1>2. /\ taken' = Append(taken, e)
        /\ WholeMessage(taken') <=> e.type = "message_stop"
        /\ mode = "unary" => /\ Accepts(unary, e)
                             /\ unary'.done <=> WholeMessage(taken')
    BY <1>1, TakenWhole
  <1>3. http \in Pending /\ mode' = mode /\ mode \in {"stream", "unary"}
    BY DEF TakeEvent, RpcTypeOK
  <1>4. Reply!OwnTools(taken')
    <2>1. \A i \in DOMAIN taken' : i \in DOMAIN log' /\ taken'[i] = log'[i]
      BY DEF RpcTypeOK, LagInv
    <2>2. \A p \in DOMAIN log' :
              log'[p].type = "content_block_start" /\ log'[p].kind = "tool_use"
                  => log'[p].name \in Range(ToolMap)
      BY DEF ToolsInv
    <2> QED
      BY <2>1, <2>2, PrefixOwnTools
  <1>5. /\ Len(taken') > Len(taken) /\ SubSeq(taken', 1, Len(taken)) = taken
        /\ Len(taken') > 0 /\ SubSeq(taken', 1, 0) = <<>>
    BY <1>2 DEF RpcTypeOK
  <1>6. CASE mode = "stream"
    <2>1. http' = IF e.type = "message_stop" THEN "complete" ELSE "streaming"
      BY <1>1, <1>6 DEF TakeEvent, Respond
    <2>2. Heard = taken /\ Heard' = taken' /\ Verdict = "pending"
      BY <1>3, <1>6 DEF Heard, Verdict
    <2>3. Verdict' = IF WholeMessage(taken') THEN "complete" ELSE "pending"
      BY <1>2, <2>1 DEF Verdict, Pending
    <2> QED
      BY <1>4, <1>5, <2>2, <2>3, ReplyWhole DEF Reply!Hear
  <1>7. CASE mode = "unary"
    <2>1. http' = IF unary'.done THEN "complete" ELSE "collecting"
      BY <1>1, <1>2, <1>7 DEF TakeEvent, Respond
    <2>2. Heard = <<>> /\ Verdict = "pending"
      BY <1>3, <1>7 DEF Heard, Verdict, Pending
    <2>3. CASE unary'.done
      <3>1. http' = "complete" /\ WholeMessage(taken')
        BY <1>2, <1>7, <2>1, <2>3
      <3>2. Heard' = taken' /\ Verdict' = "complete"
        BY <3>1 DEF Heard, Verdict, Pending
      <3> QED
        BY <1>4, <1>5, <2>2, <3>1, <3>2, ReplyWhole DEF Reply!Hear
    <2>4. CASE ~unary'.done
      <3>1. http' = "collecting"
        BY <2>1, <2>4
      <3>2. Heard' = <<>> /\ Verdict' = "pending"
        BY <1>3, <1>7, <3>1 DEF Heard, Verdict, Pending
      <3> QED
        BY <2>2, <3>2
    <2> QED
      BY <2>3, <2>4
  <1> QED
    BY <1>3, <1>6, <1>7

\* The end without a message: the caller hears nothing more.
LEMMA EndCloses ==
    ASSUME RpcTypeOK, TakeFailure \/ ChannelEnds \/ ClientLeaves
    PROVE  Reply!Close
  <1>1. /\ http \in Pending /\ http' \in {"failed", "gone"}
        /\ UNCHANGED <<mode, taken>>
    BY DEF TakeFailure, ChannelEnds, ClientLeaves, Respond
  <1>2. Heard' = Heard
    BY <1>1 DEF Heard, Pending
  <1>3. Verdict = "pending" /\ Verdict' \in {"error", "gone"}
    BY <1>1 DEF Verdict, Pending
  <1> QED
    BY <1>2, <1>3 DEF Reply!Close

\* What the caller hears depends on the response and the handler.
LEMMA ReplyUnheard ==
    ASSUME UNCHANGED <<mode, http, taken>>
    PROVE  UNCHANGED <<Heard, Verdict>>
  BY DEF Heard, Verdict

\* Every step of a request is one of MessageReply, or none of its.
LEMMA ReplyStep ==
    RpcInv /\ RpcInv' /\ [SessionNext]_sessionVars
        => [Reply!Next]_<<Heard, Verdict>>
  <1> SUFFICES ASSUME RpcInv, RpcInv', [SessionNext]_sessionVars
               PROVE  Reply!Next \/ UNCHANGED <<Heard, Verdict>>
    OBVIOUS
  <1>1. CASE TakeEvent
    BY <1>1, TakeHears DEF RpcInv, Reply!Next
  <1>2. CASE TakeFailure \/ ChannelEnds \/ ClientLeaves
    BY <1>2, EndCloses DEF RpcInv, Reply!Next
  <1>3. CASE TaskNext
    <2>1. UNCHANGED <<mode, http, taken>>
      BY <1>3
         DEF TaskNext, NoCredential, GetCredential, Initialize, ReadCallback,
             WriteReply, Initialized, SendTurn, SyncCompletion, Send, StopCli,
             ReadEvent, BadEvent, WorkFails, SendFails, TimedOut,
             WorkCancelled, WorkEnds, FinalSync, ReportError, ReportDropped,
             httpVars
    <2> QED
      BY <2>1, ReplyUnheard
  <1>4. CASE BodyDropped \/ Shutdown \/ UNCHANGED sessionVars
    BY <1>4, ReplyUnheard DEF BodyDropped, Shutdown, sessionVars, httpVars
  <1> QED
    BY <1>1, <1>2, <1>3, <1>4 DEF SessionNext, HttpNext

(***************************************************************************)
(* A request implements MessageReply: whatever the CLI, the timers and the *)
(* client do, the caller hears the events of one model message, with its   *)
(* own tool names, then exactly one verdict; "complete" after, and only    *)
(* after, a whole message (the handlers of lib.rs, run of rpc.rs).         *)
(***************************************************************************)
THEOREM RequestDeliversMessage == SessionSpec => DeliversMessage
  <1>1. SessionInit => Reply!Init
    BY DEF SessionInit, Reply!Init, Heard, Verdict, Pending
  <1> QED
    BY <1>1, RpcInvariant, ReplyStep, PTL
       DEF SessionSpec, DeliversMessage, Reply!Spec
=============================================================================
