--------------------------- MODULE MessageEvents ---------------------------
(***************************************************************************)
(* The stream events of one model message and the accumulator that checks  *)
(* and reassembles them, src/src/response.rs.  The same accumulator runs   *)
(* twice: in the rpc task, before an event is forwarded, and in the HTTP   *)
(* handler of a request that does not stream.                              *)
(*                                                                         *)
(* An event is a record with a type and what the code looks at.  An index  *)
(* of -1 is one that is missing or no u64.  Text, thinking, signatures and *)
(* tool JSON arrive in parts; a string is the sequence of the parts it was *)
(* put together from, where the empty part adds nothing.  Citations are an *)
(* array, and every one of them adds an element.  Whether a string is a    *)
(* JSON object is the constant ObjectTexts.                                *)
(***************************************************************************)
EXTENDS Integers, Sequences, FiniteSets, Functions

CONSTANTS
    Parts,       \* string fragments carried by deltas
    Empty,       \* the empty fragment, when Parts has it
    ObjectTexts, \* sequences of parts that concatenate to a JSON object
    ToolMap,     \* tool name the CLI uses |-> name the caller declared
    OtherTools,  \* tool names the caller did not declare
    MaxIndex,    \* bound: the highest block index an event names
    None         \* an absent or malformed field

ASSUME EventsAssumption ==
    /\ ObjectTexts \subseteq Seq(Parts \ {Empty}) \ {<<>>}
    /\ None \notin Parts
    /\ MaxIndex \in Nat
    /\ DOMAIN ToolMap \cap OtherTools = {}

Indices == -1 .. MaxIndex

\* The kind of block a delta belongs to.
DeltaTarget == [text_delta |-> "text", citations_delta |-> "text",
                thinking_delta |-> "thinking", signature_delta |-> "thinking",
                input_json_delta |-> "tool_use"]
DeltaTypes == DOMAIN DeltaTarget

BlockKinds == {"text", "thinking", "tool_use", "other"}

ToolNames == DOMAIN ToolMap \cup Range(ToolMap) \cup OtherTools \cup {None}

(***************************************************************************)
(* sound: the initial value of the block suits what comes (the input of a  *)
(* tool_use is an object, the citations of a text are absent or an array). *)
(* stop: what a message_delta says of stop_reason.                         *)
(***************************************************************************)
AllEvents ==
         [type : {"message_start"}, valid : BOOLEAN]
    \cup [type : {"content_block_start"}, index : Indices,
          kind : BlockKinds \cup {None}, sound : BOOLEAN, name : ToolNames]
    \cup [type : {"content_block_delta"}, index : Indices,
          delta : DeltaTypes \cup {None}, part : Parts \cup {None}]
    \cup [type : {"content_block_stop"}, index : Indices]
    \cup [type : {"message_delta"}, stop : {"string", "null", "absent"}]
    \cup [type : {"message_stop", "ping", "error", "other"}]

-----------------------------------------------------------------------------
(* MessageAccumulator: push, complete and finish. *)

Block(e) == [kind |-> e.kind, sound |-> e.sound, closed |-> FALSE,
             content |-> [d \in DeltaTypes |-> <<>>]]

Accumulators ==
    [started : BOOLEAN, stopReason : BOOLEAN, done : BOOLEAN,
     blocks : Seq([kind : BlockKinds, sound : BOOLEAN, closed : BOOLEAN,
                   content : [DeltaTypes -> Seq(Parts \cup {None})]])]

EmptyAccumulator ==
    [started |-> FALSE, stopReason |-> FALSE, done |-> FALSE, blocks |-> <<>>]

IsOpen(acc, index) ==
    index + 1 \in DOMAIN acc.blocks /\ ~acc.blocks[index + 1].closed

\* A citation may be any JSON value; the other deltas carry a string.
DeltaFits(block, e) ==
    /\ e.delta # None
    /\ DeltaTarget[e.delta] = block.kind
    /\ IF e.delta = "citations_delta" THEN block.sound ELSE e.part # None

\* A tool call without input comes with no JSON, or with empty parts only: the
\* initial input then stays, and it has to be an object.
ToolInputReady(block) ==
    block.kind = "tool_use" =>
        LET json == block.content["input_json_delta"] IN
        IF json = <<>> THEN block.sound ELSE json \in ObjectTexts

\* push returns Ok.
Accepts(acc, e) ==
    /\ ~acc.done
    /\ \/ e.type = "message_start" /\ ~acc.started /\ e.valid
       \/ /\ e.type = "content_block_start"
          /\ acc.started
          /\ e.index = Len(acc.blocks)
          /\ e.kind # None
       \/ /\ e.type = "content_block_delta"
          /\ IsOpen(acc, e.index)
          /\ DeltaFits(acc.blocks[e.index + 1], e)
       \/ /\ e.type = "content_block_stop"
          /\ IsOpen(acc, e.index)
          /\ ToolInputReady(acc.blocks[e.index + 1])
       \/ e.type = "message_delta" /\ acc.started
       \/ /\ e.type = "message_stop"
          /\ acc.started
          /\ acc.stopReason
          /\ \A i \in DOMAIN acc.blocks : acc.blocks[i].closed
       \/ e.type \in {"ping", "other"}

\* Mutant: a delta goes to the newest block whatever its index.
AppendPartToNewest(blocks, e) ==
    [blocks EXCEPT ![Len(blocks)].content[e.delta] = Append(@, e.part)]

\* Mutant: a delta replaces what was received before.
AppendPartReplaces(blocks, e) ==
    [blocks EXCEPT ![e.index + 1].content[e.delta] = e.part]

\* Mutant: any delta counts as input, so that an empty one has to parse.
AppendAnyPart(blocks, e) ==
    [blocks EXCEPT ![e.index + 1].content[e.delta] = Append(@, e.part)]

\* push_str of the empty string changes nothing; push of a citation does.
AppendPart(blocks, e) ==
    IF e.part = Empty /\ e.delta # "citations_delta" THEN blocks
    ELSE [blocks EXCEPT ![e.index + 1].content[e.delta] = Append(@, e.part)]

\* What push leaves behind when it accepts.  A message_delta overwrites the
\* fields it carries.
After(acc, e) ==
    CASE e.type = "message_start" -> [acc EXCEPT !.started = TRUE]
      [] e.type = "content_block_start" ->
             [acc EXCEPT !.blocks = Append(@, Block(e))]
      [] e.type = "content_block_delta" ->
             [acc EXCEPT !.blocks = AppendPart(@, e)]
      [] e.type = "content_block_stop" ->
             [acc EXCEPT !.blocks[e.index + 1].closed = TRUE]
      [] e.type = "message_delta" /\ e.stop # "absent" ->
             [acc EXCEPT !.stopReason = (e.stop = "string")]
      [] e.type = "message_stop" -> [acc EXCEPT !.done = TRUE]
      [] OTHER -> acc

\* translate_event: the caller sees the tool names it declared.
Translatable(e) ==
    e.type = "content_block_start" /\ e.kind = "tool_use"
        => e.name \in DOMAIN ToolMap

Translate(e) ==
    IF e.type = "content_block_start" /\ e.kind = "tool_use"
    THEN [e EXCEPT !.name = ToolMap[@]] ELSE e

-----------------------------------------------------------------------------
(***************************************************************************)
(* Reference definitions, by positions in the list of events, for what the *)
(* accumulator decides event by event.                                     *)
(***************************************************************************)
At(log, type) == {p \in DOMAIN log : log[p].type = type}

StopsOf(log, i) == {q \in At(log, "content_block_stop") : log[q].index = i}

DeltasOf(log, i) == {q \in At(log, "content_block_delta") : log[q].index = i}

StartedBefore(log, p) ==
    Cardinality({q \in At(log, "content_block_start") : q < p})

\* The message_deltas that say something of stop_reason.
Says(log) == {p \in At(log, "message_delta") : log[p].stop # "absent"}

\* The n-th of a set of positions.
Rank(S, p) == Cardinality({q \in S : q <= p})
Nth(S, n) == CHOOSE p \in {q \in S : Rank(S, q) = n} : TRUE

\* The deltas of type d that bring block i something, and what they bring, in
\* order.
Carrying(log, i, d) ==
    {q \in DeltasOf(log, i) :
         /\ log[q].delta = d
         /\ d # "citations_delta" => log[q].part # Empty}
PartsFor(log, i, d) ==
    [n \in 1 .. Cardinality(Carrying(log, i, d)) |->
         log[Nth(Carrying(log, i, d), n)].part]

\* The tool input of the block that starts at p is whole: its deltas make up a
\* JSON object, or none of them brings anything and it started with one.
InputWhole(log, p) ==
    LET i == log[p].index IN
    log[p].kind = "tool_use" =>
        \/ PartsFor(log, i, "input_json_delta") \in ObjectTexts
        \/ /\ log[p].sound
           /\ \A q \in DeltasOf(log, i) :
                  log[q].delta = "input_json_delta" => log[q].part = Empty

\* Blocks are numbered from 0 as they start; each is stopped at most once,
\* after its start, with its tool input whole; every delta lies in between and
\* fits the kind of its block.
ViableBlock(log, p) ==
    LET i == log[p].index
        stops == StopsOf(log, i)
    IN  /\ i = StartedBefore(log, p)
        /\ log[p].kind # None
        /\ Cardinality(stops) <= 1
        /\ \A q \in stops : q > p
        /\ \A q \in DeltasOf(log, i) :
               /\ q > p
               /\ \A s \in stops : q < s
               /\ DeltaFits(Block(log[p]), log[q])
        /\ stops # {} => InputWhole(log, p)

LastSaysString(log) ==
    \E p \in Says(log) : log[p].stop = "string" /\ \A q \in Says(log) : q <= p

\* Every block is stopped and the last word on stop_reason is a string.
Ended(log) ==
    /\ Cardinality(At(log, "content_block_stop"))
           = Cardinality(At(log, "content_block_start"))
    /\ LastSaysString(log)

\* A single, valid message_start, before everything but pings.
StartsOnce(log) ==
    LET starts == At(log, "message_start") IN
    /\ Cardinality(starts) <= 1
    /\ \A p \in starts : log[p].valid
    /\ \A q \in DOMAIN log : \/ log[q].type \in {"ping", "other"}
                             \/ \E p \in starts : p <= q

\* Deltas and stops name blocks that start somewhere in the list.
NamesBlocks(log) ==
    \A q \in At(log, "content_block_delta") \cup At(log, "content_block_stop") :
        \E p \in At(log, "content_block_start") : log[p].index = log[q].index

\* The events so far may be those of one model message.
Viable(log) ==
    /\ StartsOnce(log)
    /\ \A p \in At(log, "content_block_start") : ViableBlock(log, p)
    /\ NamesBlocks(log)
    /\ At(log, "error") = {}
    /\ \A p \in At(log, "message_stop") : p = Len(log) /\ Ended(log)

WholeMessage(log) == Viable(log) /\ At(log, "message_stop") # {}
=============================================================================
