---------------------------- MODULE Conversation ----------------------------
(***************************************************************************)
(* What the bridge makes of the messages of a request: MessagesRequest::   *)
(* validate (request.rs) refuses them or merges adjacent messages of one   *)
(* role, and seed_history (history.rs) writes the result as a transcript   *)
(* the CLI resumes, the last turn excepted, which it is sent afterwards.   *)
(*                                                                         *)
(* A block is its kind, the tool id it carries, and whether its own fields *)
(* are as validate_block wants them (sound).  Checks of single fields      *)
(* outside the messages (model, max_tokens, tools, thinking) are left out. *)
(* Ids of transcript rows are fresh; a row's position stands for its uuid. *)
(***************************************************************************)
EXTENDS SequencesExt

CONSTANTS
    Blocks,    \* the blocks a caller may write
    MaxBlocks, \* bound: the number of blocks of a conversation
    None       \* no parent, no resume point, no stop reason

ASSUME ConversationAssumption == None \notin Nat

Kinds == [user |-> {"text", "image", "tool_result"},
          assistant |-> {"text", "tool_use", "thinking", "redacted_thinking"}]

ValidBlock(b, role) == b.kind \in Kinds[role] /\ b.sound

ValidMessage(m) ==
    /\ m.role \in DOMAIN Kinds
    /\ m.blocks # <<>>
    /\ \A j \in DOMAIN m.blocks : ValidBlock(m.blocks[j], m.role)

-----------------------------------------------------------------------------
(* MessagesRequest::validate. *)

\* Mutant: the new content goes before what was merged already.
MergeOnePrepends(merged, m) ==
    IF merged # <<>> /\ Last(merged).role = m.role
    THEN [merged EXCEPT ![Len(merged)].blocks = m.blocks \o @]
    ELSE Append(merged, m)

MergeOne(merged, m) ==
    IF merged # <<>> /\ Last(merged).role = m.role
    THEN [merged EXCEPT ![Len(merged)].blocks = @ \o m.blocks]
    ELSE Append(merged, m)

Merge(messages) == FoldLeft(MergeOne, <<>>, messages)

\* pending: calls without a result; ids: all calls so far; other: the user
\* turn has content that is no result; ok: nothing was refused yet.
NothingPending == [pending |-> {}, ids |-> {}, other |-> FALSE, ok |-> TRUE]

Call(s, b) ==
    IF b.kind # "tool_use" THEN s
    ELSE [s EXCEPT !.ok = @ /\ b.id \notin s.ids,
                   !.ids = @ \cup {b.id},
                   !.pending = @ \cup {b.id}]

Answer(s, b) ==
    IF b.kind # "tool_result" THEN [s EXCEPT !.other = TRUE]
    ELSE [s EXCEPT !.ok = @ /\ ~s.other /\ b.id \in s.pending,
                   !.pending = @ \ {b.id}]

\* Mutant: unanswered calls are noticed by the next assistant turn only.
PairTurnLate(s, m) ==
    IF m.role = "assistant"
    THEN FoldLeft(Call, [s EXCEPT !.ok = @ /\ s.pending = {}], m.blocks)
    ELSE FoldLeft(Answer, [s EXCEPT !.other = FALSE], m.blocks)

PairTurn(s, m) ==
    IF m.role = "assistant"
    THEN FoldLeft(Call, [s EXCEPT !.ok = @ /\ s.pending = {}], m.blocks)
    ELSE LET t == FoldLeft(Answer, [s EXCEPT !.other = FALSE], m.blocks)
         IN [t EXCEPT !.ok = @ /\ t.pending = {}]

FromUserToUser(messages) ==
    /\ messages # <<>>
    /\ Head(messages).role = "user"
    /\ Last(messages).role = "user"

Validates(messages) ==
    /\ FromUserToUser(messages)
    /\ \A i \in DOMAIN messages : ValidMessage(messages[i])
    /\ FoldLeft(PairTurn, NothingPending, Merge(messages)).ok

-----------------------------------------------------------------------------
(* seed_history. *)

NoHistory == [rows |-> <<>>, parent |-> None, resumeAt |-> None]

StopReason(m) ==
    IF m.role = "user" THEN None
    ELSE IF \E j \in DOMAIN m.blocks : m.blocks[j].kind = "tool_use"
         THEN "tool_use" ELSE "end_turn"

\* Mutant: the resume point moves with every row.
SeedRowAnchorsAll(h, m) ==
    LET id == Len(h.rows) + 1 IN
    [rows |-> Append(h.rows, [parent |-> h.parent, stop |-> StopReason(m),
                              role |-> m.role, blocks |-> m.blocks]),
     parent |-> id,
     resumeAt |-> id]

SeedRow(h, m) ==
    LET id == Len(h.rows) + 1 IN
    [rows |-> Append(h.rows, [parent |-> h.parent, stop |-> StopReason(m),
                              role |-> m.role, blocks |-> m.blocks]),
     parent |-> id,
     resumeAt |-> IF m.role = "assistant" THEN id ELSE h.resumeAt]

\* Mutant: the last turn, which is sent later, is not written.
SeedHistoryShort(messages) == FoldLeft(SeedRow, NoHistory, Front(messages))

SeedHistory(messages) ==
    IF Len(messages) = 1 THEN NoHistory
    ELSE FoldLeft(SeedRow, NoHistory, messages)

\* What the CLI loads: the rows that lead to the resume point.
Resumed(history) ==
    LET Upto[id \in DOMAIN history.rows \cup {None}] ==
            IF id = None THEN <<>>
            ELSE LET row == history.rows[id] IN
                 Append(Upto[row.parent],
                        [role |-> row.role, blocks |-> row.blocks])
    IN Upto[history.resumeAt]

\* The user turn rpc::run writes after the initialize response.
FinalTurn(messages) == [role |-> "user", blocks |-> Last(messages).blocks]

-----------------------------------------------------------------------------
(* The caller writes a conversation block by block.  A message that is     *)
(* refused whatever follows ends it: the rest could not change the verdict. *)

VARIABLE messages

Size == Len(FlattenSeq([i \in DOMAIN messages |-> messages[i].blocks]))

ConversationInit == messages = <<>>

Open ==
    /\ messages # <<>> => Head(messages).role = "user"
    /\ \A i \in DOMAIN messages : ValidMessage(messages[i])

AddMessage(role, content) ==
    /\ Open
    /\ Size + Len(content) <= MaxBlocks
    /\ messages' = Append(messages, [role |-> role, blocks |-> content])

AddBlock(b) ==
    /\ Open
    /\ messages # <<>>
    /\ Size < MaxBlocks
    /\ messages' = [messages EXCEPT ![Len(messages)].blocks = Append(@, b)]

ConversationNext ==
    \/ \E role \in DOMAIN Kinds \cup {"system"} :
           \E content \in {<<>>} \cup {<<b>> : b \in Blocks} :
               AddMessage(role, content)
    \/ \E b \in Blocks : AddBlock(b)

ConversationSpec == ConversationInit /\ [][ConversationNext]_messages

-----------------------------------------------------------------------------
(***************************************************************************)
(* The reference: a conversation by the positions of its blocks, without   *)
(* merging anything.  A turn is a maximal run of messages of one role.     *)
(***************************************************************************)
TurnOf(s, p) == Cardinality({i \in 2 .. p[1] : s[i].role # s[i - 1].role})

Places(s) == UNION {{i} \X DOMAIN s[i].blocks : i \in DOMAIN s}
At(s, p) == s[p[1]].blocks[p[2]]
PlacesOf(s, kind) == {p \in Places(s) : At(s, p).kind = kind}
Precedes(p, q) == p[1] < q[1] \/ (p[1] = q[1] /\ p[2] < q[2])

Answers(s, r, c) == At(s, r).id = At(s, c).id /\ TurnOf(s, r) = TurnOf(s, c) + 1

WellPaired(s) ==
    LET calls == PlacesOf(s, "tool_use")
        results == PlacesOf(s, "tool_result") IN
    /\ \A c, d \in calls : At(s, c).id = At(s, d).id => c = d
    /\ \A c \in calls : Cardinality({r \in results : Answers(s, r, c)}) = 1
    /\ \A r \in results :
        /\ \E c \in calls : Answers(s, r, c)
        /\ \A p \in Places(s) :
               TurnOf(s, p) = TurnOf(s, r) /\ Precedes(p, r) => p \in results

IsConversation ==
    /\ Open
    /\ messages # <<>>
    /\ Last(messages).role = "user"
    /\ WellPaired(messages)

(***************************************************************************)
(* validate accepts exactly the conversations in which every tool call is  *)
(* answered once, in the next user turn and before anything else there,    *)
(* however the caller cut the turns into messages (the two loops of        *)
(* validate: merging, then the set of pending ids).                        *)
(***************************************************************************)
ValidatesExactly == Validates(messages) <=> IsConversation

(***************************************************************************)
(* The validated request says what the caller said: the same blocks in the *)
(* same order, roles alternating; validating it again changes nothing      *)
(* ("normalize adjacent roles", validate).                                 *)
(***************************************************************************)
ValidatedIsCanonical ==
    Validates(messages) =>
        LET merged == Merge(messages) IN
        /\ FlattenSeq([i \in DOMAIN merged |-> merged[i].blocks])
           = FlattenSeq([i \in DOMAIN messages |-> messages[i].blocks])
        /\ \A i \in DOMAIN merged :
               merged[i].role = IF i % 2 = 1 THEN "user" ELSE "assistant"
        /\ Validates(merged)
        /\ Merge(merged) = merged

(***************************************************************************)
(* The CLI ends up with the whole conversation and every turn once: what   *)
(* it resumes, followed by the user turn sent over stdin ("the final user  *)
(* turn is sent over stdin exactly once", seed_history and rpc::run).      *)
(***************************************************************************)
ConversationReachesCli ==
    Validates(messages) =>
        LET merged == Merge(messages) IN
        Append(Resumed(SeedHistory(merged)), FinalTurn(merged)) = merged

(***************************************************************************)
(* The transcript holds no unresolved call: a row that stopped to use      *)
(* tools is followed by a row that begins with their results, and no other *)
(* row is ("seed complete tool pairs", seed_history).                      *)
(***************************************************************************)
TranscriptPairsCalls ==
    Validates(messages) =>
        LET rows == SeedHistory(Merge(messages)).rows
            IdsIn(i, kind) == {b.id : b \in {x \in ToSet(rows[i].blocks) : x.kind = kind}}
        IN \A i \in DOMAIN rows : rows[i].role = "assistant" =>
            /\ i < Len(rows)
            /\ IdsIn(i, "tool_use") = IdsIn(i + 1, "tool_result")
            /\ rows[i].stop = "tool_use" <=> rows[i + 1].blocks[1].kind = "tool_result"
=============================================================================
