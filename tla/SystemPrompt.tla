---------------------------- MODULE SystemPrompt ----------------------------
(***************************************************************************)
(* What the bridge makes of the system field of a request: system_parts    *)
(* (request.rs) turns it into a list of texts, and normalize               *)
(* (system_prompt.rs) removes the paragraphs a Claude Code CLI put before  *)
(* the caller's text, since the CLI of the bridge will write its own.      *)
(*                                                                         *)
(* A text is a sequence of tokens: a line feed, one of the identity        *)
(* sentences, a billing header with its fields, or other words.            *)
(***************************************************************************)
EXTENDS SequencesExt

CONSTANTS
    Headers,   \* billing headers, each a sequence of fields
    MaxTokens  \* bound: tokens and parts of a system field

Fields == {"cc_version", "cc_entrypoint", "cc_other", "cch", "foreign",
           "malformed"}

ASSUME PromptAssumption == Headers \subseteq Seq(Fields) /\ MaxTokens \in Nat

LineFeed == [type |-> "line_feed"]
Identity == [type |-> "identity"]
Words    == [type |-> "words"]
Header(fields) == [type |-> "header", fields |-> fields]

Tokens == {LineFeed, Identity, Words} \cup {Header(h) : h \in Headers}

BlankLine == <<LineFeed, LineFeed>>

-----------------------------------------------------------------------------
(* normalize *)

\* value.split_once("\n\n")
Breaks(text) == {p \in 1 .. Len(text) - 1 : SubSeq(text, p, p + 1) = BlankLine}

\* Mutant: a paragraph ends with its line.
ParagraphOfLine(text) ==
    IF LineFeed \notin ToSet(text) THEN [first |-> text, rest |-> <<>>]
    ELSE LET p == Min({q \in DOMAIN text : text[q] = LineFeed}) IN
         [first |-> SubSeq(text, 1, p - 1),
          rest  |-> SubSeq(text, p + 1, Len(text))]

Paragraph(text) ==
    IF Breaks(text) = {} THEN [first |-> text, rest |-> <<>>]
    ELSE LET p == Min(Breaks(text)) IN
         [first |-> SubSeq(text, 1, p - 1),
          rest  |-> SubSeq(text, p + 2, Len(text))]

BillingHeader(text) ==
    /\ Len(text) = 1
    /\ text[1].type = "header"
    /\ {"cc_version", "cc_entrypoint"} \subseteq ToSet(text[1].fields)
    /\ ToSet(text[1].fields) \cap {"foreign", "malformed"} = {}

IsIdentity(text) == text = <<Identity>>

\* The loop: complete leading wrappers go, one identity or one header with
\* its identity at a time.
Strip[text \in Seq(Tokens)] ==
    LET one == Paragraph(text)
        two == Paragraph(one.rest) IN
    IF IsIdentity(one.first) THEN Strip[one.rest]
    ELSE IF BillingHeader(one.first) /\ IsIdentity(two.first) THEN Strip[two.rest]
    ELSE text

Join(parts) ==
    FlattenSeq([i \in DOMAIN parts |->
                    IF i = 1 THEN parts[i] ELSE BlankLine \o parts[i]])

Normalize(parts) ==
    LET joined == Join(parts)
        body   == Strip[joined] IN
    IF Len(body) = Len(joined) /\ parts # <<>> THEN parts ELSE <<body>>

-----------------------------------------------------------------------------
(* The caller writes a system field: nothing, or text blocks.  No field and *)
(* a single string are the texts <<>> and <<text>> here (system_parts).     *)

VARIABLE system

SystemParts(field) ==
    IF field = <<>> THEN Normalize(<< <<>> >>) ELSE Normalize(field)

PromptSize == Len(system) + Len(FlattenSeq(system))

PromptInit == system = <<>>

AddPart ==
    /\ PromptSize < MaxTokens
    /\ system' = Append(system, <<>>)

AddToken(t) ==
    /\ PromptSize < MaxTokens
    /\ system # <<>>
    /\ system' = [system EXCEPT ![Len(system)] = Append(@, t)]

PromptNext == AddPart \/ \E t \in Tokens : AddToken(t)

-----------------------------------------------------------------------------
(***************************************************************************)
(* The reference, by positions: a text of nothing but wrappers.  Every     *)
(* third token is an identity, or a header and then an identity, with a    *)
(* blank line after each, but for the last when nothing else follows.      *)
(***************************************************************************)
Wraps(text, whole) ==
    /\ \A p \in DOMAIN text :
           IF p % 3 # 1 THEN text[p] = LineFeed
           ELSE \/ text[p] = Identity
                \/ /\ BillingHeader(<<text[p]>>)
                   /\ p + 3 \in DOMAIN text
                   /\ text[p + 3] = Identity
    /\ Len(text) % 3 \in IF whole THEN {0, 1} ELSE {0}

(***************************************************************************)
(* Only complete leading wrappers are removed, all of them, and nothing    *)
(* else is touched: the caller's text is what remains, and where there     *)
(* were none the blocks stay apart ("quoted markers or instructions        *)
(* elsewhere stay untouched", system_prompt.rs).  Normalizing again        *)
(* removes nothing more.                                                   *)
(***************************************************************************)
PromptKeepsBody ==
    LET result == SystemParts(system)
        joined == Join(system)
        body   == Join(result)
        cut    == Len(joined) - Len(body) IN
    /\ cut >= 0
    /\ body = SubSeq(joined, cut + 1, Len(joined))
    /\ Wraps(SubSeq(joined, 1, cut), body = <<>>)
    /\ \A p \in DOMAIN body :
           ~Wraps(SubSeq(body, 1, p), p = Len(body))
    /\ cut = 0 /\ system # <<>> => result = system
    /\ cut > 0 => Len(result) = 1
    /\ Normalize(result) = result
=============================================================================
