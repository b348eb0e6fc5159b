--------------------------- MODULE MessageStream ---------------------------
(***************************************************************************)
(* One accumulator fed with arbitrary events, as MessageEvents defines it, *)
(* against the reference definition of a whole message.                    *)
(***************************************************************************)
EXTENDS MessageEvents

CONSTANTS
    Events,    \* the events the CLI may emit
    MaxEvents  \* bound: the number of events of a message

ASSUME StreamAssumption == Events \subseteq AllEvents /\ MaxEvents \in Nat

VARIABLES
    acc,     \* the MessageAccumulator
    log,     \* the events it accepted (history)
    refused  \* push returned an error; the caller drops the accumulator

streamVars == <<acc, log, refused>>

StreamTypeOK ==
    /\ acc \in Accumulators
    /\ log \in Seq(Events)
    /\ refused \in BOOLEAN

StreamInit ==
    /\ acc = EmptyAccumulator
    /\ log = <<>>
    /\ refused = FALSE

Push(e) ==
    /\ ~refused
    /\ Len(log) < MaxEvents
    /\ Accepts(acc, e)
    /\ acc' = After(acc, e)
    /\ log' = Append(log, e)
    /\ UNCHANGED refused

PushFails(e) ==
    /\ ~refused
    /\ ~Accepts(acc, e)
    /\ refused' = TRUE
    /\ UNCHANGED <<acc, log>>

StreamNext == \E e \in Events : Push(e) \/ PushFails(e)

StreamSpec == StreamInit /\ [][StreamNext]_streamVars

-----------------------------------------------------------------------------
(***************************************************************************)
(* push is exact: it accepts an event just when the events so far may be   *)
(* those of one model message, whatever interleaving of blocks came        *)
(* before, and complete() holds just when they are a whole one (push and   *)
(* complete of response.rs; "incomplete or out of order stream is not      *)
(* success", tests/contracts.rs).                                          *)
(***************************************************************************)
JudgesExactly ==
    /\ acc.done <=> WholeMessage(log)
    /\ ~refused => \A e \in Events :
                       Accepts(acc, e) <=> Viable(Append(log, e))

(***************************************************************************)
(* Every delta ends up in the block it names, in the order received, also  *)
(* when blocks are open side by side (block() and append of response.rs).  *)
(***************************************************************************)
ContentIsReassembled ==
    \A i \in DOMAIN acc.blocks : \A d \in DeltaTypes :
        acc.blocks[i].content[d] = PartsFor(log, i - 1, d)
=============================================================================
