------------------------ MODULE MessageStreamProofs ------------------------
(***************************************************************************)
(* The accumulator judges every stream exactly and loses nothing of it,    *)
(* whatever events there are and however long the stream is.  The          *)
(* inductive invariant is that the accumulator follows its log (Follows of *)
(* MessageEventsProofs); the lemmas of that module do the work.            *)
(***************************************************************************)
EXTENDS MessageStream, MessageEventsProofs

StreamInv ==
    /\ log \in Seq(Events)
    /\ refused \in BOOLEAN
    /\ Follows(acc, log)

\* Each event that is pushed makes the log grow.
LEMMA LogGrows ==
    ASSUME StreamInv, NEW e \in Events
    PROVE  Grows(Append(log, e), log, e)
  <1>1. log \in Seq(AllEvents) /\ e \in AllEvents
    BY StreamAssumption DEF StreamInv, Follows, StreamAssumption
  <1> QED
    BY <1>1, AppendGrows

\* A stream begins with the new accumulator and nothing logged.
LEMMA StreamInitially == StreamInit => StreamInv
  <1>1. <<>> \in Seq(Events)
    OBVIOUS
  <1> QED
    BY <1>1, FollowsEmpty DEF StreamInit, StreamInv

\* An event is pushed or refused.
LEMMA StreamStep == StreamInv /\ [StreamNext]_streamVars => StreamInv'
  <1> SUFFICES ASSUME StreamInv, [StreamNext]_streamVars PROVE StreamInv'
    OBVIOUS
  <1>1. ASSUME NEW e \in Events, Push(e)
        PROVE  StreamInv'
    <2>1. Grows(Append(log, e), log, e)
      BY LogGrows
    <2>2. Follows(After(acc, e), Append(log, e))
      BY <1>1, <2>1, FollowsAfter DEF Push, StreamInv
    <2>3. Append(log, e) \in Seq(Events)
      BY DEF StreamInv
    <2> QED
      BY <1>1, <2>2, <2>3 DEF Push, StreamInv
  <1>2. ASSUME NEW e \in Events, PushFails(e)
        PROVE  StreamInv'
    BY <1>2 DEF PushFails, StreamInv
  <1>3. CASE UNCHANGED streamVars
    BY <1>3 DEF streamVars, StreamInv
  <1> QED
    BY <1>1, <1>2, <1>3 DEF StreamNext

(***************************************************************************)
(* The accumulator of every stream follows its log (push of response.rs).  *)
(***************************************************************************)
THEOREM StreamInvariant == StreamSpec => []StreamInv
  BY StreamInitially, StreamStep, PTL DEF StreamSpec

(***************************************************************************)
(* The accumulator, the log and the verdict keep their types; in           *)
(* particular no block ever has an unknown kind, although the events that  *)
(* start blocks may (content_block_start of response.rs).                  *)
(***************************************************************************)
THEOREM StreamTypeCorrect == StreamSpec => []StreamTypeOK
  <1>1. StreamInv => StreamTypeOK
    BY DEF StreamInv, StreamTypeOK, Follows
  <1> QED
    BY <1>1, StreamInvariant, PTL

(***************************************************************************)
(* push accepts an event just when the events so far may be those of one   *)
(* model message, and complete() holds just when they are a whole one, for *)
(* every number of blocks, in any interleaving (push and complete of       *)
(* response.rs).                                                           *)
(***************************************************************************)
THEOREM StreamsAreJudged == StreamSpec => []JudgesExactly
  <1>1. StreamInv => JudgesExactly
    <2> SUFFICES ASSUME StreamInv PROVE JudgesExactly
      OBVIOUS
    <2>1. acc.done <=> WholeMessage(log)
      BY DEF StreamInv, Follows, WholeMessage
    <2>2. \A e \in Events : Accepts(acc, e) <=> Viable(Append(log, e))
      <3> TAKE e \in Events
      <3>1. Grows(Append(log, e), log, e)
        BY LogGrows
      <3> QED
        BY <3>1, AcceptsExactly DEF StreamInv
    <2> QED
      BY <2>1, <2>2 DEF JudgesExactly
  <1> QED
    BY <1>1, StreamInvariant, PTL

(***************************************************************************)
(* Every delta is in the block it names, in the order received, however    *)
(* many blocks are open side by side (block() and append of response.rs).  *)
(***************************************************************************)
THEOREM StreamsAreReassembled == StreamSpec => []ContentIsReassembled
  <1>1. StreamInv => ContentIsReassembled
    BY DEF StreamInv, Follows, BlocksFollow, BlockFollows,
           ContentIsReassembled
  <1> QED
    BY <1>1, StreamInvariant, PTL
=============================================================================
