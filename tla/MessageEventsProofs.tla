------------------------ MODULE MessageEventsProofs ------------------------
(***************************************************************************)
(* The accumulator of MessageEvents against its reference definitions, for *)
(* every list of events: blocks side by side, deltas in any order, any     *)
(* number of either.                                                       *)
(*                                                                         *)
(* Follows(a, s) is the invariant: the accumulator a is what the events s, *)
(* read by their positions, say.  AcceptsExactly shows that such an        *)
(* accumulator accepts just the events after which s is still viable, and  *)
(* FollowsAfter that it then follows the longer list.  MessageStreamProofs *)
(* and RpcSessionProofs turn that into invariants of their specifications. *)
(***************************************************************************)
EXTENDS MessageEvents, FiniteSetTheorems, TLAPS

BlockRecords ==
    [kind : BlockKinds, sound : BOOLEAN, closed : BOOLEAN,
     content : [DeltaTypes -> Seq(Parts \cup {None})]]

Closed(a) == {i \in DOMAIN a.blocks : a.blocks[i].closed}

\* The block of the accumulator and the events that name it.
BlockFollows(a, s, i) ==
    /\ \E p \in At(s, "content_block_start") :
           /\ s[p].index = i - 1
           /\ a.blocks[i].kind = s[p].kind
           /\ a.blocks[i].sound = s[p].sound
    /\ a.blocks[i].closed <=> StopsOf(s, i - 1) # {}
    /\ \A d \in DeltaTypes : a.blocks[i].content[d] = PartsFor(s, i - 1, d)

\* The event at p and the block it starts.
StartFollowed(a, s, p) ==
    /\ s[p].index + 1 \in DOMAIN a.blocks
    /\ a.blocks[s[p].index + 1].kind = s[p].kind
    /\ a.blocks[s[p].index + 1].sound = s[p].sound

BlocksFollow(a, s) ==
    /\ \A i \in DOMAIN a.blocks : BlockFollows(a, s, i)
    /\ \A p \in At(s, "content_block_start") : StartFollowed(a, s, p)
    /\ Cardinality(At(s, "content_block_start")) = Len(a.blocks)
    /\ Cardinality(At(s, "content_block_stop")) = Cardinality(Closed(a))

Follows(a, s) ==
    /\ a \in Accumulators /\ s \in Seq(AllEvents)
    /\ Viable(s)
    /\ a.started <=> At(s, "message_start") # {}
    /\ a.done <=> At(s, "message_stop") # {}
    /\ a.stopReason <=> LastSaysString(s)
    /\ BlocksFollow(a, s)

-----------------------------------------------------------------------------
(* Positions in a list that grows by one event. *)

\* Sets of positions are finite, and a later one adds one to their size.
LEMMA PositionsFinite ==
    ASSUME NEW n \in Nat, NEW S \in SUBSET (1 .. n)
    PROVE  /\ IsFiniteSet(S)
           /\ Cardinality(S) \in Nat
           /\ Cardinality(S) = 0 <=> S = {}
           /\ n + 1 \notin S
           /\ Cardinality(S \cup {n + 1}) = Cardinality(S) + 1
  <1>1. IsFiniteSet(1 .. n)
    BY FS_Interval
  <1>2. IsFiniteSet(S)
    BY <1>1, FS_Subset
  <1>3. n + 1 \notin S
    OBVIOUS
  <1> QED
    BY <1>2, <1>3, FS_CardinalityType, FS_EmptySet, FS_AddElement

\* The n-th position of a set does not change when a later one joins it.
LEMMA NthKept ==
    ASSUME NEW n \in Nat, NEW S \in SUBSET (1 .. n), NEW T, T = S \cup {n + 1}
    PROVE  /\ Cardinality(T) = Cardinality(S) + 1
           /\ \A k \in 1 .. Cardinality(S) : Nth(T, k) = Nth(S, k)
           /\ Nth(T, Cardinality(S) + 1) = n + 1
  <1>1. /\ Cardinality(T) = Cardinality(S) + 1 /\ Cardinality(S) \in Nat
        /\ IsFiniteSet(S)
    BY PositionsFinite
  <1>2. ASSUME NEW p \in S
        PROVE  /\ Rank(T, p) = Rank(S, p)
               /\ Rank(S, p) \in Nat /\ Rank(S, p) <= Cardinality(S)
    <2>1. {q \in T : q <= p} = {q \in S : q <= p}
      OBVIOUS
    <2>2. {q \in S : q <= p} \in SUBSET S
      OBVIOUS
    <2>3. /\ Cardinality({q \in S : q <= p}) <= Cardinality(S)
          /\ Cardinality({q \in S : q <= p}) \in Nat
      BY <1>1, <2>2, FS_Subset, FS_CardinalityType
    <2> QED
      BY <2>1, <2>3 DEF Rank
  <1>3. Rank(T, n + 1) = Cardinality(S) + 1
    <2>1. \A q \in T : q <= n + 1
      OBVIOUS
    <2>2. {q \in T : q <= n + 1} = T
      BY <2>1
    <2> QED
      BY <1>1, <2>2 DEF Rank
  <1>4. ASSUME NEW k \in 1 .. Cardinality(S)
        PROVE  Nth(T, k) = Nth(S, k)
    <2>1. \A q \in T : Rank(T, q) = k <=> q \in S /\ Rank(S, q) = k
      <3> TAKE q \in T
      <3>1. CASE q \in S
        BY <1>2, <3>1
      <3>2. CASE q = n + 1
        BY <1>1, <1>3, <3>2
      <3> QED
        BY <3>1, <3>2
    <2>2. {q \in T : Rank(T, q) = k} = {q \in S : Rank(S, q) = k}
      BY <2>1
    <2> QED
      BY <2>2 DEF Nth
  <1>5. Nth(T, Cardinality(S) + 1) = n + 1
    <2>1. \A q \in T : Rank(T, q) = Cardinality(S) + 1 <=> q = n + 1
      BY <1>1, <1>2, <1>3
    <2>2. {q \in T : Rank(T, q) = Cardinality(S) + 1} = {n + 1}
      BY <2>1
    <2> QED
      BY <2>2 DEF Nth
  <1> QED
    BY <1>1, <1>4, <1>5

\* Every rank up to the size of a set of positions is the rank of one of them:
\* ranks differ, so they are an injection into an interval of the same size.
LEMMA NthExists ==
    ASSUME NEW n \in Nat, NEW S \in SUBSET (1 .. n)
    PROVE  \A k \in 1 .. Cardinality(S) : Nth(S, k) \in S
  <1> DEFINE Upto(p) == {q \in S : q <= p}
             rank == [p \in S |-> Rank(S, p)]
  <1>1. IsFiniteSet(S) /\ Cardinality(S) \in Nat
    BY PositionsFinite
  <1>2. ASSUME NEW p \in S
        PROVE  /\ IsFiniteSet(Upto(p))
               /\ Rank(S, p) = Cardinality(Upto(p))
               /\ Rank(S, p) \in 1 .. Cardinality(S)
    <2>1. Upto(p) \in SUBSET S /\ p \in Upto(p)
      OBVIOUS
    <2>2. /\ IsFiniteSet(Upto(p)) /\ Cardinality(Upto(p)) <= Cardinality(S)
          /\ Cardinality(Upto(p)) \in Nat /\ Cardinality(Upto(p)) # 0
      BY <1>1, <2>1, FS_Subset, FS_CardinalityType, FS_EmptySet
    <2> QED
      BY <1>1, <2>2 DEF Rank
  <1>3. ASSUME NEW p \in S, NEW q \in S, p < q
        PROVE  Rank(S, p) # Rank(S, q)
    <2>1. p \in Int /\ q \in Int /\ \A r \in S : r \in Int /\ (r <= p => r <= q)
      BY <1>3
    <2>a. Upto(p) \subseteq Upto(q)
      BY <2>1
    <2>b. q \in Upto(q) /\ q \notin Upto(p)
      BY <1>3, <2>1
    <2>2. Upto(p) \in SUBSET Upto(q) /\ q \in Upto(q) /\ q \notin Upto(p)
      BY <2>a, <2>b
    <2> QED
      BY <1>2, <2>2, FS_Subset
  <1>4. rank \in Injection(S, 1 .. Cardinality(S))
    <2>1. rank \in [S -> 1 .. Cardinality(S)]
      BY <1>2
    <2>2. \A p, q \in S : rank[p] = rank[q] => p = q
      BY <1>3
    <2> QED
      BY <2>1, <2>2 DEF Injection, IsInjective
  <1>5. /\ IsFiniteSet(1 .. Cardinality(S))
        /\ Cardinality(1 .. Cardinality(S)) = Cardinality(S)
    BY <1>1, FS_Interval
  <1>6. rank \in Surjection(S, 1 .. Cardinality(S))
    <2> HIDE DEF rank
    <2> QED
      BY <1>4, <1>5, FS_Injection
  <1>7. \A k \in 1 .. Cardinality(S) : \E p \in S : Rank(S, p) = k
    BY <1>6 DEF Surjection
  <1> QED
    BY <1>7 DEF Nth

\* t is s with the event e at its end.
Grows(t, s, e) ==
    /\ s \in Seq(AllEvents) /\ e \in AllEvents /\ t \in Seq(AllEvents)
    /\ Len(t) = Len(s) + 1 /\ t[Len(s) + 1] = e
    /\ \A p \in DOMAIN s : t[p] = s[p]

\* Appending an event makes a list grow by it.
LEMMA AppendGrows ==
    ASSUME NEW s \in Seq(AllEvents), NEW e \in AllEvents
    PROVE  Grows(Append(s, e), s, e)
  BY DEF Grows

\* What growing by one event says of the positions.
LEMMA GrowsTypes ==
    ASSUME NEW s, NEW e, NEW t, Grows(t, s, e)
    PROVE  /\ s \in Seq(AllEvents) /\ e \in AllEvents /\ t \in Seq(AllEvents)
           /\ Len(s) \in Nat /\ Len(t) = Len(s) + 1
           /\ DOMAIN s = 1 .. Len(s) /\ DOMAIN t = 1 .. Len(s) + 1
           /\ t[Len(s) + 1] = e
           /\ \A p \in DOMAIN s : t[p] = s[p]
  BY DEF Grows

\* The positions of the events of one type.
LEMMA AtAppended ==
    ASSUME NEW s, NEW e, NEW t, Grows(t, s, e), NEW type
    PROVE  /\ At(s, type) \subseteq 1 .. Len(s)
           /\ At(s, type) \subseteq At(t, type)
           /\ e.type = type => At(t, type) = At(s, type) \cup {Len(s) + 1}
           /\ e.type # type => At(t, type) = At(s, type)
           /\ \A p \in At(s, type) : p \in DOMAIN s /\ t[p] = s[p]
  BY GrowsTypes DEF At

\* The positions of the stops of block i.
LEMMA StopsAppended ==
    ASSUME NEW s, NEW e, NEW t, Grows(t, s, e), NEW i
    PROVE  /\ StopsOf(s, i) \subseteq 1 .. Len(s)
           /\ e.type = "content_block_stop" /\ e.index = i
                  => StopsOf(t, i) = StopsOf(s, i) \cup {Len(s) + 1}
           /\ ~(e.type = "content_block_stop" /\ e.index = i)
                  => StopsOf(t, i) = StopsOf(s, i)
  BY GrowsTypes DEF StopsOf, At

\* The positions of the deltas of block i.
LEMMA DeltasAppended ==
    ASSUME NEW s, NEW e, NEW t, Grows(t, s, e), NEW i
    PROVE  /\ DeltasOf(s, i) \subseteq 1 .. Len(s)
           /\ e.type = "content_block_delta" /\ e.index = i
                  => DeltasOf(t, i) = DeltasOf(s, i) \cup {Len(s) + 1}
           /\ ~(e.type = "content_block_delta" /\ e.index = i)
                  => DeltasOf(t, i) = DeltasOf(s, i)
           /\ \A q \in DeltasOf(s, i) : q \in DOMAIN s /\ t[q] = s[q]
  BY GrowsTypes DEF DeltasOf, At

\* The event adds a part of type d to block i.
Adds(e, i, d) ==
    /\ e.type = "content_block_delta" /\ e.index = i /\ e.delta = d
    /\ d # "citations_delta" => e.part # Empty

\* The positions of the deltas that bring block i a part of one type.
LEMMA CarryingAppended ==
    ASSUME NEW s, NEW e, NEW t, Grows(t, s, e), NEW i, NEW d
    PROVE  /\ Carrying(s, i, d) \subseteq 1 .. Len(s)
           /\ Adds(e, i, d)
                  => Carrying(t, i, d) = Carrying(s, i, d) \cup {Len(s) + 1}
           /\ ~Adds(e, i, d) => Carrying(t, i, d) = Carrying(s, i, d)
           /\ \A q \in Carrying(s, i, d) : q \in DOMAIN s /\ t[q] = s[q]
  <1>1. /\ DeltasOf(s, i) \subseteq 1 .. Len(s) /\ t[Len(s) + 1] = e
        /\ \A q \in DeltasOf(s, i) : q \in DOMAIN s /\ t[q] = s[q]
    BY GrowsTypes, DeltasAppended
  <1>2. /\ Carrying(s, i, d) \subseteq 1 .. Len(s)
        /\ \A q \in Carrying(s, i, d) : q \in DOMAIN s /\ t[q] = s[q]
    BY <1>1 DEF Carrying
  <1>3. Len(s) + 1 \notin DeltasOf(s, i)
    BY <1>1, GrowsTypes
  <1>4. CASE e.type = "content_block_delta" /\ e.index = i
    <2>1. DeltasOf(t, i) = DeltasOf(s, i) \cup {Len(s) + 1}
      BY <1>4, DeltasAppended
    <2>2. \A q : q \in Carrying(t, i, d)
                    <=> \/ q \in Carrying(s, i, d)
                        \/ q = Len(s) + 1 /\ Adds(e, i, d)
      BY <1>1, <1>3, <1>4, <2>1 DEF Carrying, Adds
    <2>3. Adds(e, i, d) => Carrying(t, i, d) = Carrying(s, i, d) \cup {Len(s) + 1}
      BY <2>2
    <2>4. ~Adds(e, i, d) => Carrying(t, i, d) = Carrying(s, i, d)
      BY <2>2
    <2> QED
      BY <1>2, <1>4, <2>3, <2>4
  <1>5. CASE ~(e.type = "content_block_delta" /\ e.index = i)
    <2>1. DeltasOf(t, i) = DeltasOf(s, i)
      BY <1>5, DeltasAppended
    <2>2. Carrying(t, i, d) = Carrying(s, i, d)
      BY <1>1, <2>1 DEF Carrying
    <2> QED
      BY <1>2, <1>5, <2>2 DEF Adds
  <1> QED
    BY <1>4, <1>5

\* An event that brings nothing of that type for that block leaves its parts.
LEMMA PartsKept ==
    ASSUME NEW s, NEW e, NEW t, Grows(t, s, e), NEW i, NEW d,
           ~Adds(e, i, d)
    PROVE  PartsFor(t, i, d) = PartsFor(s, i, d)
  <1> DEFINE S == Carrying(s, i, d)
  <1>1. Carrying(t, i, d) = S
    BY CarryingAppended
  <1>2. Len(s) \in Nat /\ S \in SUBSET (1 .. Len(s))
    BY GrowsTypes, CarryingAppended
  <1>3. \A k \in 1 .. Cardinality(S) : Nth(S, k) \in S
    BY <1>2, NthExists
  <1>4. \A q \in S : t[q] = s[q]
    BY CarryingAppended
  <1>5. \A k \in 1 .. Cardinality(S) : t[Nth(S, k)].part = s[Nth(S, k)].part
    BY <1>3, <1>4
  <1> QED
    BY <1>1, <1>5 DEF PartsFor

\* One that brings something adds it at the end.
LEMMA PartsAppended ==
    ASSUME NEW s, NEW e, NEW t, Grows(t, s, e), NEW i, NEW d,
           Adds(e, i, d), NEW c \in Seq(Parts \cup {None}), c = PartsFor(s, i, d)
    PROVE  PartsFor(t, i, d) = Append(c, e.part)
  <1> DEFINE S == Carrying(s, i, d)
             T == Carrying(t, i, d)
  <1>1. Len(s) \in Nat /\ t[Len(s) + 1] = e /\ S \in SUBSET (1 .. Len(s))
    BY GrowsTypes, CarryingAppended
  <1>2. Cardinality(S) \in Nat /\ \A k \in 1 .. Cardinality(S) : Nth(S, k) \in S
    BY <1>1, PositionsFinite, NthExists
  <1>3. \A q \in S : t[q] = s[q]
    BY CarryingAppended
  <1>4. /\ Len(c) = Cardinality(S)
        /\ \A k \in 1 .. Cardinality(S) : c[k] = s[Nth(S, k)].part
    <2>1. c = [k \in 1 .. Cardinality(S) |-> s[Nth(S, k)].part]
      BY DEF PartsFor
    <2>2. DOMAIN c = 1 .. Cardinality(S)
      BY <2>1
    <2>3. Len(c) = Cardinality(S)
      BY <1>2, <2>2
    <2> QED
      BY <2>1, <2>3
  <1>5. T = S \cup {Len(s) + 1}
    BY CarryingAppended
  <1>6. /\ Cardinality(T) = Cardinality(S) + 1
        /\ \A k \in 1 .. Cardinality(S) : Nth(T, k) = Nth(S, k)
        /\ Nth(T, Cardinality(S) + 1) = Len(s) + 1
    BY <1>1, <1>5, NthKept
  <1>7. PartsFor(t, i, d) = [k \in 1 .. Cardinality(T) |-> t[Nth(T, k)].part]
    BY DEF PartsFor
  <1> HIDE DEF S, T
  <1>8. /\ \A k \in 1 .. Cardinality(S) : t[Nth(T, k)].part = c[k]
        /\ t[Nth(T, Cardinality(S) + 1)].part = e.part
    BY <1>1, <1>2, <1>3, <1>4, <1>6
  <1>9. Append(c, e.part) = [k \in 1 .. Len(c) + 1 |->
                                IF k <= Len(c) THEN c[k] ELSE e.part]
    OBVIOUS
  <1>10. \A k \in 1 .. Cardinality(S) + 1 :
             t[Nth(T, k)].part = IF k <= Cardinality(S) THEN c[k] ELSE e.part
    <2> TAKE k \in 1 .. Cardinality(S) + 1
    <2>1. CASE k \in 1 .. Cardinality(S)
      BY <1>2, <1>8, <2>1
    <2>2. CASE k = Cardinality(S) + 1
      BY <1>2, <1>8, <2>2
    <2> QED
      BY <1>2, <2>1, <2>2
  <1> QED
    BY <1>4, <1>6, <1>7, <1>9, <1>10

-----------------------------------------------------------------------------
(* What one more event does to the reference definitions. *)

\* The last stop reason that is said is the one that counts.
LEMMA LastWordAppended ==
    ASSUME NEW s, NEW e, NEW t, Grows(t, s, e)
    PROVE  /\ e.type = "message_delta" /\ e.stop # "absent"
                  => (LastSaysString(t) <=> e.stop = "string")
           /\ ~(e.type = "message_delta" /\ e.stop # "absent")
                  => (LastSaysString(t) <=> LastSaysString(s))
  <1>1. /\ Len(s) \in Nat /\ t[Len(s) + 1] = e
        /\ Says(s) \subseteq 1 .. Len(s)
        /\ \A p \in Says(s) : t[p] = s[p]
    BY GrowsTypes, AtAppended DEF Says
  <1>2. CASE e.type = "message_delta" /\ e.stop # "absent"
    <2>1. At(t, "message_delta") = At(s, "message_delta") \cup {Len(s) + 1}
      BY <1>2, AtAppended
    <2>2. \A p \in At(s, "message_delta") : t[p] = s[p]
      BY AtAppended
    <2>3. \A p : p \in Says(t) <=> p \in Says(s) \/ p = Len(s) + 1
      BY <1>1, <1>2, <2>1, <2>2 DEF Says
    <2>4. \A p \in Says(s) : p < Len(s) + 1
      BY <1>1
    <2> QED
      BY <1>1, <1>2, <2>3, <2>4 DEF LastSaysString
  <1>3. CASE ~(e.type = "message_delta" /\ e.stop # "absent")
    <2>1. \A p : p \in Says(t) <=> p \in Says(s)
      <3>1. CASE e.type = "message_delta"
        <4>1. At(t, "message_delta") = At(s, "message_delta") \cup {Len(s) + 1}
          BY <3>1, AtAppended
        <4>2. /\ Len(s) + 1 \notin At(s, "message_delta")
              /\ \A p \in At(s, "message_delta") : t[p] = s[p]
          BY <1>1, AtAppended
        <4> QED
          BY <1>1, <1>3, <3>1, <4>1, <4>2 DEF Says
      <3>2. CASE e.type # "message_delta"
        <4>1. At(t, "message_delta") = At(s, "message_delta")
          BY <3>2, AtAppended
        <4>2. \A p \in At(s, "message_delta") : t[p] = s[p]
          BY AtAppended
        <4> QED
          BY <4>1, <4>2 DEF Says
      <3> QED
        BY <3>1, <3>2
    <2> QED
      BY <1>1, <1>3, <2>1 DEF LastSaysString
  <1> QED
    BY <1>2, <1>3

\* The rank of a block's start does not depend on what follows.
LEMMA StartsBefore ==
    ASSUME NEW s, NEW e, NEW t, Grows(t, s, e), NEW p \in 1 .. Len(s) + 1
    PROVE  StartedBefore(t, p) = StartedBefore(s, p)
  <1>1. Len(s) \in Nat
    BY GrowsTypes
  <1>a. \/ At(t, "content_block_start")
               = At(s, "content_block_start") \cup {Len(s) + 1}
        \/ At(t, "content_block_start") = At(s, "content_block_start")
    BY AtAppended
  <1>2. ~(Len(s) + 1 < p)
    BY <1>1
  <1>3. {q \in At(t, "content_block_start") : q < p}
            = {q \in At(s, "content_block_start") : q < p}
    BY <1>a, <1>2
  <1> QED
    BY <1>3 DEF StartedBefore

\* The input of a tool call changes with its own deltas only.
LEMMA InputKept ==
    ASSUME NEW s, NEW e, NEW t, Grows(t, s, e),
           NEW p \in At(s, "content_block_start"),
           ~(e.type = "content_block_delta" /\ e.index = s[p].index)
    PROVE  InputWhole(t, p) <=> InputWhole(s, p)
  <1>1. t[p] = s[p]
    BY AtAppended
  <1>2. PartsFor(t, s[p].index, "input_json_delta")
            = PartsFor(s, s[p].index, "input_json_delta")
    BY PartsKept DEF Adds
  <1>3. /\ DeltasOf(t, s[p].index) = DeltasOf(s, s[p].index)
        /\ \A q \in DeltasOf(s, s[p].index) : t[q] = s[q]
    BY DeltasAppended
  <1> QED
    BY <1>1, <1>2, <1>3 DEF InputWhole

\* What of a viable block does not depend on deltas and stops.
LEMMA BlockStartKept ==
    ASSUME NEW s, NEW e, NEW t, Grows(t, s, e),
           NEW p \in At(s, "content_block_start"), ViableBlock(s, p)
    PROVE  /\ p \in 1 .. Len(s) /\ Len(s) \in Nat /\ t[p] = s[p]
           /\ t[p].index = StartedBefore(t, p)
           /\ t[p].kind # None
  <1>1. p \in 1 .. Len(s) /\ Len(s) \in Nat /\ t[p] = s[p]
    BY GrowsTypes, AtAppended
  <1>2. p \in 1 .. Len(s) + 1
    BY <1>1
  <1>3. StartedBefore(t, p) = StartedBefore(s, p)
    BY <1>2, StartsBefore
  <1> QED
    BY <1>1, <1>3 DEF ViableBlock

\* A block does not care for events about other blocks.
LEMMA BlockUntouched ==
    ASSUME NEW s, NEW e, NEW t, Grows(t, s, e),
           NEW p \in At(s, "content_block_start"), ViableBlock(s, p),
           ~(/\ e.type \in {"content_block_delta", "content_block_stop"}
             /\ e.index = s[p].index)
    PROVE  ViableBlock(t, p)
  <1>1. /\ p \in 1 .. Len(s) /\ Len(s) \in Nat /\ t[p] = s[p]
        /\ t[p].index = StartedBefore(t, p)
        /\ t[p].kind # None
    BY BlockStartKept
  <1>2. StopsOf(t, s[p].index) = StopsOf(s, s[p].index)
    BY StopsAppended
  <1>3. /\ DeltasOf(t, s[p].index) = DeltasOf(s, s[p].index)
        /\ \A q \in DeltasOf(s, s[p].index) : t[q] = s[q]
    BY DeltasAppended
  <1>4. InputWhole(s, p) => InputWhole(t, p)
    BY InputKept
  <1> QED
    BY <1>1, <1>2, <1>3, <1>4 DEF ViableBlock

\* A delta needs its block open and fitting.
LEMMA BlockTakesDelta ==
    ASSUME NEW s, NEW e, NEW t, Grows(t, s, e),
           NEW p \in At(s, "content_block_start"), ViableBlock(s, p),
           e.type = "content_block_delta", e.index = s[p].index
    PROVE  ViableBlock(t, p) <=> /\ StopsOf(s, e.index) = {}
                                 /\ DeltaFits(Block(s[p]), e)
  <1> DEFINE i == s[p].index
  <1>1. /\ p \in 1 .. Len(s) /\ Len(s) \in Nat /\ t[p] = s[p]
        /\ t[p].index = StartedBefore(t, p)
        /\ t[p].kind # None
    BY BlockStartKept
  <1>2. StopsOf(t, i) = StopsOf(s, i) /\ StopsOf(s, i) \subseteq 1 .. Len(s)
    BY StopsAppended
  <1>3. /\ DeltasOf(t, i) = DeltasOf(s, i) \cup {Len(s) + 1}
        /\ \A q \in DeltasOf(s, i) : t[q] = s[q]
    BY DeltasAppended
  <1>e. t[Len(s) + 1] = e
    BY GrowsTypes
  <1>4. \A q \in StopsOf(s, i) : ~(Len(s) + 1 < q)
    BY <1>1, <1>2
  <1>5. ASSUME ViableBlock(t, p)
        PROVE  StopsOf(s, i) = {} /\ DeltaFits(Block(s[p]), e)
    BY <1>1, <1>2, <1>3, <1>e, <1>4, <1>5 DEF ViableBlock
  <1>6. ASSUME StopsOf(s, i) = {}, DeltaFits(Block(s[p]), e)
        PROVE  ViableBlock(t, p)
    <2>1. StopsOf(t, i) = {}
      BY <1>2, <1>6
    <2>2. Cardinality(StopsOf(t, i)) <= 1
      BY <2>1, FS_EmptySet
    <2>3. \A q \in DeltasOf(t, i) : q > p /\ DeltaFits(Block(t[p]), t[q])
      <3>1. \A q \in DeltasOf(s, i) : q > p /\ DeltaFits(Block(s[p]), s[q])
        BY DEF ViableBlock
      <3> QED
        BY <1>1, <1>3, <1>e, <1>6, <3>1
    <2> QED
      BY <1>1, <2>1, <2>2, <2>3 DEF ViableBlock
  <1> QED
    BY <1>5, <1>6

\* A stop needs its block open and its tool input whole.
LEMMA BlockTakesStop ==
    ASSUME NEW s, NEW e, NEW t, Grows(t, s, e),
           NEW p \in At(s, "content_block_start"), ViableBlock(s, p),
           e.type = "content_block_stop", e.index = s[p].index
    PROVE  ViableBlock(t, p) <=> StopsOf(s, e.index) = {} /\ InputWhole(s, p)
  <1> DEFINE i == s[p].index
  <1>1. /\ p \in 1 .. Len(s) /\ Len(s) \in Nat /\ t[p] = s[p]
        /\ t[p].index = StartedBefore(t, p)
        /\ t[p].kind # None
    BY BlockStartKept
  <1>2. /\ StopsOf(t, i) = StopsOf(s, i) \cup {Len(s) + 1}
        /\ StopsOf(s, i) \in SUBSET (1 .. Len(s))
    BY StopsAppended
  <1>3. /\ DeltasOf(t, i) = DeltasOf(s, i)
        /\ DeltasOf(s, i) \subseteq 1 .. Len(s)
        /\ \A q \in DeltasOf(s, i) : t[q] = s[q]
    BY DeltasAppended
  <1>4. InputWhole(t, p) <=> InputWhole(s, p)
    BY InputKept
  <1>5. /\ Cardinality(StopsOf(t, i)) = Cardinality(StopsOf(s, i)) + 1
        /\ Cardinality(StopsOf(s, i)) \in Nat
        /\ Cardinality(StopsOf(s, i)) = 0 <=> StopsOf(s, i) = {}
    <2>1. PICK S : S = StopsOf(s, i)
      OBVIOUS
    <2>a. S \in SUBSET (1 .. Len(s)) /\ Len(s) \in Nat
      BY <1>1, <1>2, <2>1
    <2>2. /\ Cardinality(S \cup {Len(s) + 1}) = Cardinality(S) + 1
          /\ Cardinality(S) \in Nat
          /\ Cardinality(S) = 0 <=> S = {}
      BY <2>a, PositionsFinite
    <2> QED
      BY <1>2, <2>1, <2>2
  <1>6. ASSUME ViableBlock(t, p)
        PROVE  StopsOf(s, i) = {} /\ InputWhole(s, p)
    <2>1. Cardinality(StopsOf(t, i)) <= 1 /\ InputWhole(t, p)
      BY <1>1, <1>2, <1>6 DEF ViableBlock
    <2> QED
      BY <1>4, <1>5, <2>1
  <1>7. ASSUME StopsOf(s, i) = {}, InputWhole(s, p)
        PROVE  ViableBlock(t, p)
    <2>1. StopsOf(t, i) = {Len(s) + 1} /\ Cardinality(StopsOf(t, i)) <= 1
      BY <1>2, <1>5, <1>7
    <2>2. \A q \in DeltasOf(t, i) : q > p /\ DeltaFits(Block(t[p]), t[q])
      <3>1. \A q \in DeltasOf(s, i) : q > p /\ DeltaFits(Block(s[p]), s[q])
        BY DEF ViableBlock
      <3> QED
        BY <1>1, <1>3, <3>1
    <2>3. \A q \in DeltasOf(t, i) : q < Len(s) + 1
      BY <1>1, <1>3
    <2>4. Len(s) + 1 > p
      BY <1>1
    <2> QED
      BY <1>1, <1>4, <1>7, <2>1, <2>2, <2>3, <2>4 DEF ViableBlock
  <1> QED
    BY <1>6, <1>7

\* A new block takes the next number; nothing may have named it before.
LEMMA BlockStarts ==
    ASSUME NEW s, NEW e, NEW t, Grows(t, s, e),
           e.type = "content_block_start"
    PROVE  /\ ViableBlock(t, Len(s) + 1) =>
                  /\ e.index = Cardinality(At(s, "content_block_start"))
                  /\ e.kind # None
           /\ /\ e.index = Cardinality(At(s, "content_block_start"))
              /\ e.kind # None
              /\ StopsOf(s, e.index) = {} /\ DeltasOf(s, e.index) = {}
              => ViableBlock(t, Len(s) + 1)
  <1> DEFINE x == Len(s) + 1
  <1>1. Len(s) \in Nat /\ t[x] = e
    BY GrowsTypes
  <1>2. StartedBefore(t, x) = Cardinality(At(s, "content_block_start"))
    <2>1. StartedBefore(t, x) = StartedBefore(s, x)
      BY <1>1, StartsBefore
    <2>2. At(s, "content_block_start") \subseteq 1 .. Len(s)
      BY AtAppended
    <2>3. \A q \in At(s, "content_block_start") : q < x
      BY <1>1, <2>2
    <2>4. {q \in At(s, "content_block_start") : q < x}
              = At(s, "content_block_start")
      BY <2>3
    <2> QED
      BY <2>1, <2>4 DEF StartedBefore
  <1>3. /\ StopsOf(t, e.index) = StopsOf(s, e.index)
        /\ DeltasOf(t, e.index) = DeltasOf(s, e.index)
    BY StopsAppended, DeltasAppended
  <1>4. Cardinality({}) <= 1
    BY FS_EmptySet
  <1> QED
    BY <1>1, <1>2, <1>3, <1>4 DEF ViableBlock

\* One message_start, before everything but pings.
LEMMA StartsOnceAppended ==
    ASSUME NEW s, NEW e, NEW t, Grows(t, s, e), StartsOnce(s)
    PROVE  /\ e.type = "message_start" =>
                  (StartsOnce(t) <=> At(s, "message_start") = {} /\ e.valid)
           /\ e.type \in {"ping", "other"} => StartsOnce(t)
           /\ e.type \notin {"message_start", "ping", "other"} =>
                  (StartsOnce(t) <=> At(s, "message_start") # {})
  <1> DEFINE S == At(s, "message_start")
             T == At(t, "message_start")
  <1>1. /\ Len(s) \in Nat /\ t[Len(s) + 1] = e
        /\ DOMAIN s = 1 .. Len(s) /\ DOMAIN t = 1 .. Len(s) + 1
        /\ \A q \in DOMAIN s : t[q] = s[q]
    BY GrowsTypes
  <1>2. S \in SUBSET (1 .. Len(s)) /\ \A q \in S : t[q] = s[q]
    BY AtAppended
  <1>3. /\ Cardinality(S) <= 1
        /\ \A p \in S : s[p].valid
        /\ \A q \in DOMAIN s : \/ s[q].type \in {"ping", "other"}
                               \/ \E p \in S : p <= q
    BY DEF StartsOnce
  <1>4. CASE e.type = "message_start"
    <2>1. T = S \cup {Len(s) + 1}
      BY <1>4, AtAppended
    <2>2. /\ Cardinality(T) = Cardinality(S) + 1 /\ Cardinality(S) \in Nat
          /\ Cardinality(S) = 0 <=> S = {}
      <3> HIDE DEF S, T
      <3> QED
        BY <1>1, <1>2, <2>1, PositionsFinite
    <2>3. ASSUME S = {}, e.valid
          PROVE  StartsOnce(t)
      <3>1. T = {Len(s) + 1} /\ Cardinality(T) <= 1
        BY <2>1, <2>2, <2>3
      <3>2. \A q \in DOMAIN s : s[q].type \in {"ping", "other"}
        BY <1>3, <2>3
      <3>3. \A q \in DOMAIN t : \/ t[q].type \in {"ping", "other"}
                                \/ \E p \in T : p <= q
        BY <1>1, <3>1, <3>2
      <3> QED
        BY <1>1, <2>3, <3>1, <3>3 DEF StartsOnce
    <2>4. ASSUME StartsOnce(t)
          PROVE  S = {} /\ e.valid
      <3>1. Cardinality(T) <= 1 /\ \A p \in T : t[p].valid
        BY <2>4 DEF StartsOnce
      <3> QED
        BY <1>1, <2>1, <2>2, <3>1
    <2> QED
      BY <1>4, <2>3, <2>4
  <1>5. CASE e.type \in {"ping", "other"}
    <2>1. T = S
      BY <1>5, AtAppended
    <2>2. \A q \in DOMAIN t : \/ t[q].type \in {"ping", "other"}
                              \/ \E p \in T : p <= q
      <3> TAKE q \in DOMAIN t
      <3>1. CASE q = Len(s) + 1
        BY <1>1, <1>5, <3>1
      <3>2. CASE q \in DOMAIN s
        BY <1>1, <1>3, <2>1, <3>2
      <3> QED
        BY <1>1, <3>1, <3>2
    <2>3. StartsOnce(t)
      BY <1>2, <1>3, <2>1, <2>2 DEF StartsOnce
    <2> QED
      BY <1>5, <2>3
  <1>6. CASE e.type \notin {"message_start", "ping", "other"}
    <2>1. T = S
      BY <1>6, AtAppended
    <2>2. ASSUME S # {}
          PROVE  StartsOnce(t)
      <3>1. \A q \in DOMAIN t : \/ t[q].type \in {"ping", "other"}
                                \/ \E p \in T : p <= q
        <4> TAKE q \in DOMAIN t
        <4>1. CASE q = Len(s) + 1
          BY <1>1, <1>2, <2>1, <2>2, <4>1
        <4>2. CASE q \in DOMAIN s
          BY <1>1, <1>3, <2>1, <4>2
        <4> QED
          BY <1>1, <4>1, <4>2
      <3> QED
        BY <1>2, <1>3, <2>1, <3>1 DEF StartsOnce
    <2>3. ASSUME StartsOnce(t)
          PROVE  S # {}
      <3>1. Len(s) + 1 \in DOMAIN t
        BY <1>1
      <3>2. \E p \in T : p <= Len(s) + 1
        BY <1>1, <1>6, <2>3, <3>1 DEF StartsOnce
      <3> QED
        BY <2>1, <3>2
    <2> QED
      BY <1>6, <2>2, <2>3
  <1> QED
    BY <1>4, <1>5, <1>6

\* A delta or a stop names a block that was started.
LEMMA NamesBlocksAppended ==
    ASSUME NEW s, NEW e, NEW t, Grows(t, s, e), NamesBlocks(s)
    PROVE  /\ e.type \in {"content_block_delta", "content_block_stop"} =>
                  (NamesBlocks(t) <=> \E p \in At(s, "content_block_start") :
                                          s[p].index = e.index)
           /\ e.type \notin {"content_block_delta", "content_block_stop"} =>
                  NamesBlocks(t)
  <1> DEFINE S == At(s, "content_block_start")
             T == At(t, "content_block_start")
             D == At(s, "content_block_delta") \cup At(s, "content_block_stop")
             E == At(t, "content_block_delta") \cup At(t, "content_block_stop")
  <1>1. t[Len(s) + 1] = e
    BY GrowsTypes
  <1>2. \A q \in S : t[q] = s[q]
    BY AtAppended
  <1>3. \A q \in D : t[q] = s[q]
    BY AtAppended
  <1>4. \A q \in D : \E p \in S : s[p].index = s[q].index
    BY DEF NamesBlocks
  <1>5. CASE e.type \in {"content_block_delta", "content_block_stop"}
    <2>1. T = S
      BY <1>5, AtAppended
    <2>2. E = D \cup {Len(s) + 1}
      <3>1. CASE e.type = "content_block_delta"
        <4>1. At(t, "content_block_delta")
                  = At(s, "content_block_delta") \cup {Len(s) + 1}
          BY <3>1, AtAppended
        <4>2. At(t, "content_block_stop") = At(s, "content_block_stop")
          BY <3>1, AtAppended
        <4> QED
          BY <4>1, <4>2
      <3>2. CASE e.type = "content_block_stop"
        <4>1. At(t, "content_block_delta") = At(s, "content_block_delta")
          BY <3>2, AtAppended
        <4>2. At(t, "content_block_stop")
                  = At(s, "content_block_stop") \cup {Len(s) + 1}
          BY <3>2, AtAppended
        <4> QED
          BY <4>1, <4>2
      <3> QED
        BY <1>5, <3>1, <3>2
    <2> HIDE DEF S, T, D, E
    <2>3. (\A q \in E : \E p \in T : t[p].index = t[q].index)
              <=> \E p \in S : s[p].index = e.index
      BY <1>1, <1>2, <1>3, <1>4, <2>1, <2>2
    <2> QED
      BY <1>5, <2>3 DEF NamesBlocks, S, T, E
  <1>6. CASE e.type \notin {"content_block_delta", "content_block_stop"}
    <2>1. S \subseteq T
      BY AtAppended
    <2>2. E = D
      BY <1>6, AtAppended
    <2> HIDE DEF S, T, D, E
    <2>3. \A q \in E : \E p \in T : t[p].index = t[q].index
      BY <1>2, <1>3, <1>4, <2>1, <2>2
    <2> QED
      BY <1>6, <2>3 DEF NamesBlocks, S, T, E
  <1> QED
    BY <1>5, <1>6

\* Nothing follows message_stop; before it the parts are judged one by one.
LEMMA ViableAppended ==
    ASSUME NEW s, NEW e, NEW t, Grows(t, s, e), Viable(s)
    PROVE  /\ At(s, "message_stop") # {} => ~Viable(t)
           /\ At(s, "message_stop") = {} =>
                  (Viable(t) <=>
                       /\ StartsOnce(t)
                       /\ \A p \in At(t, "content_block_start") :
                              ViableBlock(t, p)
                       /\ NamesBlocks(t)
                       /\ e.type # "error"
                       /\ e.type = "message_stop" => Ended(t))
  <1>1. Len(s) \in Nat /\ Len(t) = Len(s) + 1
    BY GrowsTypes
  <1>2. ASSUME At(s, "message_stop") # {}
        PROVE  ~Viable(t)
    <2>1. PICK p \in At(s, "message_stop") : p = Len(s)
      BY <1>2 DEF Viable
    <2>2. p \in At(t, "message_stop")
      BY AtAppended
    <2> QED
      BY <1>1, <2>1, <2>2 DEF Viable
  <1>3. At(s, "error") = {}
    BY DEF Viable
  <1>4. At(t, "error") = {} <=> e.type # "error"
    <2>1. CASE e.type = "error"
      <3>1. At(t, "error") = At(s, "error") \cup {Len(s) + 1}
        BY <2>1, AtAppended
      <3> QED
        BY <2>1, <3>1
    <2>2. CASE e.type # "error"
      <3>1. At(t, "error") = At(s, "error")
        BY <2>2, AtAppended
      <3> QED
        BY <1>3, <2>2, <3>1
    <2> QED
      BY <2>1, <2>2
  <1>5. ASSUME At(s, "message_stop") = {}
        PROVE  (\A p \in At(t, "message_stop") : p = Len(t) /\ Ended(t))
                   <=> (e.type = "message_stop" => Ended(t))
    <2>1. CASE e.type = "message_stop"
      <3>1. At(t, "message_stop") = {Len(t)}
        <4>1. At(t, "message_stop") = At(s, "message_stop") \cup {Len(s) + 1}
          BY <2>1, AtAppended
        <4> QED
          BY <1>1, <1>5, <4>1
      <3> QED
        BY <2>1, <3>1
    <2>2. CASE e.type # "message_stop"
      <3>1. At(t, "message_stop") = At(s, "message_stop")
        BY <2>2, AtAppended
      <3> QED
        BY <1>5, <2>2, <3>1
    <2> QED
      BY <2>1, <2>2
  <1> QED
    BY <1>2, <1>4, <1>5 DEF Viable

-----------------------------------------------------------------------------
(* An accumulator that follows the events. *)

\* The tool JSON of a block is empty when no delta brings any of it.
LEMMA NothingBrought ==
    ASSUME NEW s \in Seq(AllEvents), NEW i
    PROVE  PartsFor(s, i, "input_json_delta") = <<>>
               <=> \A q \in DeltasOf(s, i) :
                       s[q].delta = "input_json_delta" => s[q].part = Empty
  <1>1. PICK S : S = Carrying(s, i, "input_json_delta")
    OBVIOUS
  <1>2. S \in SUBSET (1 .. Len(s)) /\ Len(s) \in Nat
    BY <1>1 DEF Carrying, DeltasOf, At
  <1>3. Cardinality(S) \in Nat /\ (Cardinality(S) = 0 <=> S = {})
    BY <1>2, PositionsFinite
  <1>4. PartsFor(s, i, "input_json_delta")
            = [n \in 1 .. Cardinality(S) |-> s[Nth(S, n)].part]
    BY <1>1 DEF PartsFor
  <1>5. PartsFor(s, i, "input_json_delta") = <<>> <=> Cardinality(S) = 0
    <2>1. DOMAIN PartsFor(s, i, "input_json_delta") = 1 .. Cardinality(S)
      BY <1>4
    <2>2. DOMAIN <<>> = {}
      OBVIOUS
    <2>3. 1 .. Cardinality(S) = {} <=> Cardinality(S) = 0
      BY <1>3
    <2>4. Cardinality(S) = 0 => PartsFor(s, i, "input_json_delta") = <<>>
      BY <1>4, <2>3
    <2> QED
      BY <2>1, <2>2, <2>3, <2>4
  <1>6. S = {} <=> \A q \in DeltasOf(s, i) :
                       s[q].delta = "input_json_delta" => s[q].part = Empty
    BY <1>1 DEF Carrying
  <1> QED
    BY <1>3, <1>5, <1>6

\* What block number i of the accumulator and its start have in common.
LEMMA FollowedBlock ==
    ASSUME NEW a, NEW s, Follows(a, s),
           NEW p \in At(s, "content_block_start"), NEW i, i = s[p].index
    PROVE  /\ i \in Int /\ i + 1 \in DOMAIN a.blocks
           /\ IsOpen(a, i) <=> StopsOf(s, i) = {}
           /\ \A e : DeltaFits(a.blocks[i + 1], e) <=> DeltaFits(Block(s[p]), e)
           /\ ToolInputReady(a.blocks[i + 1]) <=> InputWhole(s, p)
  <1> DEFINE json == PartsFor(s, i, "input_json_delta")
  <1>1. i \in Int
    <2>1. s[p] \in AllEvents /\ s[p].type = "content_block_start"
      BY DEF Follows, At
    <2> QED
      BY <2>1, EventsAssumption DEF AllEvents, Indices, EventsAssumption
  <1>2. /\ i + 1 \in DOMAIN a.blocks
        /\ a.blocks[i + 1].kind = s[p].kind
        /\ a.blocks[i + 1].sound = s[p].sound
    BY DEF Follows, BlocksFollow, StartFollowed
  <1>3. /\ a.blocks[i + 1].closed <=> StopsOf(s, i) # {}
        /\ a.blocks[i + 1].content["input_json_delta"]
               = json
    <2>1. BlockFollows(a, s, i + 1)
      BY <1>2 DEF Follows, BlocksFollow
    <2>2. (i + 1) - 1 = i
      BY <1>1
    <2> QED
      BY <2>1, <2>2 DEF BlockFollows, DeltaTypes, DeltaTarget
  <1>4. \A e : DeltaFits(a.blocks[i + 1], e) <=> DeltaFits(Block(s[p]), e)
    BY <1>2 DEF DeltaFits, Block
  <1>5. ToolInputReady(a.blocks[i + 1]) <=> InputWhole(s, p)
    <2>1. s \in Seq(AllEvents)
      BY DEF Follows
    <2>2. json = <<>> <=> \A q \in DeltasOf(s, i) :
                              s[q].delta = "input_json_delta"
                                  => s[q].part = Empty
      BY <2>1, NothingBrought
    <2>3. <<>> \notin ObjectTexts
      BY EventsAssumption DEF EventsAssumption
    <2> HIDE DEF json
    <2>4. json = <<>> => (ToolInputReady(a.blocks[i + 1]) <=> InputWhole(s, p))
      BY <1>2, <1>3, <2>2, <2>3 DEF ToolInputReady, InputWhole, json
    <2>5. json # <<>> => (ToolInputReady(a.blocks[i + 1]) <=> InputWhole(s, p))
      BY <1>2, <1>3, <2>2 DEF ToolInputReady, InputWhole, json
    <2> QED
      BY <2>4, <2>5
  <1> QED
    BY <1>1, <1>2, <1>3, <1>4, <1>5 DEF IsOpen

\* The accumulator has just the blocks that were started.
LEMMA StartedBlocks ==
    ASSUME NEW a, NEW s, Follows(a, s), NEW i \in Int
    PROVE  /\ i + 1 \in DOMAIN a.blocks
                  <=> \E p \in At(s, "content_block_start") : s[p].index = i
           /\ i + 1 \notin DOMAIN a.blocks
                  => StopsOf(s, i) = {} /\ DeltasOf(s, i) = {}
  <1>1. ASSUME i + 1 \in DOMAIN a.blocks
        PROVE  \E p \in At(s, "content_block_start") : s[p].index = i
    <2>1. BlockFollows(a, s, i + 1) /\ (i + 1) - 1 = i
      BY <1>1 DEF Follows, BlocksFollow
    <2> QED
      BY <2>1 DEF BlockFollows
  <1>2. ASSUME NEW p \in At(s, "content_block_start"), s[p].index = i
        PROVE  i + 1 \in DOMAIN a.blocks
    BY <1>2 DEF Follows, BlocksFollow, StartFollowed
  <1>3. NamesBlocks(s)
    BY DEF Follows, Viable
  <1> QED
    BY <1>1, <1>2, <1>3 DEF NamesBlocks, StopsOf, DeltasOf

\* A block starts after the message.
LEMMA StartedFirst ==
    ASSUME NEW s, s \in Seq(AllEvents), StartsOnce(s),
           At(s, "content_block_start") # {}
    PROVE  At(s, "message_start") # {}
  BY DEF StartsOnce, At

\* All blocks are closed when there are as many stops as blocks.
LEMMA AllClosed ==
    ASSUME NEW a, NEW s, Follows(a, s)
    PROVE  (\A i \in DOMAIN a.blocks : a.blocks[i].closed)
               <=> Cardinality(At(s, "content_block_stop"))
                       = Cardinality(At(s, "content_block_start"))
  <1>1. Len(a.blocks) \in Nat /\ DOMAIN a.blocks = 1 .. Len(a.blocks)
    BY DEF Follows, Accumulators
  <1>2. /\ IsFiniteSet(DOMAIN a.blocks)
        /\ Cardinality(DOMAIN a.blocks) = Len(a.blocks)
    BY <1>1, FS_Interval
  <1>3. Closed(a) \in SUBSET DOMAIN a.blocks
    BY DEF Closed
  <1>4. Cardinality(Closed(a)) = Len(a.blocks) <=> Closed(a) = DOMAIN a.blocks
    BY <1>2, <1>3, FS_Subset
  <1>5. Closed(a) = DOMAIN a.blocks
            <=> \A i \in DOMAIN a.blocks : a.blocks[i].closed
    BY DEF Closed
  <1> QED
    BY <1>4, <1>5 DEF Follows, BlocksFollow

-----------------------------------------------------------------------------
(* The accumulator accepts exactly what keeps the list viable. *)

\* The blocks started so far, when the new event is not about them.
LEMMA OthersUntouched ==
    ASSUME NEW s, NEW e, NEW t, Grows(t, s, e), Viable(s)
    PROVE  \A p \in At(s, "content_block_start") :
               ~(/\ e.type \in {"content_block_delta", "content_block_stop"}
                 /\ e.index = s[p].index)
               => ViableBlock(t, p)
  BY BlockUntouched DEF Viable

\* push on content_block_start.
LEMMA JudgesStart ==
    ASSUME NEW a, NEW s, NEW e, NEW t, Grows(t, s, e), Follows(a, s),
           e.type = "content_block_start"
    PROVE  Accepts(a, e) <=> Viable(t)
  <1>1. /\ Viable(s) /\ StartsOnce(s) /\ NamesBlocks(s)
        /\ a.started <=> At(s, "message_start") # {}
        /\ a.done <=> At(s, "message_stop") # {}
        /\ Cardinality(At(s, "content_block_start")) = Len(a.blocks)
    BY DEF Follows, Viable, BlocksFollow
  <1>2. StartsOnce(t) <=> a.started
    BY <1>1, StartsOnceAppended
  <1>3. NamesBlocks(t)
    BY <1>1, NamesBlocksAppended
  <1>4. At(t, "content_block_start")
            = At(s, "content_block_start") \cup {Len(s) + 1}
    BY AtAppended
  <1>5. \A p \in At(s, "content_block_start") : ViableBlock(t, p)
    BY <1>1, OthersUntouched
  <1>6. ViableBlock(t, Len(s) + 1) <=> e.index = Len(a.blocks) /\ e.kind # None
    <2>1. ASSUME e.index = Len(a.blocks)
          PROVE  StopsOf(s, e.index) = {} /\ DeltasOf(s, e.index) = {}
      <3>1. /\ Len(a.blocks) \in Int
            /\ Len(a.blocks) + 1 \notin DOMAIN a.blocks
        BY DEF Follows, Accumulators
      <3> QED
        BY <2>1, <3>1, StartedBlocks
    <2> QED
      BY <1>1, <2>1, BlockStarts
  <1>7. Accepts(a, e) <=> /\ ~a.done /\ a.started
                          /\ e.index = Len(a.blocks) /\ e.kind # None
    BY DEF Accepts
  <1>8. ~a.done => (Viable(t) <=> a.started /\ ViableBlock(t, Len(s) + 1))
    BY <1>1, <1>2, <1>3, <1>4, <1>5, ViableAppended
  <1>9. a.done => ~Viable(t)
    BY <1>1, ViableAppended
  <1> QED
    BY <1>6, <1>7, <1>8, <1>9

\* Of the blocks only the one a delta or a stop names matters.
LEMMA JudgesNamed ==
    ASSUME NEW a, NEW s, NEW e, NEW t, Grows(t, s, e), Follows(a, s), ~a.done,
           e.type \in {"content_block_delta", "content_block_stop"}
    PROVE  Viable(t) <=>
               /\ \E p \in At(s, "content_block_start") : s[p].index = e.index
               /\ \A p \in At(s, "content_block_start") :
                      s[p].index = e.index => ViableBlock(t, p)
  <1>1. /\ Viable(s) /\ StartsOnce(s) /\ NamesBlocks(s)
        /\ s \in Seq(AllEvents) /\ At(s, "message_stop") = {}
    BY DEF Follows, Viable
  <1>2. StartsOnce(t) <=> At(s, "message_start") # {}
    BY <1>1, StartsOnceAppended
  <1>3. NamesBlocks(t)
            <=> \E p \in At(s, "content_block_start") : s[p].index = e.index
    BY <1>1, NamesBlocksAppended
  <1>4. At(t, "content_block_start") = At(s, "content_block_start")
    BY AtAppended
  <1>5. At(s, "content_block_start") # {} => At(s, "message_start") # {}
    BY <1>1, StartedFirst
  <1>6. \A p \in At(s, "content_block_start") :
            s[p].index # e.index => ViableBlock(t, p)
    BY <1>1, OthersUntouched
  <1>7. Viable(t) <=> /\ StartsOnce(t) /\ NamesBlocks(t)
                      /\ \A p \in At(s, "content_block_start") :
                             ViableBlock(t, p)
    BY <1>1, <1>4, ViableAppended
  <1> QED
    BY <1>2, <1>3, <1>5, <1>6, <1>7

\* push on content_block_delta.
LEMMA JudgesDelta ==
    ASSUME NEW a, NEW s, NEW e, NEW t, Grows(t, s, e), Follows(a, s), ~a.done,
           e.type = "content_block_delta"
    PROVE  Accepts(a, e) <=> Viable(t)
  <1> DEFINE i == e.index
             starts == {p \in At(s, "content_block_start") : s[p].index = i}
  <1>1. i \in Int
    <2>1. e \in AllEvents
      BY GrowsTypes
    <2> QED
      BY <2>1, EventsAssumption DEF AllEvents, Indices, EventsAssumption
  <1>2. Accepts(a, e) <=> IsOpen(a, i) /\ DeltaFits(a.blocks[i + 1], e)
    BY DEF Accepts
  <1>3. IsOpen(a, i) => starts # {}
    BY <1>1, StartedBlocks DEF IsOpen
  <1>4. ASSUME NEW p \in starts
        PROVE  ViableBlock(t, p)
                   <=> IsOpen(a, i) /\ DeltaFits(a.blocks[i + 1], e)
    <2>1. p \in At(s, "content_block_start") /\ i = s[p].index
      OBVIOUS
    <2>2. ViableBlock(s, p)
      BY <2>1 DEF Follows, Viable
    <2>3. /\ IsOpen(a, i) <=> StopsOf(s, i) = {}
          /\ DeltaFits(a.blocks[i + 1], e) <=> DeltaFits(Block(s[p]), e)
      BY <2>1, FollowedBlock
    <2>4. ViableBlock(t, p) <=> /\ StopsOf(s, e.index) = {}
                                /\ DeltaFits(Block(s[p]), e)
      BY <2>1, <2>2, BlockTakesDelta
    <2> QED
      BY <2>3, <2>4
  <1>5. Viable(t) <=> starts # {} /\ \A p \in starts : ViableBlock(t, p)
    BY JudgesNamed
  <1> QED
    BY <1>2, <1>3, <1>4, <1>5

\* push on content_block_stop.
LEMMA JudgesStop ==
    ASSUME NEW a, NEW s, NEW e, NEW t, Grows(t, s, e), Follows(a, s), ~a.done,
           e.type = "content_block_stop"
    PROVE  Accepts(a, e) <=> Viable(t)
  <1> DEFINE i == e.index
             starts == {p \in At(s, "content_block_start") : s[p].index = i}
  <1>1. i \in Int
    <2>1. e \in AllEvents
      BY GrowsTypes
    <2> QED
      BY <2>1, EventsAssumption DEF AllEvents, Indices, EventsAssumption
  <1>2. Accepts(a, e) <=> IsOpen(a, i) /\ ToolInputReady(a.blocks[i + 1])
    BY DEF Accepts
  <1>3. IsOpen(a, i) => starts # {}
    BY <1>1, StartedBlocks DEF IsOpen
  <1>4. ASSUME NEW p \in starts
        PROVE  ViableBlock(t, p)
                   <=> IsOpen(a, i) /\ ToolInputReady(a.blocks[i + 1])
    <2>1. p \in At(s, "content_block_start") /\ i = s[p].index
      OBVIOUS
    <2>2. ViableBlock(s, p)
      BY <2>1 DEF Follows, Viable
    <2>3. /\ IsOpen(a, i) <=> StopsOf(s, i) = {}
          /\ ToolInputReady(a.blocks[i + 1]) <=> InputWhole(s, p)
      BY <2>1, FollowedBlock
    <2>4. ViableBlock(t, p) <=> StopsOf(s, e.index) = {} /\ InputWhole(s, p)
      BY <2>1, <2>2, BlockTakesStop
    <2> QED
      BY <2>3, <2>4
  <1>5. Viable(t) <=> starts # {} /\ \A p \in starts : ViableBlock(t, p)
    BY JudgesNamed
  <1> QED
    BY <1>2, <1>3, <1>4, <1>5

\* The events that are about no block.
LEMMA JudgesRest ==
    ASSUME NEW a, NEW s, NEW e, NEW t, Grows(t, s, e), Follows(a, s), ~a.done,
           e.type \notin {"content_block_start", "content_block_delta",
                          "content_block_stop"}
    PROVE  Accepts(a, e) <=> Viable(t)
  <1>1. /\ Viable(s) /\ StartsOnce(s) /\ NamesBlocks(s)
        /\ a.started <=> At(s, "message_start") # {}
        /\ At(s, "message_stop") = {}
        /\ a.stopReason <=> LastSaysString(s)
    BY DEF Follows, Viable
  <1>2. NamesBlocks(t)
    BY <1>1, NamesBlocksAppended
  <1>3. \A p \in At(t, "content_block_start") : ViableBlock(t, p)
    <2>1. At(t, "content_block_start") = At(s, "content_block_start")
      BY AtAppended
    <2> QED
      BY <1>1, <2>1, OthersUntouched
  <1>4. Viable(t) <=> /\ StartsOnce(t) /\ e.type # "error"
                      /\ e.type = "message_stop" => Ended(t)
    BY <1>1, <1>2, <1>3, ViableAppended
  <1>5. CASE e.type = "message_start"
    BY <1>1, <1>4, <1>5, StartsOnceAppended DEF Accepts
  <1>6. CASE e.type = "message_delta"
    BY <1>1, <1>4, <1>6, StartsOnceAppended DEF Accepts
  <1>7. CASE e.type = "message_stop"
    <2>1. /\ At(t, "content_block_stop") = At(s, "content_block_stop")
          /\ At(t, "content_block_start") = At(s, "content_block_start")
      BY <1>7, AtAppended
    <2>2. LastSaysString(t) <=> LastSaysString(s)
      BY <1>7, LastWordAppended
    <2>3. Ended(t) <=> /\ \A i \in DOMAIN a.blocks : a.blocks[i].closed
                       /\ a.stopReason
      BY <1>1, <2>1, <2>2, AllClosed DEF Ended
    <2>4. StartsOnce(t) <=> a.started
      BY <1>1, <1>7, StartsOnceAppended
    <2>5. Accepts(a, e) <=> /\ a.started /\ a.stopReason
                            /\ \A i \in DOMAIN a.blocks : a.blocks[i].closed
      BY <1>7 DEF Accepts
    <2> QED
      BY <1>4, <1>7, <2>3, <2>4, <2>5
  <1>8. CASE e.type \in {"ping", "other"}
    BY <1>1, <1>4, <1>8, StartsOnceAppended DEF Accepts
  <1>9. CASE e.type = "error"
    BY <1>4, <1>9 DEF Accepts
  <1> QED
    <2>1. e \in AllEvents
      BY GrowsTypes
    <2>2. e.type \in {"message_start", "message_delta", "message_stop", "ping",
                      "other", "error"}
      BY <2>1 DEF AllEvents
    <2> QED
      BY <2>2, <1>5, <1>6, <1>7, <1>8, <1>9

(***************************************************************************)
(* push is exact: what follows the events accepts one more just when the   *)
(* list stays viable.                                                      *)
(***************************************************************************)
LEMMA AcceptsExactly ==
    ASSUME NEW a, NEW s, NEW e, NEW t, Grows(t, s, e), Follows(a, s)
    PROVE  Accepts(a, e) <=> Viable(t)
  <1>1. CASE a.done
    <2>1. Viable(s) /\ At(s, "message_stop") # {}
      BY <1>1 DEF Follows
    <2>2. ~Viable(t)
      BY <2>1, ViableAppended
    <2>3. ~Accepts(a, e)
      BY <1>1 DEF Accepts
    <2> QED
      BY <2>2, <2>3
  <1>2. CASE ~a.done
    BY <1>2, JudgesStart, JudgesDelta, JudgesStop, JudgesRest
  <1> QED
    BY <1>1, <1>2

-----------------------------------------------------------------------------
(* What push leaves behind follows the longer list. *)

\* What the caller sees of an event has the type of an event.
LEMMA TranslateTypes ==
    ASSUME NEW e \in AllEvents, Translatable(e)
    PROVE  Translate(e) \in AllEvents
  BY DEF Translatable, Translate, AllEvents, ToolNames, Range, BlockKinds

\* An accumulator that accepts an event is one afterwards.
LEMMA AfterTypes ==
    ASSUME NEW a \in Accumulators, NEW e \in AllEvents, Accepts(a, e)
    PROVE  After(a, e) \in Accumulators
  <1> DEFINE Content == [DeltaTypes -> Seq(Parts \cup {None})]
             Blocks == [kind : BlockKinds, sound : BOOLEAN, closed : BOOLEAN,
                        content : Content]
  <1>0. a.blocks \in Seq(Blocks)
    BY DEF Accumulators
  <1>b. ASSUME NEW b \in Seq(Blocks)
        PROVE  [a EXCEPT !.blocks = b] \in Accumulators
    BY DEF Accumulators
  <1> HIDE DEF Blocks
  <1>1. CASE e.type = "content_block_start"
    <2>1. e.kind \in BlockKinds /\ e.sound \in BOOLEAN
      BY <1>1 DEF Accepts, AllEvents
    <2>2. Block(e) \in Blocks
      BY <2>1 DEF Block, Blocks
    <2>3. Append(a.blocks, Block(e)) \in Seq(Blocks)
      BY <1>0, <2>2
    <2>4. After(a, e) = [a EXCEPT !.blocks = Append(a.blocks, Block(e))]
      BY <1>1 DEF After
    <2> QED
      BY <1>b, <2>3, <2>4
  <1>2. CASE e.type = "content_block_delta"
    <2>1. /\ e.index + 1 \in DOMAIN a.blocks
          /\ e.delta \in DeltaTypes /\ e.part \in Parts \cup {None}
      BY <1>2 DEF Accepts, AllEvents, IsOpen, DeltaFits
    <2> DEFINE old == a.blocks[e.index + 1]
               new == [old EXCEPT !.content[e.delta] = Append(@, e.part)]
               rest == IF e.part = Empty /\ e.delta # "citations_delta"
                       THEN a.blocks
                       ELSE [a.blocks EXCEPT ![e.index + 1] = new]
    <2>2. old \in Blocks
      BY <1>0, <2>1
    <2>3. old.content \in Content
      BY <2>2 DEF Blocks
    <2>4. Append(old.content[e.delta], e.part) \in Seq(Parts \cup {None})
      BY <2>1, <2>3
    <2>5. [old.content EXCEPT ![e.delta] = Append(@, e.part)] \in Content
      BY <2>1, <2>3, <2>4
    <2>6. new \in Blocks
      BY <2>2, <2>5 DEF Blocks
    <2>7. After(a, e) = [a EXCEPT !.blocks = rest]
      BY <1>2 DEF After, AppendPart
    <2> HIDE DEF new
    <2>8. rest \in Seq(Blocks)
      BY <1>0, <2>1, <2>6
    <2> QED
      <3> HIDE DEF rest
      <3> QED
        BY <1>b, <2>7, <2>8
  <1>3. CASE e.type = "content_block_stop"
    <2>1. e.index + 1 \in DOMAIN a.blocks
      BY <1>3 DEF Accepts, AllEvents, IsOpen
    <2> DEFINE new == [a.blocks[e.index + 1] EXCEPT !.closed = TRUE]
               rest == [a.blocks EXCEPT ![e.index + 1] = new]
    <2>a. a.blocks[e.index + 1] \in Blocks
      BY <1>0, <2>1
    <2>2. new \in Blocks
      BY <2>a DEF Blocks
    <2>3. After(a, e) = [a EXCEPT !.blocks = rest]
      BY <1>3 DEF After
    <2> HIDE DEF new
    <2>4. rest \in Seq(Blocks)
      BY <1>0, <2>1, <2>2
    <2> QED
      <3> HIDE DEF rest
      <3> QED
        BY <1>b, <2>3, <2>4
  <1>4. CASE e.type \notin {"content_block_start", "content_block_delta",
                            "content_block_stop"}
    BY <1>4 DEF After, Accumulators
  <1> QED
    BY <1>1, <1>2, <1>3, <1>4

\* The accumulator of a request that has heard nothing.
LEMMA EmptyTypes == EmptyAccumulator \in Accumulators /\ ~EmptyAccumulator.done
  BY DEF EmptyAccumulator, Accumulators

\* What push changes, as one fact for each field it may change.
LEMMA FlagsAfter ==
    ASSUME NEW a \in Accumulators, NEW e \in AllEvents
    PROVE  /\ After(a, e).started <=> a.started \/ e.type = "message_start"
           /\ After(a, e).done <=> a.done \/ e.type = "message_stop"
           /\ After(a, e).stopReason <=>
                  IF e.type = "message_delta" /\ e.stop # "absent"
                  THEN e.stop = "string" ELSE a.stopReason
  BY DEF After, Accumulators

\* Most events leave the blocks alone.
LEMMA BlocksKept ==
    ASSUME NEW a \in Accumulators, NEW e,
           e.type \notin {"content_block_start", "content_block_delta",
                          "content_block_stop"}
    PROVE  After(a, e).blocks = a.blocks
  BY DEF After, Accumulators

\* content_block_start adds an open and empty block at the end.
LEMMA BlockAdded ==
    ASSUME NEW a \in Accumulators, NEW e, e.type = "content_block_start"
    PROVE  LET b == After(a, e).blocks IN
           /\ Len(b) = Len(a.blocks) + 1
           /\ DOMAIN b = DOMAIN a.blocks \cup {Len(a.blocks) + 1}
           /\ \A i \in DOMAIN a.blocks : b[i] = a.blocks[i]
           /\ b[Len(a.blocks) + 1] = Block(e)
  <1>1. After(a, e).blocks = Append(a.blocks, Block(e))
    BY DEF After, Accumulators
  <1>2. a.blocks \in Seq(BlockRecords)
    BY DEF Accumulators, BlockRecords
  <1> QED
    BY <1>1, <1>2

\* The part is not empty, or it is an element of an array.
BringsPart(e) == e.delta # "citations_delta" => e.part # Empty

\* content_block_delta adds its part, if it has one, to the block it names.
LEMMA PartAdded ==
    ASSUME NEW a \in Accumulators, NEW e, e.type = "content_block_delta",
           e.index + 1 \in DOMAIN a.blocks, e.delta \in DeltaTypes
    PROVE  LET b == After(a, e).blocks IN
           /\ Len(b) = Len(a.blocks) /\ DOMAIN b = DOMAIN a.blocks
           /\ \A i \in DOMAIN a.blocks :
                  /\ b[i].kind = a.blocks[i].kind
                  /\ b[i].sound = a.blocks[i].sound
                  /\ b[i].closed = a.blocks[i].closed
                  /\ \A d \in DeltaTypes :
                         b[i].content[d] =
                             IF i = e.index + 1 /\ d = e.delta /\ BringsPart(e)
                             THEN Append(a.blocks[i].content[d], e.part)
                             ELSE a.blocks[i].content[d]
  <1> DEFINE old == a.blocks[e.index + 1]
             new == [old EXCEPT !.content[e.delta] = Append(@, e.part)]
  <1>1. After(a, e).blocks = IF BringsPart(e)
                             THEN [a.blocks EXCEPT ![e.index + 1] = new]
                             ELSE a.blocks
    BY DEF After, AppendPart, BringsPart, Accumulators
  <1>2. a.blocks \in Seq(BlockRecords)
    BY DEF Accumulators, BlockRecords
  <1>3. old \in BlockRecords
    BY <1>2
  <1>4. /\ new.kind = old.kind /\ new.sound = old.sound
        /\ new.closed = old.closed
        /\ \A d \in DeltaTypes :
               new.content[d] = IF d = e.delta THEN Append(old.content[d], e.part)
                                               ELSE old.content[d]
    BY <1>3 DEF BlockRecords
  <1> HIDE DEF new
  <1> QED
    BY <1>1, <1>2, <1>4

\* content_block_stop closes the block it names.
LEMMA BlockClosed ==
    ASSUME NEW a \in Accumulators, NEW e, e.type = "content_block_stop",
           e.index + 1 \in DOMAIN a.blocks
    PROVE  LET b == After(a, e).blocks IN
           /\ Len(b) = Len(a.blocks) /\ DOMAIN b = DOMAIN a.blocks
           /\ \A i \in DOMAIN a.blocks :
                  /\ b[i].kind = a.blocks[i].kind
                  /\ b[i].sound = a.blocks[i].sound
                  /\ b[i].closed <=> a.blocks[i].closed \/ i = e.index + 1
                  /\ b[i].content = a.blocks[i].content
  <1> DEFINE old == a.blocks[e.index + 1]
             new == [old EXCEPT !.closed = TRUE]
  <1>1. After(a, e).blocks = [a.blocks EXCEPT ![e.index + 1] = new]
    BY DEF After, Accumulators
  <1>2. a.blocks \in Seq(BlockRecords)
    BY DEF Accumulators, BlockRecords
  <1>3. old \in BlockRecords
    BY <1>2
  <1>4. /\ new.kind = old.kind /\ new.sound = old.sound
        /\ new.closed = TRUE /\ new.content = old.content
    BY <1>3 DEF BlockRecords
  <1> HIDE DEF new
  <1> QED
    BY <1>1, <1>2, <1>4

\* A block keeps following when neither it nor what is said of it changes.
LEMMA BlockStillFollows ==
    ASSUME NEW a, NEW b, NEW s, NEW e, NEW t, Grows(t, s, e), NEW i,
           BlockFollows(a, s, i),
           b.blocks[i].kind = a.blocks[i].kind,
           b.blocks[i].sound = a.blocks[i].sound,
           b.blocks[i].closed <=> StopsOf(t, i - 1) # {},
           \A d \in DeltaTypes : b.blocks[i].content[d] = PartsFor(t, i - 1, d)
    PROVE  BlockFollows(b, t, i)
  <1>1. PICK p \in At(s, "content_block_start") :
            /\ s[p].index = i - 1
            /\ a.blocks[i].kind = s[p].kind
            /\ a.blocks[i].sound = s[p].sound
    BY DEF BlockFollows
  <1>2. p \in At(t, "content_block_start") /\ t[p] = s[p]
    BY AtAppended
  <1> QED
    BY <1>1, <1>2 DEF BlockFollows

\* Blocks are neither removed nor do they change their kind.
KeepsBlocks(a, b) ==
    \A i \in DOMAIN a.blocks : /\ i \in DOMAIN b.blocks
                               /\ b.blocks[i].kind = a.blocks[i].kind
                               /\ b.blocks[i].sound = a.blocks[i].sound

\* Blocks that keep kind and soundness are those of their starts.
LEMMA StartsStillFollow ==
    ASSUME NEW a, NEW b, NEW s, NEW e, NEW t, Grows(t, s, e),
           BlocksFollow(a, s), KeepsBlocks(a, b)
    PROVE  \A p \in At(s, "content_block_start") : StartFollowed(b, t, p)
  <1> TAKE p \in At(s, "content_block_start")
  <1>1. t[p] = s[p]
    BY AtAppended
  <1> QED
    BY <1>1 DEF BlocksFollow, KeepsBlocks, StartFollowed

\* A set of positions of one type, counted after one more event.
LEMMA CountAppended ==
    ASSUME NEW s, NEW e, NEW t, Grows(t, s, e), NEW type
    PROVE  /\ e.type = type => Cardinality(At(t, type))
                                   = Cardinality(At(s, type)) + 1
           /\ e.type # type => Cardinality(At(t, type))
                                   = Cardinality(At(s, type))
  <1>1. PICK S : S = At(s, type)
    OBVIOUS
  <1>2. Len(s) \in Nat /\ S \in SUBSET (1 .. Len(s))
    BY <1>1, GrowsTypes, AtAppended
  <1>3. Cardinality(S \cup {Len(s) + 1}) = Cardinality(S) + 1
    BY <1>2, PositionsFinite
  <1>4. /\ e.type = type => At(t, type) = S \cup {Len(s) + 1}
        /\ e.type # type => At(t, type) = S
    BY <1>1, AtAppended
  <1> QED
    BY <1>1, <1>3, <1>4

\* A block no delta names is empty.
LEMMA NoParts ==
    ASSUME NEW s, NEW i, NEW d, DeltasOf(s, i) = {}
    PROVE  PartsFor(s, i, d) = <<>>
  <1>1. Cardinality(Carrying(s, i, d)) = 0
    BY FS_EmptySet DEF Carrying
  <1>2. 1 .. 0 = {}
    OBVIOUS
  <1> QED
    BY <1>1, <1>2 DEF PartsFor

\* The blocks after content_block_start.
LEMMA FollowsStart ==
    ASSUME NEW a, NEW s, NEW e, NEW t, Grows(t, s, e), Follows(a, s),
           Accepts(a, e), e.type = "content_block_start"
    PROVE  BlocksFollow(After(a, e), t)
  <1> DEFINE n == Len(a.blocks)
  <1>1. PICK b : b = After(a, e)
    OBVIOUS
  <1>2. /\ a \in Accumulators /\ BlocksFollow(a, s)
        /\ n \in Nat /\ DOMAIN a.blocks = 1 .. n /\ e.index = n
    BY DEF Follows, Accumulators, Accepts
  <1>3. /\ Len(b.blocks) = n + 1
        /\ DOMAIN b.blocks = DOMAIN a.blocks \cup {n + 1}
        /\ \A i \in DOMAIN a.blocks : b.blocks[i] = a.blocks[i]
        /\ b.blocks[n + 1] = Block(e)
    BY <1>1, <1>2, BlockAdded
  <1>4. /\ t[Len(s) + 1] = e
        /\ At(t, "content_block_start")
               = At(s, "content_block_start") \cup {Len(s) + 1}
    BY GrowsTypes, AtAppended
  <1>5. ASSUME NEW i \in DOMAIN a.blocks
        PROVE  BlockFollows(b, t, i)
    <2>1. BlockFollows(a, s, i) /\ b.blocks[i] = a.blocks[i]
      BY <1>2, <1>3 DEF BlocksFollow
    <2>2. StopsOf(t, i - 1) = StopsOf(s, i - 1)
      BY StopsAppended
    <2>3. \A d \in DeltaTypes : PartsFor(t, i - 1, d) = PartsFor(s, i - 1, d)
      BY PartsKept DEF Adds
    <2>4. /\ b.blocks[i].closed <=> StopsOf(t, i - 1) # {}
          /\ \A d \in DeltaTypes :
                 b.blocks[i].content[d] = PartsFor(t, i - 1, d)
      BY <2>1, <2>2, <2>3 DEF BlockFollows
    <2> QED
      BY <2>1, <2>4, BlockStillFollows
  <1>6. BlockFollows(b, t, n + 1)
    <2>1. n \in Int /\ n + 1 \notin DOMAIN a.blocks /\ (n + 1) - 1 = n
      BY <1>2
    <2>2. StopsOf(s, n) = {} /\ DeltasOf(s, n) = {}
      BY <2>1, StartedBlocks
    <2>3. StopsOf(t, n) = {} /\ DeltasOf(t, n) = {}
      BY <2>2, StopsAppended, DeltasAppended
    <2>4. \A d \in DeltaTypes : PartsFor(t, n, d) = <<>>
      BY <2>3, NoParts
    <2>5. /\ b.blocks[n + 1].kind = e.kind /\ b.blocks[n + 1].sound = e.sound
          /\ b.blocks[n + 1].closed = FALSE
          /\ \A d \in DeltaTypes : b.blocks[n + 1].content[d] = <<>>
      BY <1>3 DEF Block
    <2> QED
      BY <1>2, <1>4, <2>1, <2>3, <2>4, <2>5 DEF BlockFollows
  <1>7. \A p \in At(t, "content_block_start") : StartFollowed(b, t, p)
    <2>1. KeepsBlocks(a, b)
      BY <1>3 DEF KeepsBlocks
    <2>2. \A p \in At(s, "content_block_start") : StartFollowed(b, t, p)
      BY <1>2, <2>1, StartsStillFollow
    <2>3. StartFollowed(b, t, Len(s) + 1)
      BY <1>2, <1>3, <1>4 DEF Block, StartFollowed
    <2> QED
      BY <1>4, <2>2, <2>3
  <1>8. /\ Cardinality(At(t, "content_block_start")) = Len(b.blocks)
        /\ Cardinality(At(t, "content_block_stop"))
               = Cardinality(At(s, "content_block_stop"))
    BY <1>2, <1>3, CountAppended DEF BlocksFollow
  <1>9. Closed(b) = Closed(a)
    <2>1. b.blocks[n + 1].closed = FALSE
      BY <1>3 DEF Block
    <2> QED
      BY <1>3, <2>1 DEF Closed
  <1>10. \A i \in DOMAIN b.blocks : BlockFollows(b, t, i)
    BY <1>3, <1>5, <1>6
  <1> QED
    BY <1>1, <1>2, <1>7, <1>8, <1>9, <1>10 DEF BlocksFollow

\* The blocks after content_block_delta.
LEMMA FollowsDelta ==
    ASSUME NEW a, NEW s, NEW e, NEW t, Grows(t, s, e), Follows(a, s),
           Accepts(a, e), e.type = "content_block_delta"
    PROVE  BlocksFollow(After(a, e), t)
  <1>1. PICK b : b = After(a, e)
    OBVIOUS
  <1>2. /\ a \in Accumulators /\ BlocksFollow(a, s) /\ e \in AllEvents
        /\ DOMAIN a.blocks = 1 .. Len(a.blocks) /\ Len(a.blocks) \in Nat
    BY GrowsTypes DEF Follows, Accumulators
  <1>3. /\ e.index + 1 \in DOMAIN a.blocks /\ e.delta \in DeltaTypes
        /\ e.index \in Int
    BY <1>2, EventsAssumption
       DEF Accepts, IsOpen, DeltaFits, AllEvents, Indices, EventsAssumption
  <1>4. /\ Len(b.blocks) = Len(a.blocks) /\ DOMAIN b.blocks = DOMAIN a.blocks
        /\ \A i \in DOMAIN a.blocks :
               /\ b.blocks[i].kind = a.blocks[i].kind
               /\ b.blocks[i].sound = a.blocks[i].sound
               /\ b.blocks[i].closed = a.blocks[i].closed
               /\ \A d \in DeltaTypes :
                      b.blocks[i].content[d] =
                          IF i = e.index + 1 /\ d = e.delta /\ BringsPart(e)
                          THEN Append(a.blocks[i].content[d], e.part)
                          ELSE a.blocks[i].content[d]
    BY <1>1, <1>2, <1>3, PartAdded
  <1>5. ASSUME NEW i \in DOMAIN a.blocks
        PROVE  BlockFollows(b, t, i)
    <2>1. BlockFollows(a, s, i) /\ i \in Int
      BY <1>2 DEF BlocksFollow
    <2>2. StopsOf(t, i - 1) = StopsOf(s, i - 1)
      BY StopsAppended
    <2>3. b.blocks[i].closed <=> StopsOf(t, i - 1) # {}
      BY <1>4, <2>1, <2>2 DEF BlockFollows
    <2>4. ASSUME NEW d \in DeltaTypes
          PROVE  b.blocks[i].content[d] = PartsFor(t, i - 1, d)
      <3>1. PICK c : c = a.blocks[i].content[d]
        OBVIOUS
      <3>2. c = PartsFor(s, i - 1, d)
        BY <2>1, <3>1 DEF BlockFollows
      <3>3. c \in Seq(Parts \cup {None})
        <4>1. a.blocks \in Seq(BlockRecords)
          BY <1>2 DEF Accumulators, BlockRecords
        <4>2. a.blocks[i] \in BlockRecords
          BY <4>1
        <4> QED
          BY <3>1, <4>2 DEF BlockRecords
      <3>4. CASE Adds(e, i - 1, d)
        <4>1. i = e.index + 1 /\ d = e.delta /\ BringsPart(e)
          BY <1>3, <2>1, <3>4 DEF Adds, BringsPart
        <4>2. PICK k : k = i - 1
          OBVIOUS
        <4>3. Adds(e, k, d) /\ c = PartsFor(s, k, d)
          BY <3>2, <3>4, <4>2
        <4>4. PartsFor(t, k, d) = Append(c, e.part)
          BY <3>3, <4>1, <4>3, PartsAppended
        <4> QED
          BY <1>4, <3>1, <4>1, <4>2, <4>4
      <3>5. CASE ~Adds(e, i - 1, d)
        <4>1. ~(i = e.index + 1 /\ d = e.delta /\ BringsPart(e))
          BY <1>3, <2>1, <3>5 DEF Adds, BringsPart
        <4>2. PartsFor(t, i - 1, d) = c
          BY <3>2, <3>5, PartsKept
        <4> QED
          BY <1>4, <3>1, <4>1, <4>2
      <3> QED
        BY <3>4, <3>5
    <2> QED
      BY <1>4, <2>1, <2>3, <2>4, BlockStillFollows
  <1>6. /\ At(t, "content_block_start") = At(s, "content_block_start")
        /\ At(t, "content_block_stop") = At(s, "content_block_stop")
    BY AtAppended
  <1>7. \A p \in At(s, "content_block_start") : StartFollowed(b, t, p)
    <2>1. KeepsBlocks(a, b)
      BY <1>4 DEF KeepsBlocks
    <2> QED
      BY <1>2, <2>1, StartsStillFollow
  <1>8. Closed(b) = Closed(a)
    BY <1>4 DEF Closed
  <1> QED
    BY <1>1, <1>2, <1>4, <1>5, <1>6, <1>7, <1>8 DEF BlocksFollow

\* The blocks after content_block_stop.
LEMMA FollowsStop ==
    ASSUME NEW a, NEW s, NEW e, NEW t, Grows(t, s, e), Follows(a, s),
           Accepts(a, e), e.type = "content_block_stop"
    PROVE  BlocksFollow(After(a, e), t)
  <1> DEFINE j == e.index + 1
  <1>1. PICK b : b = After(a, e)
    OBVIOUS
  <1>2. /\ a \in Accumulators /\ BlocksFollow(a, s) /\ e \in AllEvents
        /\ DOMAIN a.blocks = 1 .. Len(a.blocks) /\ Len(a.blocks) \in Nat
    BY GrowsTypes DEF Follows, Accumulators
  <1>3. j \in DOMAIN a.blocks /\ ~a.blocks[j].closed /\ e.index \in Int
    BY <1>2, EventsAssumption
       DEF Accepts, IsOpen, AllEvents, Indices, EventsAssumption
  <1>4. /\ Len(b.blocks) = Len(a.blocks) /\ DOMAIN b.blocks = DOMAIN a.blocks
        /\ \A i \in DOMAIN a.blocks :
               /\ b.blocks[i].kind = a.blocks[i].kind
               /\ b.blocks[i].sound = a.blocks[i].sound
               /\ b.blocks[i].closed <=> a.blocks[i].closed \/ i = j
               /\ b.blocks[i].content = a.blocks[i].content
    BY <1>1, <1>2, <1>3, BlockClosed
  <1>5. ASSUME NEW i \in DOMAIN a.blocks
        PROVE  BlockFollows(b, t, i)
    <2>1. BlockFollows(a, s, i) /\ i \in Int
      BY <1>2 DEF BlocksFollow
    <2>2. StopsOf(t, i - 1) # {} <=> StopsOf(s, i - 1) # {} \/ i = j
      <3>1. CASE i = j
        <4>1. e.index = i - 1
          BY <1>3, <3>1
        <4>2. StopsOf(t, i - 1) = StopsOf(s, i - 1) \cup {Len(s) + 1}
          BY <4>1, StopsAppended
        <4> QED
          BY <3>1, <4>2
      <3>2. CASE i # j
        <4>1. e.index # i - 1
          BY <1>3, <2>1, <3>2
        <4>2. StopsOf(t, i - 1) = StopsOf(s, i - 1)
          BY <4>1, StopsAppended
        <4> QED
          BY <3>2, <4>2
      <3> QED
        BY <3>1, <3>2
    <2>3. b.blocks[i].closed <=> StopsOf(t, i - 1) # {}
      BY <1>4, <2>1, <2>2 DEF BlockFollows
    <2>4. \A d \in DeltaTypes : PartsFor(t, i - 1, d) = PartsFor(s, i - 1, d)
      BY PartsKept DEF Adds
    <2>5. \A d \in DeltaTypes : b.blocks[i].content[d] = PartsFor(t, i - 1, d)
      BY <1>4, <2>1, <2>4 DEF BlockFollows
    <2> QED
      BY <1>4, <2>1, <2>3, <2>5, BlockStillFollows
  <1>6. At(t, "content_block_start") = At(s, "content_block_start")
    BY AtAppended
  <1>7. \A p \in At(s, "content_block_start") : StartFollowed(b, t, p)
    <2>1. KeepsBlocks(a, b)
      BY <1>4 DEF KeepsBlocks
    <2> QED
      BY <1>2, <2>1, StartsStillFollow
  <1>8. Cardinality(Closed(b)) = Cardinality(Closed(a)) + 1
    <2>1. Closed(b) = Closed(a) \cup {j} /\ j \notin Closed(a)
      BY <1>3, <1>4 DEF Closed
    <2>2. Closed(a) \in SUBSET (1 .. Len(a.blocks))
      BY <1>2 DEF Closed
    <2>3. IsFiniteSet(Closed(a))
      <3> HIDE DEF j
      <3>1. IsFiniteSet(1 .. Len(a.blocks))
        BY <1>2, FS_Interval
      <3> QED
        BY <2>2, <3>1, FS_Subset
    <2> QED
      BY <2>1, <2>3, FS_AddElement
  <1>9. Cardinality(At(t, "content_block_stop"))
            = Cardinality(At(s, "content_block_stop")) + 1
    BY CountAppended
  <1> QED
    BY <1>1, <1>2, <1>4, <1>5, <1>6, <1>7, <1>8, <1>9 DEF BlocksFollow

\* The blocks after the events that are about no block.
LEMMA FollowsRest ==
    ASSUME NEW a, NEW s, NEW e, NEW t, Grows(t, s, e), Follows(a, s),
           e.type \notin {"content_block_start", "content_block_delta",
                          "content_block_stop"}
    PROVE  BlocksFollow(After(a, e), t)
  <1>1. PICK b : b = After(a, e)
    OBVIOUS
  <1>2. a \in Accumulators /\ BlocksFollow(a, s)
    BY DEF Follows
  <1>3. b.blocks = a.blocks
    BY <1>1, <1>2, BlocksKept
  <1>4. ASSUME NEW i \in DOMAIN a.blocks
        PROVE  BlockFollows(b, t, i)
    <2>1. BlockFollows(a, s, i)
      BY <1>2 DEF BlocksFollow
    <2>2. StopsOf(t, i - 1) = StopsOf(s, i - 1)
      BY StopsAppended
    <2>3. \A d \in DeltaTypes : PartsFor(t, i - 1, d) = PartsFor(s, i - 1, d)
      BY PartsKept DEF Adds
    <2>4. /\ b.blocks[i].closed <=> StopsOf(t, i - 1) # {}
          /\ \A d \in DeltaTypes :
                 b.blocks[i].content[d] = PartsFor(t, i - 1, d)
      BY <1>3, <2>1, <2>2, <2>3 DEF BlockFollows
    <2> QED
      BY <1>3, <2>1, <2>4, BlockStillFollows
  <1>5. /\ At(t, "content_block_start") = At(s, "content_block_start")
        /\ At(t, "content_block_stop") = At(s, "content_block_stop")
    BY AtAppended
  <1>6. \A p \in At(s, "content_block_start") : StartFollowed(b, t, p)
    <2>1. KeepsBlocks(a, b)
      BY <1>3 DEF KeepsBlocks
    <2> QED
      BY <1>2, <2>1, StartsStillFollow
  <1>7. Closed(b) = Closed(a)
    BY <1>3 DEF Closed
  <1> QED
    BY <1>1, <1>2, <1>3, <1>4, <1>5, <1>6, <1>7 DEF BlocksFollow

(***************************************************************************)
(* An accumulator that follows the events and accepts one more follows the *)
(* longer list.                                                            *)
(***************************************************************************)
LEMMA FollowsAfter ==
    ASSUME NEW a, NEW s, NEW e, NEW t, Grows(t, s, e), Follows(a, s),
           Accepts(a, e)
    PROVE  Follows(After(a, e), t)
  <1>1. /\ a \in Accumulators /\ e \in AllEvents /\ t \in Seq(AllEvents)
        /\ a.started <=> At(s, "message_start") # {}
        /\ a.done <=> At(s, "message_stop") # {}
        /\ a.stopReason <=> LastSaysString(s)
    BY GrowsTypes DEF Follows
  <1>2. Viable(t)
    BY AcceptsExactly
  <1>3. After(a, e) \in Accumulators
    BY <1>1, AfterTypes
  <1>4. \A type : At(t, type) # {} <=> At(s, type) # {} \/ e.type = type
    <2> TAKE type
    <2>1. CASE e.type = type
      <3>1. At(t, type) = At(s, type) \cup {Len(s) + 1}
        BY <2>1, AtAppended
      <3> QED
        BY <2>1, <3>1
    <2>2. CASE e.type # type
      <3>1. At(t, type) = At(s, type)
        BY <2>2, AtAppended
      <3> QED
        BY <2>2, <3>1
    <2> QED
      BY <2>1, <2>2
  <1>5. /\ After(a, e).started <=> At(t, "message_start") # {}
        /\ After(a, e).done <=> At(t, "message_stop") # {}
    BY <1>1, <1>4, FlagsAfter
  <1>6. After(a, e).stopReason <=> LastSaysString(t)
    BY <1>1, FlagsAfter, LastWordAppended
  <1>7. BlocksFollow(After(a, e), t)
    BY FollowsStart, FollowsDelta, FollowsStop, FollowsRest
  <1> QED
    BY <1>1, <1>2, <1>3, <1>5, <1>6, <1>7 DEF Follows

\* The new accumulator follows the empty list.
LEMMA FollowsEmpty == Follows(EmptyAccumulator, <<>>)
  <1>1. EmptyAccumulator \in Accumulators /\ <<>> \in Seq(AllEvents)
    BY EmptyTypes
  <1>2. \A type : At(<<>>, type) = {}
    BY DEF At
  <1>3. Cardinality({}) = 0
    BY FS_EmptySet
  <1>4. Viable(<<>>)
    <2>1. DOMAIN <<>> = {}
      OBVIOUS
    <2>2. StartsOnce(<<>>)
      BY <1>2, <1>3, <2>1 DEF StartsOnce
    <2>3. NamesBlocks(<<>>)
      BY <1>2 DEF NamesBlocks
    <2> QED
      BY <1>2, <2>2, <2>3 DEF Viable
  <1>5. ~LastSaysString(<<>>)
    BY <1>2 DEF LastSaysString, Says
  <1>6. Closed(EmptyAccumulator) = {}
    BY DEF Closed, EmptyAccumulator
  <1>7. BlocksFollow(EmptyAccumulator, <<>>)
    <2>1. /\ DOMAIN EmptyAccumulator.blocks = {}
          /\ Len(EmptyAccumulator.blocks) = 0
      BY DEF EmptyAccumulator
    <2>2. /\ Cardinality(At(<<>>, "content_block_start")) = 0
          /\ Cardinality(At(<<>>, "content_block_stop")) = 0
      BY <1>2, <1>3
    <2> QED
      BY <1>2, <1>3, <1>6, <2>1, <2>2 DEF BlocksFollow
  <1> QED
    BY <1>1, <1>2, <1>4, <1>5, <1>7 DEF Follows, EmptyAccumulator
=============================================================================
