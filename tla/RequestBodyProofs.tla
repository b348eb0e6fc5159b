------------------------ MODULE RequestBodyProofs ------------------------
(***************************************************************************)
(* What the bridge makes of the messages and the system field of a         *)
(* request, for every list of blocks and every conversation of them, and   *)
(* for every text.                                                         *)
(*                                                                         *)
(* 1. The loops of validate and seed_history are folds.  FoldLeft asks for *)
(* a function by CHOOSE; that there is one is shown once (FoldExists), and *)
(* each fold then has a law that takes the last element off.  Growing is   *)
(* the induction over sequences that everything else rests on.             *)
(*                                                                         *)
(* 2. Merging keeps the content and makes the roles take turns; what       *)
(* validate accepts is in that form, the transcript of it links every turn *)
(* to the one before, and in it every call is followed by its results.     *)
(*                                                                         *)
(* 3. validate accepts exactly the conversations WellPaired describes.     *)
(* The reference counts turns and places, the loop keeps a set of ids: so  *)
(* Tells relates the two after every block a caller writes, in any         *)
(* message, and it is inductive where WellPaired is not, since an          *)
(* unfinished conversation has calls that may still be answered.           *)
(*                                                                         *)
(* 4. normalize: the loop Strip ends for every text, and what it removed   *)
(* are wrappers by position (Covers), each round adding to the ones before;*)
(* where it stops no wrapper is left in front.                             *)
(***************************************************************************)
EXTENDS RequestBody, FiniteSetTheorems, SequenceTheorems, TLAPS

-----------------------------------------------------------------------------
(* Counting up, for facts about every beginning of a sequence. *)

\* What is in S from 0 on and goes on up to n: otherwise the numbers of S below
\* the first gap would be as many as their successors, which lack 0.
LEMMA CountingUp ==
    ASSUME NEW n \in Nat, NEW S, 0 \in S,
           \A k \in 0 .. n - 1 : k \in S => k + 1 \in S
    PROVE  \A k \in 0 .. n : k \in S
  <1> SUFFICES ASSUME NEW k \in 0 .. n, k \notin S PROVE FALSE
    OBVIOUS
  <1> DEFINE T == S \cap (0 .. k)
             next == [i \in T |-> i + 1]
  <1>1. \A i \in T : i + 1 \in T \ {0}
    <2> TAKE i \in T
    <2>1. i \in Int /\ 0 <= i /\ i <= k /\ i # k
      OBVIOUS
    <2> QED
      BY <2>1
  <1>2. IsFiniteSet(T) /\ IsFiniteSet(T \ {0})
    <2>1. T \in SUBSET (0 .. k) /\ T \ {0} \in SUBSET (0 .. k)
      OBVIOUS
    <2>2. IsFiniteSet(0 .. k)
      BY FS_Interval
    <2> HIDE DEF T
    <2> QED
      BY <2>1, <2>2, FS_Subset
  <1>3. Cardinality(T \ {0}) < Cardinality(T)
    <2>1. 0 \in T /\ Cardinality(T) \in Nat
      BY <1>2, FS_CardinalityType
    <2> HIDE DEF T
    <2> QED
      BY <1>2, <2>1, FS_RemoveElement
  <1>4. next \in [T -> T \ {0}]
    BY <1>1
  <1>5. \A i, j \in T : i # j => next[i] # next[j]
    OBVIOUS
  <1> HIDE DEF next, T
  <1> QED
    BY <1>2, <1>3, <1>4, <1>5, FS_PigeonHole

\* Two loops that begin alike and go on alike are alike.
LEMMA SameLoop ==
    ASSUME NEW n \in Nat, NEW f, NEW g, f[0] = g[0],
           \A k \in 0 .. n - 1 : f[k] = g[k] => f[k + 1] = g[k + 1]
    PROVE  \A k \in 0 .. n : f[k] = g[k]
  <1> DEFINE S == {k \in 0 .. n : f[k] = g[k]}
  <1>1. 0 \in S /\ \A k \in 0 .. n - 1 : k \in S => k + 1 \in S
    OBVIOUS
  <1> HIDE DEF S
  <1>2. \A k \in 0 .. n : k \in S
    BY <1>1, CountingUp
  <1> QED
    BY <1>2 DEF S

\* Induction over sequences: S holds the empty one and grows at the end.
LEMMA Growing ==
    ASSUME NEW T, NEW S, <<>> \in S,
           \A s \in Seq(T), x \in T : s \in S => Append(s, x) \in S
    PROVE  Seq(T) \subseteq S
  <1> SUFFICES ASSUME NEW s \in Seq(T) PROVE s \in S
    OBVIOUS
  <1> DEFINE Upto(k) == SubSeq(s, 1, k)
  <1>1. Upto(0) = <<>> /\ Upto(Len(s)) = s /\ Len(s) \in Nat
    OBVIOUS
  <1>2. \A k \in 0 .. Len(s) - 1 :
            /\ Upto(k) \in Seq(T) /\ s[k + 1] \in T
            /\ Upto(k + 1) = Append(Upto(k), s[k + 1])
    OBVIOUS
  <1> HIDE DEF Upto
  <1> DEFINE K == {k \in 0 .. Len(s) : Upto(k) \in S}
  <1>3. 0 \in K /\ \A k \in 0 .. Len(s) - 1 : k \in K => k + 1 \in K
    <2>1. 0 \in K
      BY <1>1
    <2>2. ASSUME NEW k \in 0 .. Len(s) - 1, k \in K PROVE k + 1 \in K
      <3>1. Upto(k) \in S /\ Upto(k) \in Seq(T) /\ s[k + 1] \in T
        BY <1>2, <2>2
      <3>2. Append(Upto(k), s[k + 1]) \in S
        BY <3>1
      <3>3. k + 1 \in 0 .. Len(s) /\ Upto(k + 1) = Append(Upto(k), s[k + 1])
        BY <1>1, <1>2
      <3> QED
        BY <3>2, <3>3
    <2> QED
      BY <2>1, <2>2
  <1> HIDE DEF K
  <1>4. \A k \in 0 .. Len(s) : k \in K
    BY <1>1, <1>3, CountingUp
  <1> QED
    BY <1>1, <1>4 DEF K

-----------------------------------------------------------------------------
(* Folds.  What FoldLeft computes is a function on sets of positions that   *)
(* takes the largest first; only the beginnings of the sequence matter.     *)

\* The largest of 1 .. n + 1, and what is left without it.
LEMMA LastOfInterval ==
    ASSUME NEW n \in Nat
    PROVE  /\ Max(1 .. n + 1) = n + 1
           /\ (1 .. n + 1) \ {n + 1} = 1 .. n
           /\ 1 .. n + 1 # {}
           /\ \A S \in SUBSET (1 .. n + 1) :
                  n + 1 \in S => Max(S) = n + 1 /\ S \ {n + 1} \in SUBSET (1 .. n)
           /\ \A S \in SUBSET (1 .. n + 1) : n + 1 \notin S => S \in SUBSET (1 .. n)
  <1>1. \A S \in SUBSET (1 .. n + 1) : n + 1 \in S => Max(S) = n + 1
    <2> SUFFICES ASSUME NEW S \in SUBSET (1 .. n + 1), n + 1 \in S
                 PROVE  Max(S) = n + 1
      OBVIOUS
    <2>1. \A y \in S : y \in Int /\ n + 1 >= y
      OBVIOUS
    <2>2. \A x \in S : (\A y \in S : x >= y) => x = n + 1
      BY <2>1
    <2> QED
      BY <2>1, <2>2 DEF Max
  <1>2. 1 .. n + 1 # {} /\ n + 1 \in 1 .. n + 1
    OBVIOUS
  <1> QED
    BY <1>1, <1>2

\* f is what FoldLeft computes over the first n elements of s with the step g.
IsFold(f, n, g, base, s) ==
    f = [S \in SUBSET (1 .. n) |->
            IF S = {} THEN base ELSE g[f[S \ {Max(S)}]][s[Max(S)]]]

\* One element more: the function on the smaller sets is extended.
LEMMA FoldGrows ==
    ASSUME NEW D, NEW T, NEW g \in [D -> [T -> D]], NEW base \in D, NEW s \in Seq(T),
           NEW n \in 0 .. Len(s) - 1,
           NEW f \in [SUBSET (1 .. n) -> D], IsFold(f, n, g, base, s)
    PROVE  \E h \in [SUBSET (1 .. n + 1) -> D] : IsFold(h, n + 1, g, base, s)
  <1> DEFINE P == SUBSET (1 .. n)
             Q == SUBSET (1 .. n + 1)
             h == [S \in Q |->
                     IF n + 1 \in S THEN g[f[S \ {n + 1}]][s[n + 1]] ELSE f[S]]
  <1>1. n \in Nat /\ n + 1 \in 1 .. Len(s) /\ s[n + 1] \in T
    OBVIOUS
  <1>2. \A S \in Q : n + 1 \in S => Max(S) = n + 1 /\ S \ {n + 1} \in P /\ S # {}
    BY <1>1, LastOfInterval
  <1>3. \A S \in Q : n + 1 \notin S => S \in P
    BY <1>1, LastOfInterval
  <1>4. \A S \in P : n + 1 \notin S /\ S \ {Max(S)} \in P
    <2>1. n + 1 \notin 1 .. n
      BY <1>1
    <2> QED
      BY <2>1
  <1>5. \A S \in P : f[S] = IF S = {} THEN base ELSE g[f[S \ {Max(S)}]][s[Max(S)]]
    BY DEF IsFold
  <1>6. P \subseteq Q /\ f \in [P -> D]
    OBVIOUS
  <1> HIDE DEF P, Q
  <1>7. h \in [Q -> D]
    <2> SUFFICES ASSUME NEW S \in Q PROVE h[S] \in D
      OBVIOUS
    <2>1. CASE n + 1 \in S
      <3>1. f[S \ {n + 1}] \in D
        BY <1>2, <1>6, <2>1
      <3>2. g[f[S \ {n + 1}]][s[n + 1]] \in D
        BY <1>1, <3>1
      <3> QED
        BY <2>1, <3>2
    <2>2. CASE n + 1 \notin S
      BY <1>3, <1>6, <2>2
    <2> QED
      BY <2>1, <2>2
  <1>8. \A S \in P : h[S] = f[S]
    BY <1>4, <1>6
  <1>9. ASSUME NEW S \in Q
        PROVE  h[S] = IF S = {} THEN base ELSE g[h[S \ {Max(S)}]][s[Max(S)]]
    <2>1. CASE n + 1 \in S
      <3>1. Max(S) = n + 1 /\ S \ {n + 1} \in P /\ S # {}
        BY <1>2, <2>1
      <3>2. h[S] = g[f[S \ {n + 1}]][s[n + 1]]
        BY <2>1
      <3>3. h[S \ {n + 1}] = f[S \ {n + 1}]
        BY <1>8, <3>1
      <3> HIDE DEF h
      <3> QED
        BY <3>1, <3>2, <3>3
    <2>2. CASE n + 1 \notin S
      <3>1. S \in P /\ S \ {Max(S)} \in P
        BY <1>3, <1>4, <2>2
      <3>2. h[S] = f[S] /\ h[S \ {Max(S)}] = f[S \ {Max(S)}]
        BY <1>8, <3>1
      <3> HIDE DEF h
      <3> QED
        BY <1>5, <3>1, <3>2
    <2> QED
      BY <2>1, <2>2
  <1>10. h = [S \in Q |-> IF S = {} THEN base ELSE g[h[S \ {Max(S)}]][s[Max(S)]]]
    <2> HIDE DEF h
    <2> QED
      BY <1>7, <1>9
  <1> HIDE DEF h
  <1> QED
    BY <1>7, <1>10 DEF IsFold, Q

\* So the function FoldLeft chooses exists.
LEMMA FoldExists ==
    ASSUME NEW D, NEW T, NEW g \in [D -> [T -> D]], NEW base \in D, NEW s \in Seq(T)
    PROVE  \E f \in [SUBSET (1 .. Len(s)) -> D] : IsFold(f, Len(s), g, base, s)
  <1> DEFINE Has(n) == \E f \in [SUBSET (1 .. n) -> D] : IsFold(f, n, g, base, s)
  <1>1. Has(0)
    <2> DEFINE f == [S \in SUBSET (1 .. 0) |-> base]
    <2>1. \A S \in SUBSET (1 .. 0) : S = {}
      OBVIOUS
    <2>2. f \in [SUBSET (1 .. 0) -> D]
      OBVIOUS
    <2>3. f = [S \in SUBSET (1 .. 0) |->
                IF S = {} THEN base ELSE g[f[S \ {Max(S)}]][s[Max(S)]]]
      BY <2>1
    <2> HIDE DEF f
    <2> QED
      BY <2>2, <2>3 DEF IsFold
  <1>2. \A n \in 0 .. Len(s) - 1 : Has(n) => Has(n + 1)
    BY FoldGrows
  <1> HIDE DEF Has
  <1> DEFINE K == {n \in 0 .. Len(s) : Has(n)}
  <1>3. 0 \in K /\ \A n \in 0 .. Len(s) - 1 : n \in K => n + 1 \in K
    BY <1>1, <1>2
  <1> HIDE DEF K
  <1>4. Len(s) \in Nat
    OBVIOUS
  <1>5. \A n \in 0 .. Len(s) : n \in K
    BY <1>3, <1>4, CountingUp
  <1>6. Len(s) \in K
    BY <1>4, <1>5
  <1> QED
    BY <1>6 DEF K, Has

\* Max is defined on the sets a fold asks for.
LEMMA LargestIn ==
    ASSUME NEW n \in Nat, NEW S \in SUBSET (1 .. n), S # {}
    PROVE  Max(S) \in S /\ Max(S) \in 1 .. n
  <1> DEFINE K == {k \in 0 .. n : S \cap (1 .. k) = {} \/
                        \E x \in S \cap (1 .. k) : \A y \in S \cap (1 .. k) : x >= y}
  <1>1. 0 \in K
    OBVIOUS
  <1>2. ASSUME NEW k \in 0 .. n - 1, k \in K PROVE k + 1 \in K
    <2>1. /\ k + 1 \in 0 .. n
          /\ \A y \in S \cap (1 .. k + 1) : y = k + 1 \/ y \in S \cap (1 .. k)
          /\ \A y \in S \cap (1 .. k) : y \in Int /\ y <= k + 1
          /\ S \cap (1 .. k) \subseteq S \cap (1 .. k + 1)
      OBVIOUS
    <2>2. CASE k + 1 \in S
      <3>1. k + 1 \in S \cap (1 .. k + 1) /\ k + 1 \in Int
        BY <2>2
      <3>2. \A y \in S \cap (1 .. k + 1) : k + 1 >= y
        BY <2>1, <3>1
      <3> QED
        BY <2>1, <3>1, <3>2
    <2>3. CASE k + 1 \notin S
      <3>1. S \cap (1 .. k + 1) = S \cap (1 .. k)
        BY <2>1, <2>3
      <3> QED
        BY <1>2, <2>1, <3>1
    <2> QED
      BY <2>2, <2>3
  <1>3. \A k \in 0 .. n : k \in K
    <2> HIDE DEF K
    <2> QED
      BY <1>1, <1>2, CountingUp
  <1>4. S \cap (1 .. n) = S /\ n \in 0 .. n
    <2>1. S \subseteq 1 .. n /\ n \in 0 .. n
      OBVIOUS
    <2>2. S \cap (1 .. n) = S
      BY <2>1
    <2> QED
      BY <2>1, <2>2
  <1>5. \E x \in S : \A y \in S : x >= y
    BY <1>3, <1>4
  <1> QED
    BY <1>5 DEF Max

-----------------------------------------------------------------------------
(* The folds of the model, one element at a time. *)

Roles == DOMAIN Kinds \cup {"system"}

MessageRecords == [role : Roles, blocks : Seq(Blocks)]

MergeEq(f, s) ==
    f = [S \in SUBSET DOMAIN s |->
            IF S = {} THEN <<>> ELSE MergeOne(f[S \ {Max(S)}], s[Max(S)])]

MergeIter(s) == CHOOSE f : MergeEq(f, s)

\* Merging one message into messages gives messages.
LEMMA MergeOneType ==
    ASSUME NEW s \in Seq(MessageRecords), NEW m \in MessageRecords
    PROVE  MergeOne(s, m) \in Seq(MessageRecords)
  <1>1. CASE s # <<>> /\ Last(s).role = m.role
    <2>1. Len(s) \in 1 .. Len(s) /\ s[Len(s)] \in MessageRecords
      BY <1>1
    <2>2. s[Len(s)].blocks \o m.blocks \in Seq(Blocks)
      BY <2>1 DEF MessageRecords
    <2>3. [s[Len(s)] EXCEPT !.blocks = @ \o m.blocks] \in MessageRecords
      BY <2>1, <2>2 DEF MessageRecords
    <2> QED
      BY <1>1, <2>1, <2>3 DEF MergeOne
  <1>2. CASE ~(s # <<>> /\ Last(s).role = m.role)
    BY <1>2 DEF MergeOne
  <1> QED
    BY <1>1, <1>2

\* What it has after the first k messages.
MergeLoop(s) == [k \in 0 .. Len(s) |-> MergeIter(s)[1 .. k]]

\* The fold is the loop: one message after the other.
LEMMA MergeIterates ==
    ASSUME NEW s \in Seq(MessageRecords)
    PROVE  /\ MergeLoop(s)[0] = <<>>
           /\ \A k \in 0 .. Len(s) - 1 :
                  MergeLoop(s)[k + 1] = MergeOne(MergeLoop(s)[k], s[k + 1])
           /\ Merge(s) = MergeLoop(s)[Len(s)]
  <1> DEFINE D == Seq(MessageRecords)
             g == [a \in D |-> [x \in MessageRecords |-> MergeOne(a, x)]]
             n == Len(s)
             P == SUBSET (1 .. n)
             it == MergeIter(s)
  <1>1. g \in [D -> [MessageRecords -> D]] /\ <<>> \in D
    BY MergeOneType
  <1>2. PICK f \in [P -> D] : IsFold(f, n, g, <<>>, s)
    <2> HIDE DEF D, g
    <2> QED
      BY <1>1, FoldExists DEF D
  <1>3. n \in Nat /\ DOMAIN s = 1 .. n /\ \A i \in 1 .. n : s[i] \in MessageRecords
    OBVIOUS
  <1>4. \A S \in P : S # {} =>
            g[f[S \ {Max(S)}]][s[Max(S)]] = MergeOne(f[S \ {Max(S)}], s[Max(S)])
    <2> TAKE S \in P
    <2> HAVE S # {}
    <2>1. S \ {Max(S)} \in P /\ f[S \ {Max(S)}] \in D
      OBVIOUS
    <2>2. Max(S) \in 1 .. n
      BY <1>3, LargestIn
    <2> HIDE DEF n
    <2> QED
      BY <1>3, <2>1, <2>2
  <1>5. MergeEq(f, s)
    <2> HIDE DEF D, g, n
    <2> QED
      BY <1>2, <1>3, <1>4 DEF IsFold, MergeEq
  <1>6. MergeEq(it, s) /\ Merge(s) = it[1 .. n]
    BY <1>3, <1>5 DEF MergeIter, Merge, MergeEq, FoldLeft, MapThenFoldSet
  <1> HIDE DEF it
  <1>7. \A S \in P : it[S] = IF S = {} THEN <<>>
                             ELSE MergeOne(it[S \ {Max(S)}], s[Max(S)])
    BY <1>3, <1>6 DEF MergeEq
  <1>8. ASSUME NEW k \in 0 .. n - 1
        PROVE  it[1 .. k + 1] = MergeOne(it[1 .. k], s[k + 1])
    <2>1. k \in Nat /\ 1 .. k + 1 \in P
      BY <1>3
    <2> HIDE DEF P
    <2> QED
      BY <1>7, <2>1, LastOfInterval
  <1>9. it[1 .. 0] = <<>>
    <2>1. 1 .. 0 = {} /\ {} \in P
      OBVIOUS
    <2> HIDE DEF P
    <2> QED
      BY <1>7, <2>1
  <1>10. /\ \A k \in 0 .. n : MergeLoop(s)[k] = it[1 .. k]
         /\ 0 \in 0 .. n /\ n \in 0 .. n
         /\ \A k \in 0 .. n - 1 : k \in 0 .. n /\ k + 1 \in 0 .. n
    BY <1>3 DEF MergeLoop, it
  <1> HIDE DEF n
  <1>11. /\ MergeLoop(s)[0] = it[1 .. 0] /\ MergeLoop(s)[n] = it[1 .. n]
         /\ \A k \in 0 .. n - 1 : /\ MergeLoop(s)[k] = it[1 .. k]
                                 /\ MergeLoop(s)[k + 1] = it[1 .. k + 1]
    BY <1>10
  <1> QED
    BY <1>6, <1>8, <1>9, <1>11 DEF n

\* The merge loop of validate, one message at a time.
LEMMA MergeLaw ==
    /\ Merge(<<>>) = <<>>
    /\ \A s \in Seq(MessageRecords), m \in MessageRecords :
           Merge(Append(s, m)) = MergeOne(Merge(s), m)
  <1>1. Merge(<<>>) = <<>>
    <2>1. <<>> \in Seq(MessageRecords) /\ Len(<<>>) = 0
      OBVIOUS
    <2> QED
      BY <2>1, MergeIterates
  <1>2. ASSUME NEW s \in Seq(MessageRecords), NEW m \in MessageRecords
        PROVE  Merge(Append(s, m)) = MergeOne(Merge(s), m)
    <2> DEFINE n == Len(s)
               t == Append(s, m)
    <2>1. /\ n \in Nat /\ t \in Seq(MessageRecords) /\ Len(t) = n + 1
          /\ t[n + 1] = m /\ \A k \in 0 .. n - 1 : t[k + 1] = s[k + 1]
      OBVIOUS
    <2> HIDE DEF n, t
    <2>2. /\ MergeLoop(s)[0] = <<>> /\ Merge(s) = MergeLoop(s)[n]
          /\ \A k \in 0 .. n - 1 :
                 MergeLoop(s)[k + 1] = MergeOne(MergeLoop(s)[k], s[k + 1])
      BY MergeIterates DEF n
    <2>3. /\ MergeLoop(t)[0] = <<>> /\ Merge(t) = MergeLoop(t)[n + 1]
          /\ \A k \in 0 .. n :
                 MergeLoop(t)[k + 1] = MergeOne(MergeLoop(t)[k], t[k + 1])
      BY <2>1, MergeIterates
    <2>4. \A k \in 0 .. n : MergeLoop(s)[k] = MergeLoop(t)[k]
      <3>1. \A k \in 0 .. n - 1 : MergeLoop(s)[k] = MergeLoop(t)[k] =>
                                  MergeLoop(s)[k + 1] = MergeLoop(t)[k + 1]
        BY <2>1, <2>2, <2>3, SMTT(30)
      <3>2. n \in Nat /\ MergeLoop(s)[0] = MergeLoop(t)[0]
        BY <2>1, <2>2, <2>3
      <3> QED
        BY <3>1, <3>2, SameLoop
    <2> QED
      BY <2>1, <2>2, <2>3, <2>4 DEF t
  <1> QED
    BY <1>1, <1>2

-----------------------------------------------------------------------------
(* The state of the pairing loop. *)

BlockIds == {b.id : b \in Blocks}

States == [pending : SUBSET BlockIds, ids : SUBSET BlockIds,
           other : BOOLEAN, ok : BOOLEAN]

CallAll(z, s) == FoldLeft(Call, z, s)

AnswerAll(z, s) == FoldLeft(Answer, z, s)

\* A call keeps the state a state.
LEMMA CallType ==
    ASSUME NEW z \in States, NEW b \in Blocks
    PROVE  Call(z, b) \in States
  <1>1. b.id \in BlockIds
    BY DEF BlockIds
  <1>2. (z.ok /\ b.id \notin z.ids) \in BOOLEAN
    OBVIOUS
  <1> QED
    BY <1>1, <1>2 DEF Call, States

\* A result keeps the state a state.
LEMMA AnswerType ==
    ASSUME NEW z \in States, NEW b \in Blocks
    PROVE  Answer(z, b) \in States
  <1>1. b.id \in BlockIds
    BY DEF BlockIds
  <1>2. (z.ok /\ ~z.other /\ b.id \in z.pending) \in BOOLEAN
    OBVIOUS
  <1> QED
    BY <1>1, <1>2 DEF Answer, States

CallEq(f, z, s) ==
    f = [S \in SUBSET DOMAIN s |->
            IF S = {} THEN z ELSE Call(f[S \ {Max(S)}], s[Max(S)])]

CallIter(z, s) == CHOOSE f : CallEq(f, z, s)

\* What it has after the first k blocks.
CallLoop(z, s) == [k \in 0 .. Len(s) |-> CallIter(z, s)[1 .. k]]

\* The fold is the loop: one block after the other.
LEMMA CallIterates ==
    ASSUME NEW z \in States, NEW s \in Seq(Blocks)
    PROVE  /\ CallLoop(z, s)[0] = z
           /\ \A k \in 0 .. Len(s) - 1 :
                  CallLoop(z, s)[k + 1] = Call(CallLoop(z, s)[k], s[k + 1])
           /\ CallAll(z, s) = CallLoop(z, s)[Len(s)]
  <1> DEFINE D == States
             g == [a \in D |-> [x \in Blocks |-> Call(a, x)]]
             n == Len(s)
             P == SUBSET (1 .. n)
             it == CallIter(z, s)
  <1>1. g \in [D -> [Blocks -> D]] /\ z \in D
    BY CallType
  <1>2. PICK f \in [P -> D] : IsFold(f, n, g, z, s)
    <2> HIDE DEF D, g
    <2> QED
      BY <1>1, FoldExists DEF D
  <1>3. n \in Nat /\ DOMAIN s = 1 .. n /\ \A i \in 1 .. n : s[i] \in Blocks
    OBVIOUS
  <1>4. \A S \in P : S # {} =>
            g[f[S \ {Max(S)}]][s[Max(S)]] = Call(f[S \ {Max(S)}], s[Max(S)])
    <2> TAKE S \in P
    <2> HAVE S # {}
    <2>1. S \ {Max(S)} \in P /\ f[S \ {Max(S)}] \in D
      OBVIOUS
    <2>2. Max(S) \in 1 .. n
      BY <1>3, LargestIn
    <2> HIDE DEF n
    <2> QED
      BY <1>3, <2>1, <2>2
  <1>5. CallEq(f, z, s)
    <2> HIDE DEF D, g, n
    <2> QED
      BY <1>2, <1>3, <1>4 DEF IsFold, CallEq
  <1>6. CallEq(it, z, s) /\ CallAll(z, s) = it[1 .. n]
    BY <1>3, <1>5 DEF CallIter, CallAll, CallEq, FoldLeft, MapThenFoldSet
  <1> HIDE DEF it
  <1>7. \A S \in P : it[S] = IF S = {} THEN z
                             ELSE Call(it[S \ {Max(S)}], s[Max(S)])
    BY <1>3, <1>6 DEF CallEq
  <1>8. ASSUME NEW k \in 0 .. n - 1
        PROVE  it[1 .. k + 1] = Call(it[1 .. k], s[k + 1])
    <2>1. k \in Nat /\ 1 .. k + 1 \in P
      BY <1>3
    <2> HIDE DEF P
    <2> QED
      BY <1>7, <2>1, LastOfInterval
  <1>9. it[1 .. 0] = z
    <2>1. 1 .. 0 = {} /\ {} \in P
      OBVIOUS
    <2> HIDE DEF P
    <2> QED
      BY <1>7, <2>1
  <1>10. /\ \A k \in 0 .. n : CallLoop(z, s)[k] = it[1 .. k]
         /\ 0 \in 0 .. n /\ n \in 0 .. n
         /\ \A k \in 0 .. n - 1 : k \in 0 .. n /\ k + 1 \in 0 .. n
    BY <1>3 DEF CallLoop, it
  <1> HIDE DEF n
  <1>11. /\ CallLoop(z, s)[0] = it[1 .. 0] /\ CallLoop(z, s)[n] = it[1 .. n]
         /\ \A k \in 0 .. n - 1 : /\ CallLoop(z, s)[k] = it[1 .. k]
                                 /\ CallLoop(z, s)[k + 1] = it[1 .. k + 1]
    BY <1>10
  <1> QED
    BY <1>6, <1>8, <1>9, <1>11 DEF n

\* The loop over an assistant turn, one block at a time.
LEMMA CallLaw ==
    ASSUME NEW z \in States
    PROVE  /\ CallAll(z, <<>>) = z
           /\ \A s \in Seq(Blocks), m \in Blocks :
                  CallAll(z, Append(s, m)) = Call(CallAll(z, s), m)
  <1>1. CallAll(z, <<>>) = z
    <2>1. <<>> \in Seq(Blocks) /\ Len(<<>>) = 0
      OBVIOUS
    <2>2. /\ CallLoop(z, <<>>)[0] = z
          /\ CallAll(z, <<>>) = CallLoop(z, <<>>)[Len(<<>>)]
      BY <2>1, CallIterates
    <2> QED
      BY <2>1, <2>2
  <1>2. ASSUME NEW s \in Seq(Blocks), NEW m \in Blocks
        PROVE  CallAll(z, Append(s, m)) = Call(CallAll(z, s), m)
    <2> DEFINE n == Len(s)
               t == Append(s, m)
    <2>1. /\ n \in Nat /\ t \in Seq(Blocks) /\ Len(t) = n + 1
          /\ t[n + 1] = m /\ \A k \in 0 .. n - 1 : t[k + 1] = s[k + 1]
      OBVIOUS
    <2> HIDE DEF n, t
    <2>2. /\ CallLoop(z, s)[0] = z /\ CallAll(z, s) = CallLoop(z, s)[n]
          /\ \A k \in 0 .. n - 1 :
                 CallLoop(z, s)[k + 1] = Call(CallLoop(z, s)[k], s[k + 1])
      BY CallIterates DEF n
    <2>3. /\ CallLoop(z, t)[0] = z /\ CallAll(z, t) = CallLoop(z, t)[n + 1]
          /\ \A k \in 0 .. n :
                 CallLoop(z, t)[k + 1] = Call(CallLoop(z, t)[k], t[k + 1])
      BY <2>1, CallIterates
    <2>4. \A k \in 0 .. n : CallLoop(z, s)[k] = CallLoop(z, t)[k]
      <3>1. \A k \in 0 .. n - 1 : CallLoop(z, s)[k] = CallLoop(z, t)[k] =>
                                  CallLoop(z, s)[k + 1] = CallLoop(z, t)[k + 1]
        BY <2>1, <2>2, <2>3
      <3>2. n \in Nat /\ CallLoop(z, s)[0] = CallLoop(z, t)[0]
        BY <2>1, <2>2, <2>3
      <3> QED
        BY <3>1, <3>2, SameLoop
    <2> QED
      BY <2>1, <2>2, <2>3, <2>4 DEF t
  <1> QED
    BY <1>1, <1>2

AnswerEq(f, z, s) ==
    f = [S \in SUBSET DOMAIN s |->
            IF S = {} THEN z ELSE Answer(f[S \ {Max(S)}], s[Max(S)])]

AnswerIter(z, s) == CHOOSE f : AnswerEq(f, z, s)

\* What it has after the first k blocks.
AnswerLoop(z, s) == [k \in 0 .. Len(s) |-> AnswerIter(z, s)[1 .. k]]

\* The fold is the loop: one block after the other.
LEMMA AnswerIterates ==
    ASSUME NEW z \in States, NEW s \in Seq(Blocks)
    PROVE  /\ AnswerLoop(z, s)[0] = z
           /\ \A k \in 0 .. Len(s) - 1 :
                  AnswerLoop(z, s)[k + 1] = Answer(AnswerLoop(z, s)[k], s[k + 1])
           /\ AnswerAll(z, s) = AnswerLoop(z, s)[Len(s)]
  <1> DEFINE D == States
             g == [a \in D |-> [x \in Blocks |-> Answer(a, x)]]
             n == Len(s)
             P == SUBSET (1 .. n)
             it == AnswerIter(z, s)
  <1>1. g \in [D -> [Blocks -> D]] /\ z \in D
    BY AnswerType
  <1>2. PICK f \in [P -> D] : IsFold(f, n, g, z, s)
    <2> HIDE DEF D, g
    <2> QED
      BY <1>1, FoldExists DEF D
  <1>3. n \in Nat /\ DOMAIN s = 1 .. n /\ \A i \in 1 .. n : s[i] \in Blocks
    OBVIOUS
  <1>4. \A S \in P : S # {} =>
            g[f[S \ {Max(S)}]][s[Max(S)]] = Answer(f[S \ {Max(S)}], s[Max(S)])
    <2> TAKE S \in P
    <2> HAVE S # {}
    <2>1. S \ {Max(S)} \in P /\ f[S \ {Max(S)}] \in D
      OBVIOUS
    <2>2. Max(S) \in 1 .. n
      BY <1>3, LargestIn
    <2> HIDE DEF n
    <2> QED
      BY <1>3, <2>1, <2>2
  <1>5. AnswerEq(f, z, s)
    <2> HIDE DEF D, g, n
    <2> QED
      BY <1>2, <1>3, <1>4 DEF IsFold, AnswerEq
  <1>6. AnswerEq(it, z, s) /\ AnswerAll(z, s) = it[1 .. n]
    BY <1>3, <1>5 DEF AnswerIter, AnswerAll, AnswerEq, FoldLeft, MapThenFoldSet
  <1> HIDE DEF it
  <1>7. \A S \in P : it[S] = IF S = {} THEN z
                             ELSE Answer(it[S \ {Max(S)}], s[Max(S)])
    BY <1>3, <1>6 DEF AnswerEq
  <1>8. ASSUME NEW k \in 0 .. n - 1
        PROVE  it[1 .. k + 1] = Answer(it[1 .. k], s[k + 1])
    <2>1. k \in Nat /\ 1 .. k + 1 \in P
      BY <1>3
    <2> HIDE DEF P
    <2> QED
      BY <1>7, <2>1, LastOfInterval
  <1>9. it[1 .. 0] = z
    <2>1. 1 .. 0 = {} /\ {} \in P
      OBVIOUS
    <2> HIDE DEF P
    <2> QED
      BY <1>7, <2>1
  <1>10. /\ \A k \in 0 .. n : AnswerLoop(z, s)[k] = it[1 .. k]
         /\ 0 \in 0 .. n /\ n \in 0 .. n
         /\ \A k \in 0 .. n - 1 : k \in 0 .. n /\ k + 1 \in 0 .. n
    BY <1>3 DEF AnswerLoop, it
  <1> HIDE DEF n
  <1>11. /\ AnswerLoop(z, s)[0] = it[1 .. 0] /\ AnswerLoop(z, s)[n] = it[1 .. n]
         /\ \A k \in 0 .. n - 1 : /\ AnswerLoop(z, s)[k] = it[1 .. k]
                                 /\ AnswerLoop(z, s)[k + 1] = it[1 .. k + 1]
    BY <1>10
  <1> QED
    BY <1>6, <1>8, <1>9, <1>11 DEF n

\* The loop over a user turn, one block at a time.
LEMMA AnswerLaw ==
    ASSUME NEW z \in States
    PROVE  /\ AnswerAll(z, <<>>) = z
           /\ \A s \in Seq(Blocks), m \in Blocks :
                  AnswerAll(z, Append(s, m)) = Answer(AnswerAll(z, s), m)
  <1>1. AnswerAll(z, <<>>) = z
    <2>1. <<>> \in Seq(Blocks) /\ Len(<<>>) = 0
      OBVIOUS
    <2>2. /\ AnswerLoop(z, <<>>)[0] = z
          /\ AnswerAll(z, <<>>) = AnswerLoop(z, <<>>)[Len(<<>>)]
      BY <2>1, AnswerIterates
    <2> QED
      BY <2>1, <2>2
  <1>2. ASSUME NEW s \in Seq(Blocks), NEW m \in Blocks
        PROVE  AnswerAll(z, Append(s, m)) = Answer(AnswerAll(z, s), m)
    <2> DEFINE n == Len(s)
               t == Append(s, m)
    <2>1. /\ n \in Nat /\ t \in Seq(Blocks) /\ Len(t) = n + 1
          /\ t[n + 1] = m /\ \A k \in 0 .. n - 1 : t[k + 1] = s[k + 1]
      OBVIOUS
    <2> HIDE DEF n, t
    <2>2. /\ AnswerLoop(z, s)[0] = z /\ AnswerAll(z, s) = AnswerLoop(z, s)[n]
          /\ \A k \in 0 .. n - 1 :
                 AnswerLoop(z, s)[k + 1] = Answer(AnswerLoop(z, s)[k], s[k + 1])
      BY AnswerIterates DEF n
    <2>3. /\ AnswerLoop(z, t)[0] = z /\ AnswerAll(z, t) = AnswerLoop(z, t)[n + 1]
          /\ \A k \in 0 .. n :
                 AnswerLoop(z, t)[k + 1] = Answer(AnswerLoop(z, t)[k], t[k + 1])
      BY <2>1, AnswerIterates
    <2>4. \A k \in 0 .. n : AnswerLoop(z, s)[k] = AnswerLoop(z, t)[k]
      <3>1. \A k \in 0 .. n - 1 : AnswerLoop(z, s)[k] = AnswerLoop(z, t)[k] =>
                                  AnswerLoop(z, s)[k + 1] = AnswerLoop(z, t)[k + 1]
        BY <2>1, <2>2, <2>3
      <3>2. n \in Nat /\ AnswerLoop(z, s)[0] = AnswerLoop(z, t)[0]
        BY <2>1, <2>2, <2>3
      <3> QED
        BY <3>1, <3>2, SameLoop
    <2> QED
      BY <2>1, <2>2, <2>3, <2>4 DEF t
  <1> QED
    BY <1>1, <1>2

Paired(s) == FoldLeft(PairTurn, NothingPending, s)

\* The two folds over the blocks of a turn stay in the states of the loop.
LEMMA TurnTypes ==
    ASSUME NEW z \in States, NEW s \in Seq(Blocks)
    PROVE  CallAll(z, s) \in States /\ AnswerAll(z, s) \in States
  <1> DEFINE S == {t \in Seq(Blocks) : CallAll(z, t) \in States /\ AnswerAll(z, t) \in States}
  <1>1. <<>> \in S
    BY CallLaw, AnswerLaw
  <1>2. ASSUME NEW t \in Seq(Blocks), NEW b \in Blocks, t \in S
        PROVE  Append(t, b) \in S
    <2>1. /\ CallAll(z, Append(t, b)) = Call(CallAll(z, t), b)
          /\ AnswerAll(z, Append(t, b)) = Answer(AnswerAll(z, t), b)
      BY CallLaw, AnswerLaw
    <2>2. Append(t, b) \in Seq(Blocks)
      OBVIOUS
    <2> QED
      BY <1>2, <2>1, <2>2, CallType, AnswerType
  <1> HIDE DEF S
  <1>3. Seq(Blocks) \subseteq S
    BY <1>1, <1>2, Growing
  <1> QED
    BY <1>3 DEF S

\* A turn keeps the state a state.
LEMMA PairTurnType ==
    ASSUME NEW z \in States, NEW m \in MessageRecords
    PROVE  PairTurn(z, m) \in States
  <1>1. m.blocks \in Seq(Blocks)
    BY DEF MessageRecords
  <1>2. CASE m.role = "assistant"
    <2> DEFINE y == [z EXCEPT !.ok = @ /\ z.pending = {}]
    <2>1. y \in States
      <3>1. (z.ok /\ z.pending = {}) \in BOOLEAN
        OBVIOUS
      <3> QED
        BY <3>1 DEF States
    <2> HIDE DEF y
    <2>2. CallAll(y, m.blocks) \in States
      BY <1>1, <2>1, TurnTypes
    <2> QED
      BY <1>2, <2>2 DEF PairTurn, CallAll, y
  <1>3. CASE m.role # "assistant"
    <2> DEFINE y == [z EXCEPT !.other = FALSE]
               t == AnswerAll(y, m.blocks)
    <2>1. y \in States
      BY DEF States
    <2> HIDE DEF y
    <2>2. t \in States
      BY <1>1, <2>1, TurnTypes
    <2>3. PairTurn(z, m) = [t EXCEPT !.ok = @ /\ t.pending = {}]
      BY <1>3 DEF PairTurn, AnswerAll, y
    <2> HIDE DEF t
    <2>4. (t.ok /\ t.pending = {}) \in BOOLEAN
      OBVIOUS
    <2> QED
      BY <2>2, <2>3, <2>4 DEF States
  <1> QED
    BY <1>2, <1>3

\* The loop starts in a state.
LEMMA NothingPendingType == NothingPending \in States
  BY DEF NothingPending, States

PairEq(f, s) ==
    f = [S \in SUBSET DOMAIN s |->
            IF S = {} THEN NothingPending ELSE PairTurn(f[S \ {Max(S)}], s[Max(S)])]

PairIter(s) == CHOOSE f : PairEq(f, s)

\* What it has after the first k messages.
PairLoop(s) == [k \in 0 .. Len(s) |-> PairIter(s)[1 .. k]]

\* The fold is the loop: one turn after the other.
LEMMA PairTurnIterates ==
    ASSUME NEW s \in Seq(MessageRecords)
    PROVE  /\ PairLoop(s)[0] = NothingPending
           /\ \A k \in 0 .. Len(s) - 1 :
                  PairLoop(s)[k + 1] = PairTurn(PairLoop(s)[k], s[k + 1])
           /\ Paired(s) = PairLoop(s)[Len(s)]
  <1> DEFINE D == States
             g == [a \in D |-> [x \in MessageRecords |-> PairTurn(a, x)]]
             n == Len(s)
             P == SUBSET (1 .. n)
             it == PairIter(s)
  <1>1. g \in [D -> [MessageRecords -> D]] /\ NothingPending \in D
    BY PairTurnType, NothingPendingType
  <1>2. PICK f \in [P -> D] : IsFold(f, n, g, NothingPending, s)
    <2> HIDE DEF D, g
    <2> QED
      BY <1>1, FoldExists DEF D
  <1>3. n \in Nat /\ DOMAIN s = 1 .. n /\ \A i \in 1 .. n : s[i] \in MessageRecords
    OBVIOUS
  <1>4. \A S \in P : S # {} =>
            g[f[S \ {Max(S)}]][s[Max(S)]] = PairTurn(f[S \ {Max(S)}], s[Max(S)])
    <2> TAKE S \in P
    <2> HAVE S # {}
    <2>1. S \ {Max(S)} \in P /\ f[S \ {Max(S)}] \in D
      OBVIOUS
    <2>2. Max(S) \in 1 .. n
      BY <1>3, LargestIn
    <2> HIDE DEF n
    <2> QED
      BY <1>3, <2>1, <2>2
  <1>5. PairEq(f, s)
    <2> HIDE DEF D, g, n
    <2> QED
      BY <1>2, <1>3, <1>4 DEF IsFold, PairEq
  <1>6. PairEq(it, s) /\ Paired(s) = it[1 .. n]
    BY <1>3, <1>5 DEF PairIter, Paired, PairEq, FoldLeft, MapThenFoldSet
  <1> HIDE DEF it
  <1>7. \A S \in P : it[S] = IF S = {} THEN NothingPending
                             ELSE PairTurn(it[S \ {Max(S)}], s[Max(S)])
    BY <1>3, <1>6 DEF PairEq
  <1>8. ASSUME NEW k \in 0 .. n - 1
        PROVE  it[1 .. k + 1] = PairTurn(it[1 .. k], s[k + 1])
    <2>1. k \in Nat /\ 1 .. k + 1 \in P
      BY <1>3
    <2> HIDE DEF P
    <2> QED
      BY <1>7, <2>1, LastOfInterval
  <1>9. it[1 .. 0] = NothingPending
    <2>1. 1 .. 0 = {} /\ {} \in P
      OBVIOUS
    <2> HIDE DEF P
    <2> QED
      BY <1>7, <2>1
  <1>10. /\ \A k \in 0 .. n : PairLoop(s)[k] = it[1 .. k]
         /\ 0 \in 0 .. n /\ n \in 0 .. n
         /\ \A k \in 0 .. n - 1 : k \in 0 .. n /\ k + 1 \in 0 .. n
    BY <1>3 DEF PairLoop, it
  <1> HIDE DEF n
  <1>11. /\ PairLoop(s)[0] = it[1 .. 0] /\ PairLoop(s)[n] = it[1 .. n]
         /\ \A k \in 0 .. n - 1 : /\ PairLoop(s)[k] = it[1 .. k]
                                 /\ PairLoop(s)[k + 1] = it[1 .. k + 1]
    BY <1>10
  <1> QED
    BY <1>6, <1>8, <1>9, <1>11 DEF n

\* The pairing loop of validate, one turn at a time.
LEMMA PairTurnLaw ==
    /\ Paired(<<>>) = NothingPending
    /\ \A s \in Seq(MessageRecords), m \in MessageRecords :
           Paired(Append(s, m)) = PairTurn(Paired(s), m)
  <1>1. Paired(<<>>) = NothingPending
    <2>1. <<>> \in Seq(MessageRecords) /\ Len(<<>>) = 0
      OBVIOUS
    <2> QED
      BY <2>1, PairTurnIterates
  <1>2. ASSUME NEW s \in Seq(MessageRecords), NEW m \in MessageRecords
        PROVE  Paired(Append(s, m)) = PairTurn(Paired(s), m)
    <2> DEFINE n == Len(s)
               t == Append(s, m)
    <2>1. /\ n \in Nat /\ t \in Seq(MessageRecords) /\ Len(t) = n + 1
          /\ t[n + 1] = m /\ \A k \in 0 .. n - 1 : t[k + 1] = s[k + 1]
      OBVIOUS
    <2> HIDE DEF n, t
    <2>2. /\ PairLoop(s)[0] = NothingPending /\ Paired(s) = PairLoop(s)[n]
          /\ \A k \in 0 .. n - 1 :
                 PairLoop(s)[k + 1] = PairTurn(PairLoop(s)[k], s[k + 1])
      BY PairTurnIterates DEF n
    <2>3. /\ PairLoop(t)[0] = NothingPending /\ Paired(t) = PairLoop(t)[n + 1]
          /\ \A k \in 0 .. n :
                 PairLoop(t)[k + 1] = PairTurn(PairLoop(t)[k], t[k + 1])
      BY <2>1, PairTurnIterates
    <2>4. \A k \in 0 .. n : PairLoop(s)[k] = PairLoop(t)[k]
      <3>1. \A k \in 0 .. n - 1 : PairLoop(s)[k] = PairLoop(t)[k] =>
                                  PairLoop(s)[k + 1] = PairLoop(t)[k + 1]
        BY <2>1, <2>2, <2>3
      <3>2. n \in Nat /\ PairLoop(s)[0] = PairLoop(t)[0]
        BY <2>1, <2>2, <2>3
      <3> QED
        BY <3>1, <3>2, SameLoop
    <2> QED
      BY <2>1, <2>2, <2>3, <2>4 DEF t
  <1> QED
    BY <1>1, <1>2


-----------------------------------------------------------------------------
(* The transcript. *)

Rows == [parent : Nat \cup {None}, stop : {None, "tool_use", "end_turn"},
         role : Roles, blocks : Seq(Blocks)]

Histories == [rows : Seq(Rows), parent : Nat \cup {None}, resumeAt : Nat \cup {None}]

Seeded(s) == FoldLeft(SeedRow, NoHistory, s)

\* A row more keeps the transcript a transcript.
LEMMA SeedRowType ==
    ASSUME NEW h \in Histories, NEW m \in MessageRecords
    PROVE  SeedRow(h, m) \in Histories
  <1>1. StopReason(m) \in {None, "tool_use", "end_turn"}
    BY DEF StopReason
  <1> DEFINE row == [parent |-> h.parent, stop |-> StopReason(m),
                     role |-> m.role, blocks |-> m.blocks]
  <1>2. row \in Rows
    BY <1>1 DEF Rows, Histories, MessageRecords
  <1> HIDE DEF row
  <1>3. Append(h.rows, row) \in Seq(Rows) /\ Len(h.rows) + 1 \in Nat
    BY <1>2 DEF Histories
  <1> QED
    BY <1>3 DEF SeedRow, Histories, row

\* The empty transcript is one.
LEMMA NoHistoryType == NoHistory \in Histories
  BY DEF NoHistory, Histories

SeedEq(f, s) ==
    f = [S \in SUBSET DOMAIN s |->
            IF S = {} THEN NoHistory ELSE SeedRow(f[S \ {Max(S)}], s[Max(S)])]

SeedIter(s) == CHOOSE f : SeedEq(f, s)

\* What it has after the first k messages.
SeedLoop(s) == [k \in 0 .. Len(s) |-> SeedIter(s)[1 .. k]]

\* The fold is the loop: one turn after the other.
LEMMA SeedRowIterates ==
    ASSUME NEW s \in Seq(MessageRecords)
    PROVE  /\ SeedLoop(s)[0] = NoHistory
           /\ \A k \in 0 .. Len(s) - 1 :
                  SeedLoop(s)[k + 1] = SeedRow(SeedLoop(s)[k], s[k + 1])
           /\ Seeded(s) = SeedLoop(s)[Len(s)]
  <1> DEFINE D == Histories
             g == [a \in D |-> [x \in MessageRecords |-> SeedRow(a, x)]]
             n == Len(s)
             P == SUBSET (1 .. n)
             it == SeedIter(s)
  <1>1. g \in [D -> [MessageRecords -> D]] /\ NoHistory \in D
    BY SeedRowType, NoHistoryType
  <1>2. PICK f \in [P -> D] : IsFold(f, n, g, NoHistory, s)
    <2> HIDE DEF D, g
    <2> QED
      BY <1>1, FoldExists DEF D
  <1>3. n \in Nat /\ DOMAIN s = 1 .. n /\ \A i \in 1 .. n : s[i] \in MessageRecords
    OBVIOUS
  <1>4. \A S \in P : S # {} =>
            g[f[S \ {Max(S)}]][s[Max(S)]] = SeedRow(f[S \ {Max(S)}], s[Max(S)])
    <2> TAKE S \in P
    <2> HAVE S # {}
    <2>1. S \ {Max(S)} \in P /\ f[S \ {Max(S)}] \in D
      OBVIOUS
    <2>2. Max(S) \in 1 .. n
      BY <1>3, LargestIn
    <2> HIDE DEF n
    <2> QED
      BY <1>3, <2>1, <2>2
  <1>5. SeedEq(f, s)
    <2> HIDE DEF D, g, n
    <2> QED
      BY <1>2, <1>3, <1>4 DEF IsFold, SeedEq
  <1>6. SeedEq(it, s) /\ Seeded(s) = it[1 .. n]
    BY <1>3, <1>5 DEF SeedIter, Seeded, SeedEq, FoldLeft, MapThenFoldSet
  <1> HIDE DEF it
  <1>7. \A S \in P : it[S] = IF S = {} THEN NoHistory
                             ELSE SeedRow(it[S \ {Max(S)}], s[Max(S)])
    BY <1>3, <1>6 DEF SeedEq
  <1>8. ASSUME NEW k \in 0 .. n - 1
        PROVE  it[1 .. k + 1] = SeedRow(it[1 .. k], s[k + 1])
    <2>1. k \in Nat /\ 1 .. k + 1 \in P
      BY <1>3
    <2> HIDE DEF P
    <2> QED
      BY <1>7, <2>1, LastOfInterval
  <1>9. it[1 .. 0] = NoHistory
    <2>1. 1 .. 0 = {} /\ {} \in P
      OBVIOUS
    <2> HIDE DEF P
    <2> QED
      BY <1>7, <2>1
  <1>10. /\ \A k \in 0 .. n : SeedLoop(s)[k] = it[1 .. k]
         /\ 0 \in 0 .. n /\ n \in 0 .. n
         /\ \A k \in 0 .. n - 1 : k \in 0 .. n /\ k + 1 \in 0 .. n
    BY <1>3 DEF SeedLoop, it
  <1> HIDE DEF n
  <1>11. /\ SeedLoop(s)[0] = it[1 .. 0] /\ SeedLoop(s)[n] = it[1 .. n]
         /\ \A k \in 0 .. n - 1 : /\ SeedLoop(s)[k] = it[1 .. k]
                                 /\ SeedLoop(s)[k + 1] = it[1 .. k + 1]
    BY <1>10
  <1> QED
    BY <1>6, <1>8, <1>9, <1>11 DEF n

\* The loop of seed_history, one turn at a time.
LEMMA SeedRowLaw ==
    /\ Seeded(<<>>) = NoHistory
    /\ \A s \in Seq(MessageRecords), m \in MessageRecords :
           Seeded(Append(s, m)) = SeedRow(Seeded(s), m)
  <1>1. Seeded(<<>>) = NoHistory
    <2>1. <<>> \in Seq(MessageRecords) /\ Len(<<>>) = 0
      OBVIOUS
    <2> QED
      BY <2>1, SeedRowIterates
  <1>2. ASSUME NEW s \in Seq(MessageRecords), NEW m \in MessageRecords
        PROVE  Seeded(Append(s, m)) = SeedRow(Seeded(s), m)
    <2> DEFINE n == Len(s)
               t == Append(s, m)
    <2>1. /\ n \in Nat /\ t \in Seq(MessageRecords) /\ Len(t) = n + 1
          /\ t[n + 1] = m /\ \A k \in 0 .. n - 1 : t[k + 1] = s[k + 1]
      OBVIOUS
    <2> HIDE DEF n, t
    <2>2. /\ SeedLoop(s)[0] = NoHistory /\ Seeded(s) = SeedLoop(s)[n]
          /\ \A k \in 0 .. n - 1 :
                 SeedLoop(s)[k + 1] = SeedRow(SeedLoop(s)[k], s[k + 1])
      BY SeedRowIterates DEF n
    <2>3. /\ SeedLoop(t)[0] = NoHistory /\ Seeded(t) = SeedLoop(t)[n + 1]
          /\ \A k \in 0 .. n :
                 SeedLoop(t)[k + 1] = SeedRow(SeedLoop(t)[k], t[k + 1])
      BY <2>1, SeedRowIterates
    <2>4. \A k \in 0 .. n : SeedLoop(s)[k] = SeedLoop(t)[k]
      <3>1. \A k \in 0 .. n - 1 : SeedLoop(s)[k] = SeedLoop(t)[k] =>
                                  SeedLoop(s)[k + 1] = SeedLoop(t)[k + 1]
        BY <2>1, <2>2, <2>3
      <3>2. n \in Nat /\ SeedLoop(s)[0] = SeedLoop(t)[0]
        BY <2>1, <2>2, <2>3
      <3> QED
        BY <3>1, <3>2, SameLoop
    <2> QED
      BY <2>1, <2>2, <2>3, <2>4 DEF t
  <1> QED
    BY <1>1, <1>2


-----------------------------------------------------------------------------
(* FlattenSeq, one sequence at a time. *)

FlatEq(f, ss) ==
    f = [i \in 1 .. Len(ss) |-> IF i = 1 THEN ss[i] ELSE f[i - 1] \o ss[i]]

FlatIter(ss) == CHOOSE f : FlatEq(f, ss)

\* The function FlattenSeq chooses exists.
LEMMA FlatExists ==
    ASSUME NEW T, NEW ss \in Seq(Seq(T))
    PROVE  \E f \in [1 .. Len(ss) -> Seq(T)] : FlatEq(f, ss)
  <1> DEFINE S == {s \in Seq(Seq(T)) : \E f \in [1 .. Len(s) -> Seq(T)] : FlatEq(f, s)}
  <1>1. <<>> \in S
    <2> DEFINE f == [i \in 1 .. 0 |-> <<>>]
    <2>1. f \in [1 .. 0 -> Seq(T)]
      OBVIOUS
    <2>2. \A i \in 1 .. 0 : FALSE
      OBVIOUS
    <2> DEFINE e == <<>>
    <2>3. f = [i \in 1 .. 0 |-> IF i = 1 THEN e[i] ELSE f[i - 1] \o e[i]]
      BY <2>2
    <2>4. e \in Seq(Seq(T)) /\ Len(e) = 0
      OBVIOUS
    <2> HIDE DEF f, e
    <2>5. FlatEq(f, e)
      BY <2>3, <2>4 DEF FlatEq
    <2> QED
      BY <2>1, <2>4, <2>5 DEF e
  <1>2. ASSUME NEW s \in Seq(Seq(T)), NEW x \in Seq(T), s \in S
        PROVE  Append(s, x) \in S
    <2> DEFINE n == Len(s)
               t == Append(s, x)
    <2>1. PICK f \in [1 .. n -> Seq(T)] : FlatEq(f, s)
      BY <1>2
    <2>2. /\ n \in Nat /\ t \in Seq(Seq(T)) /\ Len(t) = n + 1
          /\ t[n + 1] = x /\ \A i \in 1 .. n : t[i] = s[i]
      OBVIOUS
    <2> DEFINE h == [i \in 1 .. n + 1 |->
                        IF i = n + 1 THEN (IF n = 0 THEN x ELSE f[n] \o x) ELSE f[i]]
    <2>3. \A i \in 1 .. n : h[i] = f[i] /\ f[i] \in Seq(T)
      <3> TAKE i \in 1 .. n
      <3>1. i \in 1 .. n + 1 /\ i # n + 1
        BY <2>2
      <3> QED
        BY <3>1
    <2>4. h[n + 1] = (IF n = 0 THEN x ELSE f[n] \o x) /\ n + 1 \in 1 .. n + 1
      BY <2>2
    <2>5. n # 0 => n \in 1 .. n
      BY <2>2
    <2>6. \A i \in 1 .. n : f[i] = IF i = 1 THEN s[i] ELSE f[i - 1] \o s[i]
      BY <2>1 DEF FlatEq
    <2>7. DOMAIN h = 1 .. n + 1
      OBVIOUS
    <2> HIDE DEF h, t
    <2>8. ASSUME NEW i \in 1 .. n + 1
          PROVE  /\ h[i] \in Seq(T)
                 /\ h[i] = IF i = 1 THEN t[i] ELSE h[i - 1] \o t[i]
      <3>1. CASE i = n + 1
        <4>1. CASE n = 0
          BY <2>2, <2>4, <3>1, <4>1
        <4>2. CASE n # 0
          <5>1. n \in 1 .. n /\ h[n] = f[n] /\ h[n] \in Seq(T) /\ i # 1
            BY <2>2, <2>3, <2>5, <3>1, <4>2
          <5>2. h[i] = h[n] \o x /\ t[i] = x /\ i - 1 = n
            BY <2>2, <2>4, <3>1, <4>2, <5>1
          <5>3. h[n] \o x \in Seq(T)
            BY <5>1
          <5> QED
            BY <5>1, <5>2, <5>3
        <4> QED
          BY <4>1, <4>2
      <3>2. CASE i # n + 1
        <4>1. i \in 1 .. n /\ (i # 1 => i - 1 \in 1 .. n)
          BY <2>2, <3>2
        <4> QED
          BY <2>2, <2>3, <2>6, <4>1
      <3> QED
        BY <3>1, <3>2
    <2>9. h \in [1 .. n + 1 -> Seq(T)]
      <3>1. h = [i \in 1 .. n + 1 |-> h[i]]
        BY <2>7 DEF h
      <3> QED
        BY <2>8, <3>1
    <2>10. FlatEq(h, t)
      <3>1. h = [i \in 1 .. n + 1 |-> IF i = 1 THEN t[i] ELSE h[i - 1] \o t[i]]
        BY <2>8, <2>9
      <3> QED
        BY <2>2, <3>1 DEF FlatEq
    <2> QED
      BY <2>2, <2>9, <2>10 DEF t
  <1> HIDE DEF S
  <1>3. Seq(Seq(T)) \subseteq S
    BY <1>1, <1>2, Growing
  <1> QED
    BY <1>3 DEF S

\* It takes one sequence after the other.
LEMMA FlattenSteps ==
    ASSUME NEW T, NEW ss \in Seq(Seq(T)), ss # <<>>
    PROVE  /\ FlatIter(ss)[1] = ss[1]
           /\ \A k \in 1 .. Len(ss) - 1 : FlatIter(ss)[k + 1] = FlatIter(ss)[k] \o ss[k + 1]
           /\ FlattenSeq(ss) = FlatIter(ss)[Len(ss)]
  <1>1. Len(ss) \in Nat /\ Len(ss) # 0
    OBVIOUS
  <1>2. FlatEq(FlatIter(ss), ss) /\ FlattenSeq(ss) = FlatIter(ss)[Len(ss)]
    <2>1. \E f : FlatEq(f, ss)
      BY FlatExists
    <2>2. FlatEq(FlatIter(ss), ss)
      BY <2>1 DEF FlatIter
    <2>3. FlattenSeq(ss) = FlatIter(ss)[Len(ss)]
      BY <1>1 DEF FlattenSeq, FlatIter, FlatEq
    <2> QED
      BY <2>2, <2>3
  <1>3. \A i \in 1 .. Len(ss) : FlatIter(ss)[i] =
            IF i = 1 THEN ss[i] ELSE FlatIter(ss)[i - 1] \o ss[i]
    BY <1>2 DEF FlatEq
  <1>4. \A k \in 1 .. Len(ss) - 1 :
            k + 1 \in 1 .. Len(ss) /\ k + 1 # 1 /\ (k + 1) - 1 = k
    BY <1>1
  <1>5. 1 \in 1 .. Len(ss)
    BY <1>1
  <1> QED
    BY <1>2, <1>3, <1>4, <1>5

\* FlattenSeq, one sequence at a time.
LEMMA FlattenLaw ==
    ASSUME NEW T
    PROVE  /\ FlattenSeq(<<>>) = <<>>
           /\ \A ss \in Seq(Seq(T)), x \in Seq(T) :
                  FlattenSeq(Append(ss, x)) = FlattenSeq(ss) \o x
           /\ \A ss \in Seq(Seq(T)) : FlattenSeq(ss) \in Seq(T)
  <1>1. FlattenSeq(<<>>) = <<>>
    BY DEF FlattenSeq
  <1>2. ASSUME NEW ss \in Seq(Seq(T)), NEW x \in Seq(T)
        PROVE  FlattenSeq(Append(ss, x)) = FlattenSeq(ss) \o x
    <2> DEFINE n == Len(ss)
               t == Append(ss, x)
               f == FlatIter(ss)
               h == FlatIter(t)
    <2>1. /\ n \in Nat /\ t \in Seq(Seq(T)) /\ t # <<>> /\ Len(t) = n + 1
          /\ t[n + 1] = x /\ \A k \in 1 .. n : t[k] = ss[k]
      <3>1. t \in Seq(Seq(T)) /\ Len(t) = n + 1
        OBVIOUS
      <3>2. n \in Nat /\ t[n + 1] = x /\ \A k \in 1 .. n : t[k] = ss[k]
        OBVIOUS
      <3> HIDE DEF t
      <3> QED
        BY <3>1, <3>2
    <2> HIDE DEF t, f, h
    <2>2. /\ h[1] = t[1] /\ FlattenSeq(t) = h[n + 1]
          /\ \A k \in 1 .. n : h[k + 1] = h[k] \o t[k + 1]
      <3>1. (n + 1) - 1 = n
        BY <2>1
      <3> HIDE DEF n
      <3> QED
        BY <2>1, <3>1, FlattenSteps DEF h
    <2>3. CASE ss = <<>>
      <3>1. n = 0 /\ FlattenSeq(t) = x
        BY <2>1, <2>2, <2>3
      <3> QED
        BY <1>1, <2>3, <3>1 DEF t
    <2>4. CASE ss # <<>>
      <3>1. /\ f[1] = ss[1] /\ FlattenSeq(ss) = f[n]
            /\ \A k \in 1 .. n - 1 : f[k + 1] = f[k] \o ss[k + 1]
        BY <2>4, FlattenSteps DEF f
      <3>2. n - 1 \in Nat /\ n \in 1 .. n /\ n - 1 \in 0 .. n - 1
        BY <2>1, <2>4
      <3> DEFINE v == [k \in 0 .. n - 1 |-> f[k + 1]]
                 w == [k \in 0 .. n - 1 |-> h[k + 1]]
      <3>3. v[0] = w[0]
        BY <2>1, <2>2, <3>1, <3>2
      <3>4. \A k \in 0 .. (n - 1) - 1 : v[k] = w[k] => v[k + 1] = w[k + 1]
        <4> TAKE k \in 0 .. (n - 1) - 1
        <4>1. /\ k + 1 \in 1 .. n - 1 /\ k + 1 \in 1 .. n /\ (k + 1) + 1 \in 1 .. n
              /\ k \in 0 .. n - 1 /\ k + 1 \in 0 .. n - 1
          BY <2>1
        <4>2. /\ f[(k + 1) + 1] = f[k + 1] \o ss[(k + 1) + 1]
              /\ h[(k + 1) + 1] = h[k + 1] \o ss[(k + 1) + 1]
          BY <2>1, <2>2, <3>1, <4>1
        <4> QED
          BY <4>1, <4>2
      <3>5. \A k \in 0 .. n - 1 : v[k] = w[k]
        <4> HIDE DEF n, v, w
        <4> QED
          BY <3>2, <3>3, <3>4, SameLoop
      <3>6. f[n] = h[n]
        <4>1. v[n - 1] = w[n - 1]
          BY <3>2, <3>5
        <4>2. (n - 1) + 1 = n
          BY <2>1
        <4>3. v[n - 1] = f[(n - 1) + 1] /\ w[n - 1] = h[(n - 1) + 1]
          BY <3>2
        <4> HIDE DEF v, w
        <4> QED
          BY <4>1, <4>2, <4>3
      <3>7. h[n + 1] = h[n] \o x
        BY <2>1, <2>2, <3>2
      <3> QED
        BY <2>2, <3>1, <3>6, <3>7 DEF t
    <2> QED
      BY <2>3, <2>4
  <1> DEFINE S == {ss \in Seq(Seq(T)) : FlattenSeq(ss) \in Seq(T)}
  <1>3. <<>> \in S
    <2>1. <<>> \in Seq(Seq(T)) /\ <<>> \in Seq(T)
      OBVIOUS
    <2> QED
      BY <1>1, <2>1
  <1>4. ASSUME NEW ss \in Seq(Seq(T)), NEW x \in Seq(T), ss \in S
        PROVE  Append(ss, x) \in S
    <2>1. FlattenSeq(ss) \o x \in Seq(T) /\ Append(ss, x) \in Seq(Seq(T))
      BY <1>4
    <2> QED
      BY <1>2, <2>1
  <1>5. Seq(Seq(T)) \subseteq S
    <2> HIDE DEF S
    <2> QED
      BY <1>3, <1>4, Growing
  <1> QED
    BY <1>1, <1>2, <1>5

\* The blocks of some messages, in order.
Content(s) == FlattenSeq([i \in DOMAIN s |-> s[i].blocks])

\* The blocks of messages, one message at a time.
LEMMA ContentLaw ==
    /\ Content(<<>>) = <<>>
    /\ \A s \in Seq(MessageRecords), m \in MessageRecords :
           Content(Append(s, m)) = Content(s) \o m.blocks
    /\ \A s \in Seq(MessageRecords) : Content(s) \in Seq(Blocks)
  <1>1. Content(<<>>) = <<>>
    <2>1. [i \in DOMAIN <<>> |-> <<>>[i].blocks] = <<>>
      OBVIOUS
    <2> QED
      BY <2>1, FlattenLaw DEF Content
  <1> DEFINE B(s) == [i \in DOMAIN s |-> s[i].blocks]
  <1>2. ASSUME NEW s \in Seq(MessageRecords)
        PROVE  /\ B(s) \in Seq(Seq(Blocks)) /\ Len(B(s)) = Len(s)
               /\ DOMAIN s = 1 .. Len(s) /\ Len(s) \in Nat
               /\ \A i \in 1 .. Len(s) : B(s)[i] = s[i].blocks
    <2>1. \A i \in 1 .. Len(s) : s[i].blocks \in Seq(Blocks)
      <3> TAKE i \in 1 .. Len(s)
      <3>1. s[i] \in MessageRecords
        OBVIOUS
      <3> QED
        BY <3>1 DEF MessageRecords
    <2>2. DOMAIN s = 1 .. Len(s) /\ Len(s) \in Nat
      OBVIOUS
    <2> QED
      BY <2>1, <2>2
  <1>3. ASSUME NEW s \in Seq(MessageRecords), NEW m \in MessageRecords
        PROVE  B(Append(s, m)) = Append(B(s), m.blocks)
    <2> DEFINE t == Append(s, m)
    <2>1. /\ t \in Seq(MessageRecords) /\ Len(t) = Len(s) + 1
          /\ t[Len(s) + 1] = m /\ \A i \in 1 .. Len(s) : t[i] = s[i]
      OBVIOUS
    <2>2. m.blocks \in Seq(Blocks)
      BY DEF MessageRecords
    <2>3. /\ B(s) \in Seq(Seq(Blocks)) /\ Len(B(s)) = Len(s) /\ Len(s) \in Nat
          /\ \A i \in 1 .. Len(s) : B(s)[i] = s[i].blocks
      BY <1>2
    <2>4. /\ B(t) \in Seq(Seq(Blocks)) /\ Len(B(t)) = Len(s) + 1
          /\ \A i \in 1 .. Len(s) + 1 : B(t)[i] = t[i].blocks
      BY <1>2, <2>1
    <2> HIDE DEF B, t
    <2> DEFINE u == Append(B(s), m.blocks)
    <2>5. /\ u \in Seq(Seq(Blocks)) /\ Len(u) = Len(s) + 1
          /\ u[Len(s) + 1] = m.blocks /\ \A i \in 1 .. Len(s) : u[i] = B(s)[i]
      BY <2>2, <2>3
    <2> HIDE DEF u
    <2>6. \A i \in 1 .. Len(s) + 1 : u[i] = B(t)[i]
      <3> TAKE i \in 1 .. Len(s) + 1
      <3>1. i \in 1 .. Len(s) \/ i = Len(s) + 1
        BY <2>3
      <3> QED
        BY <2>1, <2>3, <2>4, <2>5, <3>1
    <2>7. u = B(t)
      BY <2>4, <2>5, <2>6
    <2> QED
      BY <2>7 DEF u, t
  <1> HIDE DEF B
  <1>4. ASSUME NEW s \in Seq(MessageRecords), NEW m \in MessageRecords
        PROVE  Content(Append(s, m)) = Content(s) \o m.blocks
    <2>1. m.blocks \in Seq(Blocks)
      BY DEF MessageRecords
    <2>2. FlattenSeq(Append(B(s), m.blocks)) = FlattenSeq(B(s)) \o m.blocks
      BY <1>2, <2>1, FlattenLaw
    <2> QED
      BY <1>3, <2>2 DEF Content, B
  <1>5. ASSUME NEW s \in Seq(MessageRecords)
        PROVE  Content(s) \in Seq(Blocks)
    BY <1>2, FlattenLaw DEF Content, B
  <1> QED
    BY <1>1, <1>4, <1>5

-----------------------------------------------------------------------------
(* What merging keeps. *)

\* A sequence is its front and its last element.
LEMMA FrontAndLast ==
    ASSUME NEW T, NEW s \in Seq(T), s # <<>>
    PROVE  /\ Front(s) \in Seq(T) /\ Last(s) \in T
           /\ s = Append(Front(s), Last(s))
           /\ Len(Front(s)) = Len(s) - 1 /\ Len(s) \in Nat /\ Len(s) >= 1
  <1>1. Len(s) \in Nat /\ Len(s) >= 1
    OBVIOUS
  <1>2. Front(s) \in Seq(T) /\ Last(s) \in T /\ Len(Front(s)) = Len(s) - 1
    <2>1. Last(s) \in T
      BY <1>1 DEF Last
    <2>2. Len(s) - 1 \in 0 .. Len(s)
      BY <1>1
    <2>3. \A k \in 0 .. Len(s) : SubSeq(s, 1, k) \in Seq(T) /\ Len(SubSeq(s, 1, k)) = k
      OBVIOUS
    <2> QED
      BY <2>1, <2>2, <2>3 DEF Front
  <1>3. s = Append(Front(s), Last(s))
    BY <1>1 DEF Front, Last
  <1> QED
    BY <1>1, <1>2, <1>3

\* A message whose blocks are replaced.
LEMMA OtherBlocks ==
    ASSUME NEW R, NEW S, NEW x \in [role : R, blocks : S], NEW c
    PROVE  [x EXCEPT !.blocks = c] = [role |-> x.role, blocks |-> c]
  OBVIOUS

Joined(x, m) == [role |-> x.role, blocks |-> x.blocks \o m.blocks]

\* The two cases of merging a message: a turn goes on, or a new one begins.
LEMMA MergeOneCases ==
    ASSUME NEW f \in Seq(MessageRecords), NEW x \in MessageRecords,
           NEW m \in MessageRecords
    PROVE  /\ MergeOne(<<>>, m) = Append(<<>>, m)
           /\ x.role = m.role => MergeOne(Append(f, x), m) = Append(f, Joined(x, m))
           /\ x.role # m.role =>
                  MergeOne(Append(f, x), m) = Append(Append(f, x), m)
           /\ Joined(x, m) \in MessageRecords
  <1> DEFINE s == Append(f, x)
  <1>1. MergeOne(<<>>, m) = Append(<<>>, m)
    BY DEF MergeOne
  <1>2. s # <<>> /\ Last(s) = x /\ Len(s) \in 1 .. Len(s) /\ s \in Seq(MessageRecords)
        /\ Len(s) = Len(f) + 1 /\ Len(f) \in Nat /\ \A i \in 1 .. Len(f) : s[i] = f[i]
    BY DEF Last
  <1>3. Joined(x, m) \in MessageRecords
    BY DEF Joined, MessageRecords
  <1> HIDE DEF s
  <1>4. ASSUME x.role = m.role PROVE MergeOne(s, m) = Append(f, Joined(x, m))
    <2> DEFINE u == Append(f, Joined(x, m))
               w == [s EXCEPT ![Len(s)].blocks = @ \o m.blocks]
    <2>1. MergeOne(s, m) = w
      BY <1>2, <1>4 DEF MergeOne
    <2>2. s[Len(s)] = x
      BY <1>2 DEF Last
    <2>3. [x EXCEPT !.blocks = @ \o m.blocks] = Joined(x, m)
      <3>1. PICK c, R, S : c = x.blocks \o m.blocks /\ R = Roles /\ S = Seq(Blocks)
        OBVIOUS
      <3>2. x \in [role : R, blocks : S]
        BY <3>1 DEF MessageRecords
      <3>3. [x EXCEPT !.blocks = c] = [role |-> x.role, blocks |-> c]
        BY <3>2, OtherBlocks
      <3>4. [x EXCEPT !.blocks = @ \o m.blocks] = [x EXCEPT !.blocks = c]
        BY <3>1, Zenon
      <3>5. Joined(x, m) = [role |-> x.role, blocks |-> c]
        BY <3>1, Zenon DEF Joined
      <3> QED
        BY <3>3, <3>4, <3>5, Zenon
    <2>4. /\ w \in Seq(MessageRecords) /\ Len(w) = Len(f) + 1
          /\ w[Len(f) + 1] = Joined(x, m) /\ \A i \in 1 .. Len(f) : w[i] = f[i]
      <3>1. w = [s EXCEPT ![Len(s)] = Joined(x, m)]
        BY <2>2, <2>3
      <3> HIDE DEF w
      <3>2. w \in Seq(MessageRecords) /\ Len(w) = Len(s)
        BY <1>2, <1>3, <3>1
      <3>3. DOMAIN s = 1 .. Len(f) + 1
        BY <1>2
      <3>4. w[Len(f) + 1] = Joined(x, m)
        BY <1>2, <3>1, <3>3
      <3>5. \A i \in 1 .. Len(f) : w[i] = s[i]
        BY <1>2, <3>1, <3>3
      <3> QED
        BY <1>2, <3>2, <3>4, <3>5
    <2>5. /\ u \in Seq(MessageRecords) /\ Len(u) = Len(f) + 1
          /\ u[Len(f) + 1] = Joined(x, m) /\ \A i \in 1 .. Len(f) : u[i] = f[i]
      BY <1>3
    <2> HIDE DEF u, w
    <2>6. \A i \in 1 .. Len(f) + 1 : i \in 1 .. Len(f) \/ i = Len(f) + 1
      BY <1>2
    <2>7. u = w
      BY <2>4, <2>5, <2>6
    <2> QED
      BY <2>1, <2>7 DEF u
  <1>5. ASSUME x.role # m.role PROVE MergeOne(s, m) = Append(s, m)
    BY <1>2, <1>5 DEF MergeOne
  <1> QED
    BY <1>1, <1>3, <1>4, <1>5 DEF s

Alternating(s) == \A i \in 1 .. Len(s) - 1 : s[i].role # s[i + 1].role

AllValid(s) == \A i \in DOMAIN s : ValidMessage(s[i])

SameEnds(M, s) ==
    /\ s = <<>> => M = <<>>
    /\ s # <<>> => /\ M # <<>>
                   /\ Head(M).role = Head(s).role
                   /\ Last(M).role = Last(s).role

\* What Merge makes of s.
IsMerged(M, s) ==
    /\ M \in Seq(MessageRecords)
    /\ Content(M) = Content(s)
    /\ Alternating(M)
    /\ SameEnds(M, s)
    /\ AllValid(s) => AllValid(M)

\* Roles still take turns when the new one differs from the last.
LEMMA AlternatingAppend ==
    ASSUME NEW s \in Seq(MessageRecords), NEW m \in MessageRecords
    PROVE  Alternating(Append(s, m)) <=>
               Alternating(s) /\ (s # <<>> => Last(s).role # m.role)
  <1> DEFINE t == Append(s, m)
             n == Len(s)
  <1>1. /\ n \in Nat /\ Len(t) = n + 1 /\ t[n + 1] = m
        /\ \A i \in 1 .. n : t[i] = s[i]
        /\ s # <<>> <=> n # 0
    OBVIOUS
  <1>2. (n + 1) - 1 = n
    BY <1>1
  <1> HIDE DEF t
  <1>3. ASSUME Alternating(t)
        PROVE  Alternating(s) /\ (s # <<>> => Last(s).role # m.role)
    <2>1. \A i \in 1 .. n : t[i].role # t[i + 1].role
      BY <1>1, <1>2, <1>3 DEF Alternating
    <2>2. ASSUME NEW i \in 1 .. n - 1 PROVE s[i].role # s[i + 1].role
      <3>1. i \in 1 .. n /\ i + 1 \in 1 .. n
        BY <1>1
      <3> QED
        BY <1>1, <2>1, <3>1
    <2>3. ASSUME s # <<>> PROVE s[n].role # m.role
      <3>1. n \in 1 .. n
        BY <1>1, <2>3
      <3> QED
        BY <1>1, <2>1, <3>1
    <2> QED
      BY <2>2, <2>3 DEF Alternating, Last
  <1>4. ASSUME Alternating(s), s # <<>> => Last(s).role # m.role
        PROVE  Alternating(t)
    <2>1. ASSUME NEW i \in 1 .. n PROVE t[i].role # t[i + 1].role
      <3>1. CASE i = n
        BY <1>1, <1>4, <3>1 DEF Last
      <3>2. CASE i # n
        <4>1. i \in 1 .. n - 1 /\ i + 1 \in 1 .. n
          BY <1>1, <3>2
        <4> QED
          BY <1>1, <1>4, <4>1 DEF Alternating
      <3> QED
        BY <3>1, <3>2
    <2> QED
      BY <1>1, <1>2, <2>1 DEF Alternating
  <1> QED
    BY <1>3, <1>4 DEF t

\* All messages are valid when the old ones and the new one are.
LEMMA AllValidAppend ==
    ASSUME NEW s \in Seq(MessageRecords), NEW m \in MessageRecords
    PROVE  AllValid(Append(s, m)) <=> AllValid(s) /\ ValidMessage(m)
  <1> DEFINE t == Append(s, m)
             n == Len(s)
  <1>1. /\ n \in Nat /\ DOMAIN t = 1 .. n + 1 /\ DOMAIN s = 1 .. n /\ t[n + 1] = m
        /\ \A i \in 1 .. n : t[i] = s[i]
    OBVIOUS
  <1>2. \A i \in 1 .. n + 1 : i \in 1 .. n \/ i = n + 1
    BY <1>1
  <1>3. \A i \in 1 .. n : i \in 1 .. n + 1
    BY <1>1
  <1>4. n + 1 \in 1 .. n + 1
    BY <1>1
  <1> HIDE DEF t, n
  <1> QED
    BY <1>1, <1>2, <1>3, <1>4 DEF AllValid, t

\* Joining two messages of one role.
LEMMA JoinedValid ==
    ASSUME NEW x \in MessageRecords, NEW m \in MessageRecords, x.role = m.role,
           ValidMessage(x), ValidMessage(m)
    PROVE  ValidMessage(Joined(x, m))
  <1> DEFINE y == x.blocks \o m.blocks
  <1>1. /\ x.blocks \in Seq(Blocks) /\ m.blocks \in Seq(Blocks)
        /\ x.blocks # <<>>
    BY DEF MessageRecords, ValidMessage
  <1>2. y # <<>>
    BY <1>1
  <1>3. \A j \in DOMAIN y : \/ \E i \in DOMAIN x.blocks : y[j] = x.blocks[i]
                            \/ \E i \in DOMAIN m.blocks : y[j] = m.blocks[i]
    <2> TAKE j \in DOMAIN y
    <2>1. CASE j <= Len(x.blocks)
      <3>1. j \in DOMAIN x.blocks /\ y[j] = x.blocks[j]
        BY <1>1, <2>1
      <3> QED
        BY <3>1
    <2>2. CASE ~(j <= Len(x.blocks))
      <3>1. /\ j - Len(x.blocks) \in DOMAIN m.blocks
            /\ y[j] = m.blocks[j - Len(x.blocks)]
        <4>a. PICK c \in Seq(Blocks), d \in Seq(Blocks) : c = x.blocks /\ d = m.blocks
          BY <1>1
        <4>b. /\ DOMAIN (c \o d) = 1 .. Len(c) + Len(d)
              /\ DOMAIN d = 1 .. Len(d) /\ Len(c) \in Nat /\ Len(d) \in Nat
              /\ \A i \in 1 .. Len(d) : (c \o d)[Len(c) + i] = d[i]
          OBVIOUS
        <4>1. /\ DOMAIN y = 1 .. Len(x.blocks) + Len(m.blocks)
              /\ DOMAIN m.blocks = 1 .. Len(m.blocks)
              /\ Len(x.blocks) \in Nat /\ Len(m.blocks) \in Nat
              /\ \A i \in 1 .. Len(m.blocks) : y[Len(x.blocks) + i] = m.blocks[i]
          BY <4>a, <4>b
        <4> HIDE DEF y
        <4>2. PICK p \in Nat, q \in Nat : p = Len(x.blocks) /\ q = Len(m.blocks)
          BY <4>1
        <4>3. j \in 1 .. p + q /\ ~(j <= p)
          BY <2>2, <4>1, <4>2
        <4>4. j - p \in 1 .. q /\ p + (j - p) = j
          BY <4>3
        <4> QED
          BY <4>1, <4>2, <4>4
      <3> QED
        BY <3>1
    <2> QED
      BY <2>1, <2>2
  <1> HIDE DEF y
  <1>4. \A j \in DOMAIN y : ValidBlock(y[j], x.role)
    BY <1>3 DEF ValidMessage
  <1> QED
    BY <1>2, <1>4 DEF ValidMessage, Joined, y

\* The ends of a sequence with one element more.
LEMMA EndsAppend ==
    ASSUME NEW T, NEW s \in Seq(T), NEW m \in T
    PROVE  /\ Append(s, m) \in Seq(T) /\ Append(s, m) # <<>>
           /\ Last(Append(s, m)) = m /\ Front(Append(s, m)) = s
           /\ Head(Append(s, m)) = IF s = <<>> THEN m ELSE Head(s)
           /\ Len(Append(s, m)) = Len(s) + 1 /\ Len(s) \in Nat
           /\ Append(s, m)[Len(s) + 1] = m
           /\ \A i \in 1 .. Len(s) : Append(s, m)[i] = s[i]
  <1>1. /\ Append(s, m) \in Seq(T) /\ Append(s, m) # <<>>
        /\ Len(Append(s, m)) = Len(s) + 1 /\ Len(s) \in Nat
        /\ Append(s, m)[Len(s) + 1] = m
        /\ \A i \in 1 .. Len(s) : Append(s, m)[i] = s[i]
    OBVIOUS
  <1>2. Last(Append(s, m)) = m
    BY <1>1 DEF Last
  <1>3. Head(Append(s, m)) = IF s = <<>> THEN m ELSE Head(s)
    OBVIOUS
  <1>4. Front(Append(s, m)) = s
    BY <1>1 DEF Front
  <1> QED
    BY <1>1, <1>2, <1>3, <1>4

\* Concatenation, without its type conditions.
LEMMA Associative ==
    ASSUME NEW T, NEW a \in Seq(T), NEW b \in Seq(T), NEW c \in Seq(T)
    PROVE  (a \o b) \o c = a \o (b \o c)
  BY ConcatAssociative

\* What merging keeps: the blocks, the ends, validity; and roles take turns.
LEMMA MergeMerges ==
    \A s \in Seq(MessageRecords) : IsMerged(Merge(s), s)
  <1> DEFINE S == {s \in Seq(MessageRecords) : IsMerged(Merge(s), s)}
  <1>1. <<>> \in S
    <2>1. <<>> \in Seq(MessageRecords) /\ Len(<<>>) = 0 /\ DOMAIN <<>> = {}
      OBVIOUS
    <2>2. Alternating(<<>>) /\ AllValid(<<>>)
      BY <2>1 DEF Alternating, AllValid
    <2>3. SameEnds(<<>>, <<>>)
      BY DEF SameEnds
    <2> QED
      BY <2>1, <2>2, <2>3, MergeLaw DEF IsMerged
  <1>2. ASSUME NEW s \in Seq(MessageRecords), NEW m \in MessageRecords, s \in S
        PROVE  Append(s, m) \in S
    <2> DEFINE M == Merge(s)
               t == Append(s, m)
               N == Merge(t)
    <2>1. IsMerged(M, s)
      BY <1>2
    <2>2. N = MergeOne(M, m)
      BY MergeLaw
    <2>3. /\ t \in Seq(MessageRecords) /\ t # <<>> /\ Last(t) = m
          /\ Head(t) = IF s = <<>> THEN m ELSE Head(s)
      BY EndsAppend
    <2>4. AllValid(t) => AllValid(s) /\ ValidMessage(m)
      BY AllValidAppend
    <2>5. m.blocks \in Seq(Blocks) /\ Content(t) = Content(s) \o m.blocks
      BY ContentLaw DEF MessageRecords
    <2> HIDE DEF M, t, N, S
    <2>6. M \in Seq(MessageRecords)
      BY <2>1 DEF IsMerged
    <2>7. ASSUME M = <<>> PROVE IsMerged(N, t)
      <3>1. N = Append(<<>>, m) /\ s = <<>>
        BY <2>1, <2>2, <2>7, MergeOneCases DEF IsMerged, SameEnds
      <3>2. <<>> \in Seq(MessageRecords)
        OBVIOUS
      <3>3. /\ N \in Seq(MessageRecords) /\ N # <<>> /\ Last(N) = m /\ Head(N) = m
        BY <3>1, <3>2, EndsAppend
      <3>4. Alternating(<<>>) /\ AllValid(<<>>)
        BY DEF Alternating, AllValid
      <3>5. Alternating(N) /\ (ValidMessage(m) => AllValid(N))
        BY <3>1, <3>2, <3>4, AlternatingAppend, AllValidAppend
      <3>6. Content(N) = Content(t)
        BY <2>5, <3>1, <3>2, ContentLaw
      <3>7. SameEnds(N, t)
        BY <2>3, <3>1, <3>3 DEF SameEnds
      <3> QED
        BY <2>4, <3>3, <3>5, <3>6, <3>7 DEF IsMerged
    <2>8. ASSUME M # <<>> PROVE IsMerged(N, t)
      <3>1. PICK f \in Seq(MessageRecords), x \in MessageRecords : M = Append(f, x)
        BY <2>6, <2>8, FrontAndLast
      <3>2. /\ Last(M) = x /\ Head(M) = (IF f = <<>> THEN x ELSE Head(f))
        BY <3>1, EndsAppend
      <3>3. s # <<>> /\ Head(M).role = Head(s).role /\ Last(M).role = Last(s).role
        BY <2>1, <2>8 DEF IsMerged, SameEnds
      <3>4. CASE x.role = m.role
        <4> DEFINE y == Joined(x, m)
        <4>1. N = Append(f, y) /\ y \in MessageRecords
          BY <2>2, <3>1, <3>4, MergeOneCases
        <4>2. y.role = x.role /\ y.blocks = x.blocks \o m.blocks
          BY DEF Joined
        <4> HIDE DEF y
        <4>3. /\ N \in Seq(MessageRecords) /\ N # <<>> /\ Last(N) = y
              /\ Head(N) = (IF f = <<>> THEN y ELSE Head(f))
          BY <4>1, EndsAppend
        <4>4. Alternating(N)
          <5>1. Alternating(f) /\ (f # <<>> => Last(f).role # x.role)
            BY <2>1, <3>1, AlternatingAppend DEF IsMerged
          <5> QED
            BY <4>1, <4>2, <5>1, AlternatingAppend
        <4>5. AllValid(t) => AllValid(N)
          <5> HAVE AllValid(t)
          <5>1. AllValid(Append(f, x)) /\ ValidMessage(m)
            BY <2>1, <2>4, <3>1 DEF IsMerged
          <5>2. AllValid(f) /\ ValidMessage(x)
            BY <5>1, AllValidAppend
          <5>3. ValidMessage(y)
            BY <3>4, <5>1, <5>2, JoinedValid DEF y
          <5> QED
            BY <4>1, <5>2, <5>3, AllValidAppend
        <4>6. Content(N) = Content(t)
          <5>1. Content(f) \in Seq(Blocks) /\ x.blocks \in Seq(Blocks)
            BY ContentLaw DEF MessageRecords
          <5>2. /\ Content(N) = Content(f) \o (x.blocks \o m.blocks)
                /\ Content(M) = Content(f) \o x.blocks
            BY <3>1, <4>1, <4>2, ContentLaw
          <5>3. Content(s) = Content(M)
            BY <2>1 DEF IsMerged
          <5>4. (Content(f) \o x.blocks) \o m.blocks = Content(f) \o (x.blocks \o m.blocks)
            <6>1. PICK a \in Seq(Blocks), b \in Seq(Blocks), c \in Seq(Blocks) :
                      a = Content(f) /\ b = x.blocks /\ c = m.blocks
              BY <2>5, <5>1
            <6>2. (a \o b) \o c = a \o (b \o c)
              BY Associative
            <6> QED
              BY <6>1, <6>2, SMTT(30)
          <5> QED
            BY <2>5, <5>2, <5>3, <5>4
        <4>7. Head(N).role = Head(t).role /\ Last(N).role = Last(t).role
          BY <2>3, <3>2, <3>3, <3>4, <4>2, <4>3
        <4>8. SameEnds(N, t)
          BY <2>3, <4>3, <4>7 DEF SameEnds
        <4> QED
          BY <4>3, <4>4, <4>5, <4>6, <4>8 DEF IsMerged
      <3>5. CASE x.role # m.role
        <4>1. N = Append(M, m)
          BY <2>2, <3>1, <3>5, MergeOneCases
        <4>2. /\ N \in Seq(MessageRecords) /\ N # <<>> /\ Last(N) = m
              /\ Head(N) = Head(M)
          BY <2>6, <2>8, <4>1, EndsAppend
        <4>3. Alternating(N)
          BY <2>1, <2>6, <3>2, <3>5, <4>1, AlternatingAppend DEF IsMerged
        <4>4. AllValid(t) => AllValid(N)
          BY <2>1, <2>4, <2>6, <4>1, AllValidAppend DEF IsMerged
        <4>5. Content(N) = Content(t)
          BY <2>1, <2>5, <2>6, <4>1, ContentLaw DEF IsMerged
        <4>6. Head(N).role = Head(t).role /\ Last(N).role = Last(t).role
          BY <2>3, <3>3, <4>2
        <4>7. SameEnds(N, t)
          BY <2>3, <4>2, <4>6 DEF SameEnds
        <4> QED
          BY <4>2, <4>3, <4>4, <4>5, <4>7 DEF IsMerged
      <3> QED
        BY <3>4, <3>5
    <2>9. IsMerged(N, t)
      BY <2>7, <2>8
    <2> QED
      BY <2>3, <2>9 DEF S, N, t
  <1>3. Seq(MessageRecords) \subseteq S
    <2> HIDE DEF S
    <2> QED
      BY <1>1, <1>2, Growing
  <1> QED
    BY <1>3

\* Merging once is enough.
LEMMA AlternatingIsMerged ==
    \A s \in Seq(MessageRecords) : Alternating(s) => Merge(s) = s
  <1> DEFINE S == {s \in Seq(MessageRecords) : Alternating(s) => Merge(s) = s}
  <1>1. <<>> \in S
    <2>1. <<>> \in Seq(MessageRecords)
      OBVIOUS
    <2> QED
      BY <2>1, MergeLaw
  <1>2. ASSUME NEW s \in Seq(MessageRecords), NEW m \in MessageRecords, s \in S
        PROVE  Append(s, m) \in S
    <2>1. Append(s, m) \in Seq(MessageRecords)
      BY EndsAppend
    <2>2. ASSUME Alternating(Append(s, m)) PROVE Merge(Append(s, m)) = Append(s, m)
      <3>1. Alternating(s) /\ (s # <<>> => Last(s).role # m.role)
        BY <2>2, AlternatingAppend
      <3>2. Merge(Append(s, m)) = MergeOne(s, m)
        BY <1>2, <3>1, MergeLaw
      <3> QED
        BY <3>1, <3>2 DEF MergeOne
    <2> QED
      BY <2>1, <2>2
  <1>3. Seq(MessageRecords) \subseteq S
    <2> HIDE DEF S
    <2> QED
      BY <1>1, <1>2, Growing
  <1> QED
    BY <1>3

-----------------------------------------------------------------------------
(* What validate makes of a request it accepts. *)

\* A valid message is from the user or from the assistant.
LEMMA ValidRole ==
    ASSUME NEW m, ValidMessage(m)
    PROVE  m.role = "user" \/ m.role = "assistant"
  BY DEF ValidMessage, Kinds

\* Alternating roles that begin with the user are a matter of the position.
LEMMA RolesTakeTurns ==
    ASSUME NEW M \in Seq(MessageRecords), M # <<>>, Head(M).role = "user",
           Alternating(M), AllValid(M)
    PROVE  \A i \in DOMAIN M :
               M[i].role = IF i % 2 = 1 THEN "user" ELSE "assistant"
  <1> DEFINE n == Len(M)
             Turn(i) == M[i].role = IF i % 2 = 1 THEN "user" ELSE "assistant"
             K == {k \in 0 .. n - 1 : Turn(k + 1)}
  <1>1. n \in Nat /\ n >= 1 /\ DOMAIN M = 1 .. n /\ n - 1 \in Nat
    OBVIOUS
  <1>2. 0 \in K
    <2>1. Head(M) = M[1] /\ 1 % 2 = 1 /\ 0 + 1 = 1
      OBVIOUS
    <2>2. Turn(0 + 1)
      BY <2>1
    <2> HIDE DEF Turn, n
    <2> QED
      BY <1>1, <2>2
  <1>3. ASSUME NEW k \in 0 .. (n - 1) - 1, k \in K PROVE k + 1 \in K
    <2>1. k + 1 \in 1 .. n - 1 /\ (k + 1) + 1 \in DOMAIN M /\ k + 1 \in 0 .. n - 1
      BY <1>1
    <2>2. M[k + 1].role # M[(k + 1) + 1].role /\ ValidMessage(M[(k + 1) + 1])
      BY <2>1 DEF Alternating, AllValid
    <2>3. \/ M[(k + 1) + 1].role = "user"
          \/ M[(k + 1) + 1].role = "assistant"
      BY <2>2, ValidRole
    <2>4. (k + 1) % 2 = 1 <=> ~(((k + 1) + 1) % 2 = 1)
      BY <2>1
    <2>5. Turn(k + 1)
      BY <1>3
    <2>6. Turn((k + 1) + 1)
      BY <2>2, <2>3, <2>4, <2>5
    <2> HIDE DEF Turn, n
    <2> QED
      BY <2>1, <2>6
  <1> HIDE DEF K
  <1>4. \A k \in 0 .. n - 1 : k \in K
    <2> HIDE DEF n
    <2> QED
      BY <1>1, <1>2, <1>3, CountingUp
  <1>5. ASSUME NEW i \in 1 .. n PROVE Turn(i)
    <2>1. i - 1 \in 0 .. n - 1 /\ (i - 1) + 1 = i
      BY <1>1
    <2>2. i - 1 \in K
      BY <1>4, <2>1
    <2> HIDE DEF Turn, n
    <2> QED
      BY <2>1, <2>2 DEF K
  <1> QED
    BY <1>1, <1>5

\* A request that validate accepts, and what it makes of it.
LEMMA AcceptedIsMerged ==
    ASSUME NEW s \in Seq(MessageRecords), Validates(s)
    PROVE  /\ IsMerged(Merge(s), s)
           /\ Merge(s) # <<>> /\ Merge(s) \in Seq(MessageRecords)
           /\ Head(Merge(s)).role = "user"
           /\ Last(Merge(s)).role = "user"
           /\ AllValid(Merge(s)) /\ Alternating(Merge(s))
           /\ Merge(Merge(s)) = Merge(s)
           /\ Paired(Merge(s)).ok
  <1>1. IsMerged(Merge(s), s)
    BY MergeMerges
  <1>2. /\ s # <<>> /\ Head(s).role = "user" /\ Last(s).role = "user"
        /\ AllValid(s)
        /\ Paired(Merge(s)).ok
    BY DEF Validates, FromUserToUser, AllValid, Paired
  <1>3. /\ Merge(s) \in Seq(MessageRecords) /\ Alternating(Merge(s))
        /\ SameEnds(Merge(s), s) /\ AllValid(Merge(s))
    BY <1>1, <1>2 DEF IsMerged
  <1>4. Merge(Merge(s)) = Merge(s)
    BY <1>3, AlternatingIsMerged
  <1> QED
    BY <1>1, <1>2, <1>3, <1>4 DEF SameEnds

\* ValidatedIsCanonical, of any messages.
LEMMA AcceptedIsCanonical ==
    ASSUME NEW s \in Seq(MessageRecords), Validates(s)
    PROVE  LET merged == Merge(s) IN
           /\ FlattenSeq([i \in DOMAIN merged |-> merged[i].blocks])
              = FlattenSeq([i \in DOMAIN s |-> s[i].blocks])
           /\ \A i \in DOMAIN merged :
                  merged[i].role = IF i % 2 = 1 THEN "user" ELSE "assistant"
           /\ Validates(merged)
           /\ Merge(merged) = merged
  <1> DEFINE M == Merge(s)
  <1>1. /\ IsMerged(M, s) /\ M # <<>> /\ M \in Seq(MessageRecords)
        /\ Head(M).role = "user" /\ Last(M).role = "user"
        /\ AllValid(M) /\ Alternating(M) /\ Merge(M) = M /\ Paired(M).ok
    BY AcceptedIsMerged
  <1> HIDE DEF M
  <1>2. \A i \in DOMAIN M : M[i].role = IF i % 2 = 1 THEN "user" ELSE "assistant"
    BY <1>1, RolesTakeTurns
  <1>3. Validates(M)
    BY <1>1 DEF Validates, FromUserToUser, AllValid, Paired
  <1>4. FlattenSeq([i \in DOMAIN M |-> M[i].blocks])
        = FlattenSeq([i \in DOMAIN s |-> s[i].blocks])
    BY <1>1 DEF IsMerged, Content
  <1> QED
    BY <1>1, <1>2, <1>3, <1>4 DEF M

-----------------------------------------------------------------------------
(* What the CLI resumes. *)

IsRow(row, i, m) ==
    /\ row.parent = (IF i = 1 THEN None ELSE i - 1)
    /\ row.stop = StopReason(m)
    /\ row.role = m.role
    /\ row.blocks = m.blocks

\* The rows of h are the messages of s, each under the one before.
Writes(h, s) ==
    /\ h \in Histories
    /\ Len(h.rows) = Len(s)
    /\ \A i \in 1 .. Len(s) : IsRow(h.rows[i], i, s[i])

\* It can go on after the last assistant message of s.
ResumesAt(r, s) ==
    \/ r = None /\ \A i \in 1 .. Len(s) : s[i].role # "assistant"
    \/ /\ r \in 1 .. Len(s) /\ s[r].role = "assistant"
       /\ \A i \in 1 .. Len(s) : r < i => s[i].role # "assistant"

IsSeeded(h, s) ==
    /\ Writes(h, s)
    /\ h.parent = (IF Len(s) = 0 THEN None ELSE Len(s))
    /\ ResumesAt(h.resumeAt, s)

\* A row more, and the chain of parents still leads through all of them.
LEMMA SeedStep ==
    ASSUME NEW s \in Seq(MessageRecords), NEW m \in MessageRecords,
           NEW h, IsSeeded(h, s)
    PROVE  IsSeeded(SeedRow(h, m), Append(s, m))
  <1> DEFINE n == Len(s)
             t == Append(s, m)
             row == [parent |-> h.parent, stop |-> StopReason(m),
                     role |-> m.role, blocks |-> m.blocks]
             k == SeedRow(h, m)
  <1>1. /\ n \in Nat /\ t \in Seq(MessageRecords) /\ Len(t) = n + 1 /\ t[n + 1] = m
        /\ \A i \in 1 .. n : t[i] = s[i]
    BY EndsAppend
  <1>2. h \in Histories /\ Len(h.rows) = n /\ h.rows \in Seq(Rows)
    BY DEF IsSeeded, Writes, Histories
  <1>3. k \in Histories
    BY <1>2, SeedRowType
  <1>4. /\ k.rows = Append(h.rows, row) /\ k.parent = n + 1
        /\ k.resumeAt = IF m.role = "assistant" THEN n + 1 ELSE h.resumeAt
    BY <1>2 DEF SeedRow
  <1>5. row \in Rows
    <2>1. h.parent \in Nat \cup {None} /\ m.role \in Roles /\ m.blocks \in Seq(Blocks)
      BY <1>2 DEF Histories, MessageRecords
    <2>2. StopReason(m) \in {None, "tool_use", "end_turn"}
      BY DEF StopReason
    <2> QED
      BY <2>1, <2>2 DEF Rows
  <1>6. IsRow(row, n + 1, m)
    <2>1. h.parent = IF n = 0 THEN None ELSE n
      BY DEF IsSeeded
    <2> QED
      BY <1>1, <2>1 DEF IsRow
  <1> HIDE DEF row, k, t
  <1>7. /\ Len(k.rows) = n + 1 /\ k.rows[n + 1] = row
        /\ \A i \in 1 .. n : k.rows[i] = h.rows[i]
    BY <1>2, <1>4, <1>5, EndsAppend
  <1>8. Writes(k, t)
    <2>1. \A i \in 1 .. n : IsRow(h.rows[i], i, s[i])
      BY DEF IsSeeded, Writes
    <2>2. ASSUME NEW i \in 1 .. n + 1 PROVE IsRow(k.rows[i], i, t[i])
      <3>1. i \in 1 .. n \/ i = n + 1
        BY <1>1
      <3> QED
        BY <1>1, <1>6, <1>7, <2>1, <3>1
    <2> QED
      BY <1>1, <1>3, <1>7, <2>2 DEF Writes
  <1>9. ResumesAt(k.resumeAt, t)
    <2>1. \A i \in 1 .. n + 1 : i \in 1 .. n \/ i = n + 1
      BY <1>1
    <2>2. ResumesAt(h.resumeAt, s)
      BY DEF IsSeeded
    <2>3. CASE m.role = "assistant"
      <3>1. k.resumeAt = n + 1 /\ n + 1 \in 1 .. n + 1
        BY <1>1, <1>4, <2>3
      <3>2. \A i \in 1 .. n + 1 : ~(n + 1 < i)
        BY <1>1
      <3> QED
        BY <1>1, <2>3, <3>1, <3>2 DEF ResumesAt
    <2>4. CASE m.role # "assistant"
      <3>1. k.resumeAt = h.resumeAt
        BY <1>4, <2>4
      <3>2. \A r \in 1 .. n : r \in 1 .. n + 1
        BY <1>1
      <3> QED
        BY <1>1, <2>1, <2>2, <2>4, <3>1, <3>2 DEF ResumesAt
    <2> QED
      BY <2>3, <2>4
  <1> QED
    BY <1>1, <1>4, <1>8, <1>9 DEF IsSeeded, k, t

\* seed_history writes the turns in order, each the parent of the next.
LEMMA SeededWrites ==
    \A s \in Seq(MessageRecords) : IsSeeded(Seeded(s), s)
  <1> DEFINE S == {s \in Seq(MessageRecords) : IsSeeded(Seeded(s), s)}
  <1>1. <<>> \in S
    <2>1. <<>> \in Seq(MessageRecords) /\ Len(<<>>) = 0
      OBVIOUS
    <2>2. NoHistory.rows = <<>> /\ NoHistory.parent = None /\ NoHistory.resumeAt = None
      BY DEF NoHistory
    <2>3. IsSeeded(NoHistory, <<>>)
      BY <2>1, <2>2, NoHistoryType DEF IsSeeded, Writes, ResumesAt
    <2> QED
      BY <2>1, <2>3, SeedRowLaw
  <1>2. ASSUME NEW s \in Seq(MessageRecords), NEW m \in MessageRecords, s \in S
        PROVE  Append(s, m) \in S
    <2>1. Seeded(Append(s, m)) = SeedRow(Seeded(s), m)
      BY SeedRowLaw
    <2>2. IsSeeded(SeedRow(Seeded(s), m), Append(s, m))
      BY <1>2, SeedStep
    <2> QED
      BY <2>1, <2>2, EndsAppend
  <1>3. Seq(MessageRecords) \subseteq S
    <2> HIDE DEF S
    <2> QED
      BY <1>1, <1>2, Growing
  <1> QED
    BY <1>3

\* The rows up to some row, read from it back to the first.
UptoEq(f, h) ==
    f = [id \in DOMAIN h.rows \cup {None} |->
            IF id = None THEN <<>>
            ELSE LET row == h.rows[id] IN
                 Append(f[row.parent], [role |-> row.role, blocks |-> row.blocks])]

Beginning(s, k) == SubSeq(s, 1, k)

\* A beginning of a sequence and the next element.
LEMMA BeginningGrows ==
    ASSUME NEW T, NEW s \in Seq(T)
    PROVE  /\ Beginning(s, 0) = <<>>
           /\ Beginning(s, Len(s)) = s
           /\ \A k \in 0 .. Len(s) : Beginning(s, k) \in Seq(T)
           /\ \A k \in 1 .. Len(s) : Beginning(s, k) = Append(Beginning(s, k - 1), s[k])
  <1>1. Beginning(s, 0) = <<>>
    BY DEF Beginning
  <1>2. Beginning(s, Len(s)) = s
    BY DEF Beginning
  <1>3. \A k \in 0 .. Len(s) : Beginning(s, k) \in Seq(T)
    BY DEF Beginning
  <1>4. \A k \in 1 .. Len(s) : Beginning(s, k) = Append(Beginning(s, k - 1), s[k])
    BY DEF Beginning
  <1> QED
    BY <1>1, <1>2, <1>3, <1>4

\* The CLI that resumes at a row has the turns up to it.
LEMMA ResumedIs ==
    ASSUME NEW M \in Seq(MessageRecords), NEW h, Writes(h, M)
    PROVE  /\ h.resumeAt = None => Resumed(h) = <<>>
           /\ h.resumeAt \in 1 .. Len(M) => Resumed(h) = Beginning(M, h.resumeAt)
  <1> DEFINE n == Len(M)
             D == 1 .. n \cup {None}
             u == [id \in D |-> IF id = None THEN <<>> ELSE Beginning(M, id)]
             f == CHOOSE x : UptoEq(x, h)
  <1>1. n \in Nat /\ None \notin 1 .. n /\ DOMAIN h.rows = 1 .. n
    <2>1. n \in Nat
      OBVIOUS
    <2>2. None \notin 1 .. n
      BY <2>1, ConversationAssumption
    <2>3. h.rows \in Seq(Rows) /\ Len(h.rows) = n
      BY DEF Writes, Histories
    <2>4. DOMAIN h.rows = 1 .. n
      BY <2>3
    <2> QED
      BY <2>1, <2>2, <2>4
  <1>2. ASSUME NEW i \in 1 .. n
        PROVE  /\ h.rows[i].parent = IF i = 1 THEN None ELSE i - 1
               /\ [role |-> h.rows[i].role, blocks |-> h.rows[i].blocks] = M[i]
    <2>1. IsRow(h.rows[i], i, M[i])
      BY DEF Writes
    <2>2. M[i] \in MessageRecords
      OBVIOUS
    <2>3. M[i] = [role |-> M[i].role, blocks |-> M[i].blocks]
      BY <2>2 DEF MessageRecords
    <2> QED
      BY <2>1, <2>3 DEF IsRow
  <1>3. u = [id \in D |->
                IF id = None THEN <<>>
                ELSE Append(u[h.rows[id].parent],
                            [role |-> h.rows[id].role, blocks |-> h.rows[id].blocks])]
    <2>1. ASSUME NEW i \in 1 .. n
          PROVE  u[i] = Append(u[h.rows[i].parent], M[i])
      <3>1. Beginning(M, i) = Append(Beginning(M, i - 1), M[i])
        BY BeginningGrows
      <3>2. u[i] = Beginning(M, i)
        BY <1>1
      <3>3. CASE i = 1
        <4>1. u[None] = <<>>
          OBVIOUS
        <4>2. h.rows[i].parent = None
          BY <1>2, <3>3
        <4>3. i - 1 = 0 /\ Beginning(M, 0) = <<>>
          BY <3>3, BeginningGrows
        <4> HIDE DEF u
        <4> QED
          BY <3>1, <3>2, <4>1, <4>2, <4>3
      <3>4. CASE i # 1
        <4>a. i - 1 \in 1 .. n
          BY <1>1, <3>4
        <4>1. i - 1 \in 1 .. n /\ h.rows[i].parent = i - 1
          BY <1>2, <3>4, <4>a
        <4>2. u[i - 1] = Beginning(M, i - 1)
          BY <1>1, <4>1
        <4> QED
          BY <3>1, <3>2, <4>1, <4>2
      <3> QED
        BY <3>3, <3>4
    <2>2. u[None] = <<>>
      OBVIOUS
    <2>3. u = [id \in D |-> u[id]]
      OBVIOUS
    <2> HIDE DEF u
    <2>4. \A id \in D : u[id] = IF id = None THEN <<>>
                ELSE Append(u[h.rows[id].parent],
                            [role |-> h.rows[id].role, blocks |-> h.rows[id].blocks])
      BY <1>2, <2>1, <2>2
    <2> QED
      BY <2>3, <2>4
  <1>4. UptoEq(u, h)
    <2> HIDE DEF u
    <2> QED
      BY <1>1, <1>3 DEF UptoEq
  <1>5. UptoEq(f, h) /\ Resumed(h) = f[h.resumeAt]
    <2>1. UptoEq(f, h)
      <3> HIDE DEF u
      <3> QED
        BY <1>4
    <2>2. Resumed(h) = f[h.resumeAt]
      BY DEF Resumed, UptoEq
    <2> QED
      BY <2>1, <2>2
  <1> HIDE DEF u, f
  <1>6. f[None] = <<>>
    BY <1>5 DEF UptoEq
  <1>7. \A i \in 1 .. n : f[i] = Append(f[h.rows[i].parent], M[i])
    <2> TAKE i \in 1 .. n
    <2>1. i \in DOMAIN h.rows \cup {None} /\ i # None
      BY <1>1
    <2>2. f[i] = Append(f[h.rows[i].parent],
                        [role |-> h.rows[i].role, blocks |-> h.rows[i].blocks])
      BY <1>5, <2>1 DEF UptoEq
    <2> QED
      BY <1>2, <2>2
  <1> DEFINE v == [k \in 0 .. n |-> IF k = 0 THEN <<>> ELSE f[k]]
             w == [k \in 0 .. n |-> Beginning(M, k)]
  <1>8. v[0] = w[0]
    BY <1>1, BeginningGrows
  <1>9. ASSUME NEW k \in 0 .. n - 1, v[k] = w[k] PROVE v[k + 1] = w[k + 1]
    <2>1. k + 1 \in 1 .. n /\ (k + 1) - 1 = k /\ k \in 0 .. n /\ k + 1 \in 0 .. n
          /\ (k + 1 = 1 <=> k = 0) /\ k + 1 # 0
      BY <1>1
    <2>2. f[k + 1] = Append(f[h.rows[k + 1].parent], M[k + 1])
      BY <1>7, <2>1
    <2>3. h.rows[k + 1].parent = IF k = 0 THEN None ELSE k
      BY <1>2, <2>1
    <2>4. f[h.rows[k + 1].parent] = v[k]
      BY <1>6, <2>1, <2>3
    <2>5. Beginning(M, k + 1) = Append(Beginning(M, k), M[k + 1])
      BY <2>1, BeginningGrows
    <2>6. v[k + 1] = f[k + 1] /\ w[k + 1] = Beginning(M, k + 1) /\ w[k] = Beginning(M, k)
      BY <2>1
    <2> HIDE DEF v, w
    <2> QED
      BY <1>9, <2>2, <2>4, <2>5, <2>6, SMTT(30)
  <1>10. \A k \in 0 .. n : v[k] = w[k]
    <2> HIDE DEF v, w, n
    <2> QED
      BY <1>1, <1>8, <1>9, SameLoop
  <1>11. \A i \in 1 .. n : f[i] = Beginning(M, i)
    <2> TAKE i \in 1 .. n
    <2>1. i \in 0 .. n /\ i # 0
      BY <1>1
    <2> QED
      BY <1>10, <2>1
  <1> QED
    BY <1>5, <1>6, <1>11

\* ConversationReachesCli, of any messages.
LEMMA AcceptedReachesCli ==
    ASSUME NEW s \in Seq(MessageRecords), Validates(s)
    PROVE  LET merged == Merge(s) IN
           Append(Resumed(SeedHistory(merged)), FinalTurn(merged)) = merged
  <1> DEFINE M == Merge(s)
             n == Len(M)
             h == SeedHistory(M)
  <1>1. /\ M # <<>> /\ M \in Seq(MessageRecords)
        /\ Last(M).role = "user" /\ AllValid(M) /\ Alternating(M)
    BY AcceptedIsMerged
  <1> HIDE DEF M
  <1>2. n \in Nat /\ n >= 1 /\ n \in 1 .. n /\ DOMAIN M = 1 .. n
    BY <1>1
  <1>3. FinalTurn(M) = M[n]
    <2>1. M[n] \in MessageRecords /\ M[n].role = "user"
      BY <1>1, <1>2 DEF Last
    <2>2. M[n] = [role |-> M[n].role, blocks |-> M[n].blocks]
      BY <2>1 DEF MessageRecords
    <2> QED
      BY <2>1, <2>2 DEF FinalTurn, Last
  <1>4. Append(Beginning(M, n - 1), M[n]) = M
    BY <1>1, <1>2, BeginningGrows
  <1>5. CASE n = 1
    <2>1. h = NoHistory
      BY <1>5 DEF SeedHistory
    <2>2. Writes(NoHistory, <<>>) /\ <<>> \in Seq(MessageRecords)
      <3>1. Seeded(<<>>) = NoHistory /\ <<>> \in Seq(MessageRecords)
        BY SeedRowLaw
      <3> QED
        BY <3>1, SeededWrites DEF IsSeeded
    <2>3. NoHistory.resumeAt = None
      BY DEF NoHistory
    <2>4. Resumed(NoHistory) = <<>>
      BY <2>2, <2>3, ResumedIs
    <2>5. Beginning(M, n - 1) = <<>>
      BY <1>1, <1>5, BeginningGrows
    <2> QED
      BY <1>3, <1>4, <2>1, <2>4, <2>5 DEF M
  <1>6. CASE n # 1
    <2>1. h = Seeded(M)
      BY <1>6 DEF SeedHistory, Seeded
    <2>2. IsSeeded(h, M)
      BY <1>1, <2>1, SeededWrites
    <2> HIDE DEF h
    <2>3. n - 1 \in 1 .. n /\ (n - 1) + 1 = n /\ n - 1 \in 1 .. n - 1 /\ n - 1 < n
      BY <1>2, <1>6
    <2>4. M[n].role = "user" /\ M[n - 1].role = "assistant"
      <3>1. M[n].role = "user"
        BY <1>1 DEF Last
      <3>2. M[n - 1].role # M[n].role /\ ValidMessage(M[n - 1])
        BY <1>1, <1>2, <2>3 DEF Alternating, AllValid
      <3> QED
        BY <3>1, <3>2, ValidRole
    <2>5. h.resumeAt = n - 1
      <3>1. ResumesAt(h.resumeAt, M)
        BY <2>2 DEF IsSeeded
      <3>2. ASSUME NEW r \in 1 .. n, M[r].role = "assistant",
                   \A i \in 1 .. n : r < i => M[i].role # "assistant"
            PROVE  r = n - 1
        <4>1. r # n
          BY <2>4, <3>2
        <4>2. ~(r < n - 1)
          BY <2>3, <2>4, <3>2
        <4>3. r \in Int /\ n \in Int /\ 1 <= r /\ r <= n
          BY <1>2
        <4> HIDE DEF n
        <4> QED
          BY <4>1, <4>2, <4>3
      <3> QED
        BY <2>3, <2>4, <3>1, <3>2 DEF ResumesAt
    <2>6. Resumed(h) = Beginning(M, n - 1)
      BY <1>1, <2>2, <2>3, <2>5, ResumedIs DEF IsSeeded
    <2> QED
      BY <1>3, <1>4, <2>6 DEF M, h
  <1> QED
    BY <1>5, <1>6

-----------------------------------------------------------------------------
(* The two loops over the blocks of a turn. *)

IdsOf(s, kind) == {b.id : b \in {x \in ToSet(s) : x.kind = kind}}

\* The ids of one kind, one block at a time.
LEMMA IdsAppend ==
    ASSUME NEW s \in Seq(Blocks), NEW b \in Blocks, NEW kind
    PROVE  /\ IdsOf(<<>>, kind) = {}
           /\ b.kind = kind => IdsOf(Append(s, b), kind) = IdsOf(s, kind) \cup {b.id}
           /\ b.kind # kind => IdsOf(Append(s, b), kind) = IdsOf(s, kind)
  <1> DEFINE t == Append(s, b)
  <1>1. ToSet(<<>>) = {}
    BY DEF ToSet
  <1>2. ToSet(t) = ToSet(s) \cup {b}
    <2>1. DOMAIN s = 1 .. Len(s) /\ DOMAIN t = 1 .. Len(s) + 1 /\ Len(s) \in Nat
      OBVIOUS
    <2>2. t[Len(s) + 1] = b /\ \A i \in 1 .. Len(s) : t[i] = s[i]
      BY EndsAppend
    <2> HIDE DEF t
    <2>3. ASSUME NEW x \in ToSet(t) PROVE x \in ToSet(s) \cup {b}
      <3>1. PICK i \in 1 .. Len(s) + 1 : x = t[i]
        BY <2>1 DEF ToSet
      <3>2. i \in 1 .. Len(s) \/ i = Len(s) + 1
        BY <2>1
      <3> QED
        BY <2>1, <2>2, <3>1, <3>2 DEF ToSet
    <2>4. ASSUME NEW x \in ToSet(s) PROVE x \in ToSet(t)
      <3>1. PICK i \in 1 .. Len(s) : x = s[i]
        BY <2>1 DEF ToSet
      <3>2. i \in DOMAIN t /\ x = t[i]
        BY <2>1, <2>2, <3>1
      <3> QED
        BY <3>2 DEF ToSet
    <2>5. b \in ToSet(t)
      <3>1. Len(s) + 1 \in DOMAIN t
        BY <2>1
      <3> QED
        BY <2>2, <3>1 DEF ToSet
    <2> QED
      BY <2>3, <2>4, <2>5
  <1> HIDE DEF t
  <1> QED
    BY <1>1, <1>2 DEF IdsOf, t

\* y is the state z after the calls of s.
AfterCalls(y, z, s) ==
    /\ y \in States
    /\ y.pending = z.pending \cup IdsOf(s, "tool_use")
    /\ y.ids = z.ids \cup IdsOf(s, "tool_use")
    /\ y.other = z.other
    /\ y.ok => z.ok

\* An assistant turn makes its calls pending.
LEMMA CallsDo ==
    ASSUME NEW z \in States, NEW s \in Seq(Blocks)
    PROVE  AfterCalls(CallAll(z, s), z, s)
  <1> DEFINE S == {t \in Seq(Blocks) : AfterCalls(CallAll(z, t), z, t)}
  <1>1. <<>> \in S
    <2>1. CallAll(z, <<>>) = z /\ <<>> \in Seq(Blocks)
      BY CallLaw
    <2>2. IdsOf(<<>>, "tool_use") = {}
      BY DEF IdsOf, ToSet
    <2> QED
      BY <2>1, <2>2 DEF AfterCalls
  <1>2. ASSUME NEW t \in Seq(Blocks), NEW b \in Blocks, t \in S
        PROVE  Append(t, b) \in S
    <2> DEFINE y == CallAll(z, t)
               x == CallAll(z, Append(t, b))
    <2>1. x = Call(y, b) /\ Append(t, b) \in Seq(Blocks)
      BY CallLaw, EndsAppend
    <2>2. AfterCalls(y, z, t)
      BY <1>2
    <2> HIDE DEF x, y
    <2>3. y \in States /\ x \in States
      BY <2>1, <2>2, CallType DEF AfterCalls
    <2>4. CASE b.kind = "tool_use"
      <3>1. /\ x.pending = y.pending \cup {b.id} /\ x.ids = y.ids \cup {b.id}
            /\ x.other = y.other /\ x.ok = (y.ok /\ b.id \notin y.ids)
        BY <2>1, <2>3, <2>4 DEF Call, States
      <3>2. IdsOf(Append(t, b), "tool_use") = IdsOf(t, "tool_use") \cup {b.id}
        BY <2>4, IdsAppend
      <3>3. AfterCalls(x, z, Append(t, b))
        BY <2>2, <2>3, <3>1, <3>2 DEF AfterCalls
      <3> QED
        BY <2>1, <3>3 DEF x
    <2>5. CASE b.kind # "tool_use"
      <3>1. x = y
        BY <2>1, <2>5 DEF Call
      <3>2. IdsOf(Append(t, b), "tool_use") = IdsOf(t, "tool_use")
        BY <2>5, IdsAppend
      <3>3. AfterCalls(x, z, Append(t, b))
        BY <2>2, <3>1, <3>2 DEF AfterCalls
      <3> QED
        BY <2>1, <3>3 DEF x
    <2> QED
      BY <2>4, <2>5
  <1>3. Seq(Blocks) \subseteq S
    <2> HIDE DEF S
    <2> QED
      BY <1>1, <1>2, Growing
  <1> QED
    BY <1>3

\* y is the state z, in which the turn has nothing else yet, after the answers
\* of s.
AfterAnswers(y, z, s) ==
    /\ y \in States
    /\ y.ids = z.ids
    /\ y.ok => /\ z.ok
               /\ IdsOf(s, "tool_result") \subseteq z.pending
               /\ y.pending = z.pending \ IdsOf(s, "tool_result")
               /\ s # <<>> => (IdsOf(s, "tool_result") # {}
                               <=> s[1].kind = "tool_result")
               /\ s # <<>> /\ s[1].kind # "tool_result" => y.other

\* A user turn answers: results first, each of a pending call.
LEMMA AnswersDo ==
    ASSUME NEW z \in States, z.other = FALSE, NEW s \in Seq(Blocks)
    PROVE  AfterAnswers(AnswerAll(z, s), z, s)
  <1> DEFINE S == {t \in Seq(Blocks) : AfterAnswers(AnswerAll(z, t), z, t)}
  <1>1. <<>> \in S
    <2>1. AnswerAll(z, <<>>) = z /\ <<>> \in Seq(Blocks)
      BY AnswerLaw
    <2>2. IdsOf(<<>>, "tool_result") = {}
      BY DEF IdsOf, ToSet
    <2> QED
      BY <2>1, <2>2 DEF AfterAnswers
  <1>2. ASSUME NEW t \in Seq(Blocks), NEW b \in Blocks, t \in S
        PROVE  Append(t, b) \in S
    <2> DEFINE y == AnswerAll(z, t)
               u == Append(t, b)
               x == AnswerAll(z, u)
    <2>1. x = Answer(y, b) /\ u \in Seq(Blocks) /\ u # <<>>
      BY AnswerLaw, EndsAppend
    <2>2. AfterAnswers(y, z, t)
      BY <1>2
    <2>3. u[1] = IF t = <<>> THEN b ELSE t[1]
      OBVIOUS
    <2> HIDE DEF x, y, u
    <2>4. y \in States /\ x \in States
      BY <2>1, <2>2, AnswerType DEF AfterAnswers
    <2>5. ASSUME b.kind = "tool_result" PROVE AfterAnswers(x, z, u)
      <3>1. /\ x.pending = y.pending \ {b.id} /\ x.ids = y.ids
            /\ x.other = y.other /\ x.ok = (y.ok /\ ~y.other /\ b.id \in y.pending)
        BY <2>1, <2>4, <2>5 DEF Answer, States
      <3>2. IdsOf(u, "tool_result") = IdsOf(t, "tool_result") \cup {b.id}
        BY <2>5, IdsAppend DEF u
      <3>3. x.ok => u[1].kind = "tool_result"
        BY <2>2, <2>3, <2>5, <3>1 DEF AfterAnswers
      <3> QED
        BY <2>1, <2>2, <2>4, <3>1, <3>2, <3>3 DEF AfterAnswers
    <2>6. ASSUME b.kind # "tool_result" PROVE AfterAnswers(x, z, u)
      <3>1. /\ x.pending = y.pending /\ x.ids = y.ids /\ x.other = TRUE /\ x.ok = y.ok
        BY <2>1, <2>4, <2>6 DEF Answer, States
      <3>2. IdsOf(u, "tool_result") = IdsOf(t, "tool_result")
        BY <2>6, IdsAppend DEF u
      <3>3. t = <<>> => IdsOf(t, "tool_result") = {}
        BY DEF IdsOf, ToSet
      <3>4. y.ok => (IdsOf(u, "tool_result") # {} <=> u[1].kind = "tool_result")
        BY <2>2, <2>3, <2>6, <3>2, <3>3 DEF AfterAnswers
      <3> QED
        BY <2>1, <2>2, <2>4, <3>1, <3>2, <3>4 DEF AfterAnswers
    <2>7. AfterAnswers(x, z, u)
      BY <2>5, <2>6
    <2> QED
      BY <2>1, <2>7 DEF x, u
  <1>3. Seq(Blocks) \subseteq S
    <2> HIDE DEF S
    <2> QED
      BY <1>1, <1>2, Growing
  <1> QED
    BY <1>3

-----------------------------------------------------------------------------
(* Calls and results of neighbouring turns. *)

TurnsPair(x, y) ==
    /\ IdsOf(x.blocks, "tool_use") = IdsOf(y.blocks, "tool_result")
    /\ IdsOf(x.blocks, "tool_use") # {} <=> y.blocks[1].kind = "tool_result"

Pairs(s) ==
    \A i \in 1 .. Len(s) - 1 : s[i].role = "assistant" => TurnsPair(s[i], s[i + 1])

\* The pending calls after the turns of s: those of a last assistant turn.
PairsUp(s) ==
    Paired(s).ok /\ Alternating(s) /\ AllValid(s) =>
        /\ Pairs(s)
        /\ s = <<>> \/ Last(s).role = "user" => Paired(s).pending = {}
        /\ s # <<>> /\ Last(s).role = "assistant" =>
               Paired(s).pending = IdsOf(Last(s).blocks, "tool_use")

\* The loop stays in its states.
LEMMA PairedType ==
    \A s \in Seq(MessageRecords) : Paired(s) \in States
  <1> DEFINE S == {s \in Seq(MessageRecords) : Paired(s) \in States}
  <1>1. <<>> \in S
    <2>1. <<>> \in Seq(MessageRecords)
      OBVIOUS
    <2> QED
      BY <2>1, PairTurnLaw, NothingPendingType
  <1>2. ASSUME NEW s \in Seq(MessageRecords), NEW m \in MessageRecords, s \in S
        PROVE  Append(s, m) \in S
    <2>1. PairTurn(Paired(s), m) \in States
      BY <1>2, PairTurnType
    <2> QED
      BY <2>1, PairTurnLaw, EndsAppend
  <1>3. Seq(MessageRecords) \subseteq S
    <2> HIDE DEF S
    <2> QED
      BY <1>1, <1>2, Growing
  <1> QED
    BY <1>3

\* An assistant turn: nothing was pending, and its calls are.
LEMMA AssistantTurn ==
    ASSUME NEW z \in States, NEW m \in MessageRecords, m.role = "assistant",
           PairTurn(z, m).ok
    PROVE  /\ z.ok /\ z.pending = {}
           /\ PairTurn(z, m).pending = IdsOf(m.blocks, "tool_use")
  <1> DEFINE y == [z EXCEPT !.ok = @ /\ z.pending = {}]
             t == CallAll(y, m.blocks)
  <1>1. y.ok = (z.ok /\ z.pending = {}) /\ y.pending = z.pending
    BY DEF States
  <1>2. y \in States
    <2>1. (z.ok /\ z.pending = {}) \in BOOLEAN
      OBVIOUS
    <2> QED
      BY <2>1 DEF States
  <1>3. PairTurn(z, m) = t
    BY DEF PairTurn, CallAll
  <1> HIDE DEF y
  <1>4. m.blocks \in Seq(Blocks)
    BY DEF MessageRecords
  <1>5. AfterCalls(t, y, m.blocks)
    BY <1>2, <1>4, CallsDo
  <1> HIDE DEF t
  <1>6. y.ok
    BY <1>3, <1>5 DEF AfterCalls
  <1>7. z.ok /\ z.pending = {}
    BY <1>1, <1>6
  <1>8. t.pending = IdsOf(m.blocks, "tool_use")
    BY <1>1, <1>5, <1>7 DEF AfterCalls
  <1> QED
    BY <1>3, <1>7, <1>8

\* A user turn: its results are those that were pending.
LEMMA UserTurn ==
    ASSUME NEW z \in States, NEW m \in MessageRecords, m.role = "user",
           m.blocks # <<>>, PairTurn(z, m).ok
    PROVE  /\ z.ok /\ PairTurn(z, m).pending = {}
           /\ z.pending = IdsOf(m.blocks, "tool_result")
           /\ z.pending # {} <=> m.blocks[1].kind = "tool_result"
  <1> DEFINE y == [z EXCEPT !.other = FALSE]
             t == AnswerAll(y, m.blocks)
  <1>1. y \in States /\ y.other = FALSE /\ y.ok = z.ok /\ y.pending = z.pending
    BY DEF States
  <1>2. PairTurn(z, m) = [t EXCEPT !.ok = @ /\ t.pending = {}]
    BY DEF PairTurn, AnswerAll
  <1> HIDE DEF y
  <1>3. m.blocks \in Seq(Blocks)
    BY DEF MessageRecords
  <1>4. AfterAnswers(t, y, m.blocks)
    BY <1>1, <1>3, AnswersDo
  <1> HIDE DEF t
  <1>5. t \in States
    BY <1>4 DEF AfterAnswers
  <1>6. /\ PairTurn(z, m).ok = (t.ok /\ t.pending = {})
        /\ PairTurn(z, m).pending = t.pending
    BY <1>2, <1>5 DEF States
  <1>7. t.ok /\ t.pending = {}
    BY <1>6
  <1> QED
    BY <1>1, <1>4, <1>6, <1>7 DEF AfterAnswers

\* One turn more still pairs up.
LEMMA PairsUpStep ==
    ASSUME NEW s \in Seq(MessageRecords), NEW m \in MessageRecords, PairsUp(s)
    PROVE  PairsUp(Append(s, m))
  <1> DEFINE n == Len(s)
             t == Append(s, m)
             z == Paired(s)
  <1>1. /\ n \in Nat /\ Len(t) = n + 1 /\ t[n + 1] = m /\ Last(t) = m /\ t # <<>>
        /\ \A i \in 1 .. n : t[i] = s[i]
    BY EndsAppend
  <1>2. Paired(t) = PairTurn(z, m) /\ z \in States
    BY PairTurnLaw, PairedType
  <1> SUFFICES ASSUME Paired(t).ok, Alternating(t), AllValid(t)
               PROVE  /\ Pairs(t)
                      /\ m.role = "user" => Paired(t).pending = {}
                      /\ m.role = "assistant" =>
                             Paired(t).pending = IdsOf(m.blocks, "tool_use")
    <2>1. ~("user" = "assistant")
      OBVIOUS
    <2> HIDE DEF t
    <2> QED
      BY <1>1 DEF PairsUp, t
  <1>3. /\ Alternating(s) /\ (s # <<>> => Last(s).role # m.role)
        /\ AllValid(s) /\ ValidMessage(m)
    BY AlternatingAppend, AllValidAppend
  <1>4. m.role = "user" \/ m.role = "assistant"
    BY <1>3, ValidRole
  <1> HIDE DEF t, z
  <1>5. z.ok
    <2>1. m.blocks # <<>>
      BY <1>3 DEF ValidMessage
    <2> QED
      BY <1>2, <1>4, <2>1, AssistantTurn, UserTurn
  <1>6. /\ Pairs(s)
        /\ s = <<>> \/ Last(s).role = "user" => z.pending = {}
        /\ s # <<>> /\ Last(s).role = "assistant" =>
               z.pending = IdsOf(Last(s).blocks, "tool_use")
    BY <1>3, <1>5 DEF PairsUp, z
  <1>7. s # <<>> <=> n # 0
    OBVIOUS
  <1>8. ASSUME n # 0 /\ s[n].role = "assistant" => TurnsPair(s[n], m)
        PROVE  Pairs(t)
    <2>1. ASSUME NEW i \in 1 .. n, t[i].role = "assistant"
          PROVE  TurnsPair(t[i], t[i + 1])
      <3>1. CASE i = n
        BY <1>1, <1>8, <2>1, <3>1
      <3>2. CASE i # n
        <4>1. i \in 1 .. n - 1 /\ i + 1 \in 1 .. n
          BY <1>1, <3>2
        <4>2. s[i].role = "assistant" => TurnsPair(s[i], s[i + 1])
          BY <1>6, <4>1 DEF Pairs
        <4> QED
          BY <1>1, <2>1, <4>1, <4>2
      <3> QED
        BY <3>1, <3>2
    <2>2. (n + 1) - 1 = n
      BY <1>1
    <2> HIDE DEF n
    <2> QED
      BY <1>1, <2>1, <2>2 DEF Pairs
  <1>9. CASE m.role = "assistant"
    <2>1. Paired(t).pending = IdsOf(m.blocks, "tool_use")
      BY <1>2, <1>9, AssistantTurn
    <2>2. n # 0 => s[n].role # "assistant"
      BY <1>3, <1>7, <1>9 DEF Last
    <2> QED
      BY <1>8, <1>9, <2>1, <2>2
  <1>10. CASE m.role = "user"
    <2>1. m.blocks # <<>>
      BY <1>3 DEF ValidMessage
    <2>2. /\ Paired(t).pending = {}
          /\ z.pending = IdsOf(m.blocks, "tool_result")
          /\ z.pending # {} <=> m.blocks[1].kind = "tool_result"
      BY <1>2, <1>10, <2>1, UserTurn
    <2>3. n # 0 /\ s[n].role = "assistant" => TurnsPair(s[n], m)
      BY <1>6, <1>7, <2>2 DEF Last, TurnsPair
    <2> QED
      BY <1>8, <1>10, <2>2, <2>3
  <1> QED
    BY <1>4, <1>9, <1>10

\* In what the loop accepts, every turn answers the one before.
LEMMA AlwaysPairsUp ==
    \A s \in Seq(MessageRecords) : PairsUp(s)
  <1> DEFINE S == {s \in Seq(MessageRecords) : PairsUp(s)}
  <1>1. <<>> \in S
    <2>1. <<>> \in Seq(MessageRecords) /\ Len(<<>>) = 0
      OBVIOUS
    <2>2. Paired(<<>>).pending = {}
      BY PairTurnLaw DEF NothingPending
    <2>3. Pairs(<<>>)
      BY <2>1 DEF Pairs
    <2> QED
      BY <2>1, <2>2, <2>3 DEF PairsUp
  <1>2. ASSUME NEW s \in Seq(MessageRecords), NEW m \in MessageRecords, s \in S
        PROVE  Append(s, m) \in S
    BY <1>2, PairsUpStep, EndsAppend
  <1>3. Seq(MessageRecords) \subseteq S
    <2> HIDE DEF S
    <2> QED
      BY <1>1, <1>2, Growing
  <1> QED
    BY <1>3

\* TranscriptPairsCalls, of any messages.
LEMMA AcceptedPairsCalls ==
    ASSUME NEW s \in Seq(MessageRecords), Validates(s)
    PROVE  LET rows == SeedHistory(Merge(s)).rows
               Ids(i, kind) == {b.id : b \in {x \in ToSet(rows[i].blocks) : x.kind = kind}}
           IN \A i \in DOMAIN rows : rows[i].role = "assistant" =>
               /\ i < Len(rows)
               /\ Ids(i, "tool_use") = Ids(i + 1, "tool_result")
               /\ rows[i].stop = "tool_use" <=> rows[i + 1].blocks[1].kind = "tool_result"
  <1> DEFINE M == Merge(s)
             n == Len(M)
             rows == SeedHistory(M).rows
  <1>1. /\ M # <<>> /\ M \in Seq(MessageRecords) /\ Paired(M).ok
        /\ Last(M).role = "user" /\ AllValid(M) /\ Alternating(M)
    BY AcceptedIsMerged
  <1> HIDE DEF M
  <1>2. n \in Nat /\ n >= 1
    BY <1>1
  <1>3. Pairs(M)
    BY <1>1, AlwaysPairsUp DEF PairsUp
  <1>4. ASSUME NEW i \in DOMAIN rows, rows[i].role = "assistant"
        PROVE  /\ i < Len(rows)
               /\ IdsOf(rows[i].blocks, "tool_use") = IdsOf(rows[i + 1].blocks, "tool_result")
               /\ rows[i].stop = "tool_use" <=> rows[i + 1].blocks[1].kind = "tool_result"
    <2>1. n # 1
      <3>1. SUFFICES ASSUME n = 1 PROVE FALSE
        OBVIOUS
      <3>2. rows = <<>>
        BY <3>1 DEF SeedHistory, NoHistory
      <3> QED
        BY <1>4, <3>2
    <2>2. SeedHistory(M) = Seeded(M)
      BY <2>1 DEF SeedHistory, Seeded
    <2>3. Writes(SeedHistory(M), M)
      BY <1>1, <2>2, SeededWrites DEF IsSeeded
    <2>4. Len(rows) = n /\ DOMAIN rows = 1 .. n
      <3>1. rows \in Seq(Rows) /\ Len(rows) = n
        BY <2>3 DEF Writes, Histories
      <3> QED
        BY <3>1
    <2>5. \A j \in 1 .. n : IsRow(rows[j], j, M[j])
      BY <2>3 DEF Writes
    <2> HIDE DEF rows
    <2>6. i \in 1 .. n /\ M[i].role = "assistant"
      BY <1>4, <2>4, <2>5 DEF IsRow
    <2>7. i # n
      BY <1>1, <2>6 DEF Last
    <2>8. i \in 1 .. n - 1 /\ i + 1 \in 1 .. n /\ i < n
      BY <1>2, <2>6, <2>7
    <2>9. TurnsPair(M[i], M[i + 1])
      BY <1>3, <2>6, <2>8 DEF Pairs
    <2>10. /\ rows[i].blocks = M[i].blocks /\ rows[i + 1].blocks = M[i + 1].blocks
           /\ rows[i].stop = StopReason(M[i])
      BY <2>5, <2>6, <2>8 DEF IsRow
    <2>11. StopReason(M[i]) = "tool_use" <=> IdsOf(M[i].blocks, "tool_use") # {}
      <3>1. StopReason(M[i]) = "tool_use" <=>
                \E j \in DOMAIN M[i].blocks : M[i].blocks[j].kind = "tool_use"
        BY <2>6 DEF StopReason
      <3>2. IdsOf(M[i].blocks, "tool_use") # {} <=>
                \E j \in DOMAIN M[i].blocks : M[i].blocks[j].kind = "tool_use"
        BY DEF IdsOf, ToSet
      <3> QED
        BY <3>1, <3>2
    <2> QED
      BY <2>4, <2>8, <2>9, <2>10, <2>11 DEF TurnsPair
  <1> QED
    BY <1>4 DEF IdsOf, M

-----------------------------------------------------------------------------
(* The reference while the caller writes, one message and one block at a    *)
(* time.  P are the places, at and turn what is there and in which turn;    *)
(* calls of the last turn but one, or of the last, may still be answered.   *)

CallsIn(P, at) == {p \in P : at[p].kind = "tool_use"}

ResultsIn(P, at) == {p \in P : at[p].kind = "tool_result"}

Replies(at, turn, r, c) == at[r].id = at[c].id /\ turn[r] = turn[c] + 1

Unanswered(P, at, turn) ==
    {c \in CallsIn(P, at) : \A r \in ResultsIn(P, at) : ~Replies(at, turn, r, c)}

IdsAt(at, S) == {at[p].id : p \in S}

ResultSound(P, at, turn, r) ==
    /\ \E c \in CallsIn(P, at) : Replies(at, turn, r, c)
    /\ \A q \in ResultsIn(P, at) : at[q].id = at[r].id /\ turn[q] = turn[r] => q = r
    /\ \A p \in P : turn[p] = turn[r] /\ Precedes(p, r) => p \in ResultsIn(P, at)

Sound(P, at, turn, T) ==
    /\ \A c, d \in CallsIn(P, at) : at[c].id = at[d].id => c = d
    /\ \A c \in Unanswered(P, at, turn) : turn[c] + 1 >= T
    /\ \A r \in ResultsIn(P, at) : ResultSound(P, at, turn, r)

\* What the pairing loop must know of them.
Tells(c, P, at, turn, T, user) ==
    /\ c \in States
    /\ c.ok <=> Sound(P, at, turn, T)
    /\ c.ok => /\ c.ids = IdsAt(at, CallsIn(P, at))
               /\ c.pending = IdsAt(at, Unanswered(P, at, turn))
    /\ user = "user" => (c.other <=> \E p \in P : turn[p] = T /\ p \notin ResultsIn(P, at))

\* p comes after the places P, in the last turn T.
Newest(p, P, turn, T) ==
    /\ p \notin P /\ turn[p] = T /\ T \in Nat
    /\ \A q \in P : turn[q] \in 0 .. T /\ Precedes(q, p) /\ ~Precedes(p, q)
    /\ ~Precedes(p, p)

\* A block that is neither call nor result.
LEMMA OtherBlock ==
    ASSUME NEW P, NEW at, NEW turn, NEW T, NEW p, Newest(p, P, turn, T),
           at[p].kind # "tool_use", at[p].kind # "tool_result"
    PROVE  /\ CallsIn(P \cup {p}, at) = CallsIn(P, at)
           /\ ResultsIn(P \cup {p}, at) = ResultsIn(P, at)
           /\ Unanswered(P \cup {p}, at, turn) = Unanswered(P, at, turn)
           /\ Sound(P \cup {p}, at, turn, T) <=> Sound(P, at, turn, T)
  <1>1. /\ CallsIn(P \cup {p}, at) = CallsIn(P, at)
        /\ ResultsIn(P \cup {p}, at) = ResultsIn(P, at)
    BY DEF CallsIn, ResultsIn
  <1>2. Unanswered(P \cup {p}, at, turn) = Unanswered(P, at, turn)
    BY <1>1 DEF Unanswered
  <1>3. \A r \in ResultsIn(P, at) :
            ResultSound(P \cup {p}, at, turn, r) <=> ResultSound(P, at, turn, r)
    <2> TAKE r \in ResultsIn(P, at)
    <2>1. r \in P /\ ~Precedes(p, r)
      BY DEF ResultsIn, Newest
    <2> QED
      BY <1>1, <2>1 DEF ResultSound
  <1> QED
    BY <1>1, <1>2, <1>3 DEF Sound

\* A new call, in a turn without results.
LEMMA NewCall ==
    ASSUME NEW P, NEW at, NEW turn, NEW T, NEW p, Newest(p, P, turn, T),
           at[p].kind = "tool_use"
    PROVE  /\ CallsIn(P \cup {p}, at) = CallsIn(P, at) \cup {p}
           /\ Unanswered(P \cup {p}, at, turn) = Unanswered(P, at, turn) \cup {p}
           /\ Sound(P \cup {p}, at, turn, T) <=>
                  /\ Sound(P, at, turn, T)
                  /\ at[p].id \notin IdsAt(at, CallsIn(P, at))
  <1>1. /\ CallsIn(P \cup {p}, at) = CallsIn(P, at) \cup {p}
        /\ ResultsIn(P \cup {p}, at) = ResultsIn(P, at)
        /\ p \notin CallsIn(P, at) /\ p \notin ResultsIn(P, at)
    BY DEF CallsIn, ResultsIn, Newest
  <1>2. \A r \in ResultsIn(P, at) : r \in P /\ ~Replies(at, turn, r, p)
    <2> TAKE r \in ResultsIn(P, at)
    <2>1. r \in P /\ turn[r] \in 0 .. T /\ turn[p] = T /\ T \in Nat
      BY DEF ResultsIn, Newest
    <2>2. turn[r] # turn[p] + 1
      BY <2>1
    <2> QED
      BY <2>1, <2>2 DEF Replies
  <1>3. Unanswered(P \cup {p}, at, turn) = Unanswered(P, at, turn) \cup {p}
    BY <1>1, <1>2 DEF Unanswered
  <1>4. \A r \in ResultsIn(P, at) :
            ResultSound(P \cup {p}, at, turn, r) <=> ResultSound(P, at, turn, r)
    <2> TAKE r \in ResultsIn(P, at)
    <2>1. r \in P /\ ~Precedes(p, r)
      BY DEF ResultsIn, Newest
    <2> QED
      BY <1>1, <1>2, <2>1 DEF ResultSound
  <1>5. turn[p] + 1 >= T
    BY DEF Newest
  <1>6. (\A c, d \in CallsIn(P, at) \cup {p} : at[c].id = at[d].id => c = d)
        <=> /\ \A c, d \in CallsIn(P, at) : at[c].id = at[d].id => c = d
            /\ at[p].id \notin IdsAt(at, CallsIn(P, at))
    BY <1>1 DEF IdsAt
  <1> QED
    BY <1>1, <1>3, <1>4, <1>5, <1>6 DEF Sound

\* A new result, in a turn without calls.
LEMMA NewResult ==
    ASSUME NEW P, NEW at, NEW turn, NEW T, NEW p, Newest(p, P, turn, T),
           at[p].kind = "tool_result",
           \A c \in CallsIn(P, at) : turn[c] # T
    PROVE  /\ CallsIn(P \cup {p}, at) = CallsIn(P, at)
           /\ ResultsIn(P \cup {p}, at) = ResultsIn(P, at) \cup {p}
           /\ Sound(P \cup {p}, at, turn, T) <=>
                  /\ Sound(P, at, turn, T)
                  /\ ~\E q \in P : turn[q] = T /\ q \notin ResultsIn(P, at)
                  /\ at[p].id \in IdsAt(at, Unanswered(P, at, turn))
  <1> DEFINE Q == P \cup {p}
             C == CallsIn(P, at)
             R == ResultsIn(P, at)
             U == Unanswered(P, at, turn)
             V == Unanswered(Q, at, turn)
  <1>1. /\ CallsIn(Q, at) = C /\ ResultsIn(Q, at) = R \cup {p}
        /\ p \notin C /\ p \notin R /\ p \notin P
        /\ C \subseteq P /\ R \subseteq P
    BY DEF CallsIn, ResultsIn, Newest
  <1>2. /\ turn[p] = T /\ T \in Nat /\ ~Precedes(p, p)
        /\ \A q \in P : turn[q] \in 0 .. T /\ Precedes(q, p) /\ ~Precedes(p, q)
    BY DEF Newest
  <1>3. V = {c \in U : ~Replies(at, turn, p, c)}
    BY <1>1 DEF Unanswered
  <1>a. U \subseteq C
    BY DEF Unanswered
  <1> HIDE DEF C, R, U, V, Q
  <1>4. \A r \in R : ResultSound(Q, at, turn, r) <=>
                         ResultSound(P, at, turn, r) /\ ~(at[p].id = at[r].id /\ turn[r] = T)
    <2> TAKE r \in R
    <2>1. r \in P /\ ~Precedes(p, r) /\ p # r
      BY <1>1, <1>2
    <2>2. (\E c \in CallsIn(Q, at) : Replies(at, turn, r, c)) <=>
          \E c \in CallsIn(P, at) : Replies(at, turn, r, c)
      BY <1>1 DEF C
    <2>3. (\A q \in ResultsIn(Q, at) : at[q].id = at[r].id /\ turn[q] = turn[r] => q = r) <=>
          /\ \A q \in ResultsIn(P, at) : at[q].id = at[r].id /\ turn[q] = turn[r] => q = r
          /\ ~(at[p].id = at[r].id /\ turn[r] = T)
      BY <1>1, <1>2, <2>1 DEF R
    <2>4. (\A q \in Q : turn[q] = turn[r] /\ Precedes(q, r) => q \in ResultsIn(Q, at)) <=>
          \A q \in P : turn[q] = turn[r] /\ Precedes(q, r) => q \in ResultsIn(P, at)
      BY <1>1, <2>1 DEF R, Q
    <2> QED
      BY <2>2, <2>3, <2>4 DEF ResultSound
  <1>5. ResultSound(Q, at, turn, p) <=>
            /\ \E c \in C : Replies(at, turn, p, c)
            /\ \A q \in R : ~(at[q].id = at[p].id /\ turn[q] = T)
            /\ ~\E q \in P : turn[q] = T /\ q \notin R
    <2>1. (\E c \in CallsIn(Q, at) : Replies(at, turn, p, c)) <=>
          \E c \in C : Replies(at, turn, p, c)
      BY <1>1
    <2>2. (\A q \in ResultsIn(Q, at) : at[q].id = at[p].id /\ turn[q] = turn[p] => q = p) <=>
          \A q \in R : ~(at[q].id = at[p].id /\ turn[q] = T)
      BY <1>1, <1>2
    <2>3. (\A q \in Q : turn[q] = turn[p] /\ Precedes(q, p) => q \in ResultsIn(Q, at)) <=>
          ~\E q \in P : turn[q] = T /\ q \notin R
      BY <1>1, <1>2 DEF Q
    <2> QED
      BY <2>1, <2>2, <2>3 DEF ResultSound
  <1>6. Sound(Q, at, turn, T) <=>
            /\ \A c, d \in C : at[c].id = at[d].id => c = d
            /\ \A c \in V : turn[c] + 1 >= T
            /\ \A r \in R : ResultSound(Q, at, turn, r)
            /\ ResultSound(Q, at, turn, p)
    BY <1>1 DEF Sound, V
  <1>7. Sound(P, at, turn, T) <=>
            /\ \A c, d \in C : at[c].id = at[d].id => c = d
            /\ \A c \in U : turn[c] + 1 >= T
            /\ \A r \in R : ResultSound(P, at, turn, r)
    BY DEF Sound, C, U, R
  <1>8. \A c \in C : turn[c] \in 0 .. T /\ turn[c] # T
    BY <1>1, <1>2 DEF C
  <1>9. \A c \in C : c \in U \/ \E r \in R : Replies(at, turn, r, c)
    BY DEF U, Unanswered, C, R
  <1>10. ASSUME Sound(Q, at, turn, T)
         PROVE  /\ Sound(P, at, turn, T)
                /\ ~\E q \in P : turn[q] = T /\ q \notin R
                /\ at[p].id \in IdsAt(at, U)
    <2>1. PICK c \in C : Replies(at, turn, p, c)
      BY <1>5, <1>6, <1>10
    <2>2. at[c].id = at[p].id /\ T = turn[c] + 1
      BY <1>2, <2>1 DEF Replies
    <2>3. c \in U
      BY <1>5, <1>6, <1>9, <1>10, <2>2 DEF Replies
    <2>4. \A d \in U : turn[d] + 1 >= T
      <3> SUFFICES ASSUME NEW d \in U, d \notin V PROVE turn[d] + 1 >= T
        BY <1>6, <1>10
      <3>1. Replies(at, turn, p, d) /\ turn[d] \in 0 .. T
        BY <1>3, <1>8, <1>a
      <3> QED
        BY <1>2, <3>1 DEF Replies
    <2>5. \A r \in R : ResultSound(P, at, turn, r)
      BY <1>4, <1>6, <1>10
    <2> QED
      BY <1>5, <1>6, <1>7, <1>10, <2>2, <2>3, <2>4, <2>5 DEF IdsAt
  <1>11. ASSUME Sound(P, at, turn, T),
                ~\E q \in P : turn[q] = T /\ q \notin R,
                at[p].id \in IdsAt(at, U)
         PROVE  Sound(Q, at, turn, T)
    <2>1. PICK c \in U : at[c].id = at[p].id
      BY <1>11 DEF IdsAt
    <2>2. turn[c] + 1 = T
      <3>1. turn[c] + 1 >= T /\ turn[c] \in 0 .. T /\ turn[c] # T
        BY <1>7, <1>8, <1>11, <1>a
      <3> QED
        BY <1>2, <3>1
    <2>3. Replies(at, turn, p, c)
      BY <1>2, <2>1, <2>2 DEF Replies
    <2>4. \A r \in R : ~Replies(at, turn, r, c)
      BY <2>1 DEF U, Unanswered, R
    <2>5. \A r \in R : ~(at[r].id = at[p].id /\ turn[r] = T)
      BY <2>1, <2>2, <2>4 DEF Replies
    <2>6. ResultSound(Q, at, turn, p)
      BY <1>5, <1>11, <1>a, <2>3, <2>5
    <2>7. \A r \in R : ResultSound(Q, at, turn, r)
      BY <1>4, <1>7, <1>11, <2>5
    <2>8. \A d \in V : turn[d] + 1 >= T
      BY <1>3, <1>7, <1>11
    <2> QED
      BY <1>6, <1>7, <1>11, <2>6, <2>7, <2>8
  <1> QED
    BY <1>1, <1>10, <1>11 DEF Q, C, R, U, V

\* It answers the calls of its id, whatever turn they are from.
LEMMA NewResultAnswers ==
    ASSUME NEW P, NEW at, NEW turn, NEW T, NEW p, Newest(p, P, turn, T),
           at[p].kind = "tool_result",
           \A c \in CallsIn(P, at) : turn[c] # T,
           Sound(P \cup {p}, at, turn, T)
    PROVE  \A x : x \in IdsAt(at, Unanswered(P \cup {p}, at, turn)) <=>
                  x \in IdsAt(at, Unanswered(P, at, turn)) /\ x # at[p].id
  <1> DEFINE Q == P \cup {p}
             C == CallsIn(P, at)
             U == Unanswered(P, at, turn)
             V == Unanswered(Q, at, turn)
  <1>1. CallsIn(Q, at) = C /\ ResultsIn(Q, at) = ResultsIn(P, at) \cup {p} /\ C \subseteq P
    BY DEF CallsIn, ResultsIn
  <1>2. turn[p] = T /\ T \in Nat /\ \A q \in P : turn[q] \in 0 .. T
    BY DEF Newest
  <1>3. V = {c \in U : ~Replies(at, turn, p, c)}
    BY <1>1 DEF Unanswered
  <1>4. Sound(P, at, turn, T)
    BY NewResult
  <1>5. \A c \in U : c \in C /\ turn[c] + 1 >= T
    BY <1>4 DEF Unanswered, Sound
  <1> HIDE DEF C, U, V, Q
  <1>6. ASSUME NEW c \in U PROVE Replies(at, turn, p, c) <=> at[c].id = at[p].id
    <2>1. turn[c] \in 0 .. T /\ turn[c] # T /\ turn[c] + 1 >= T
      BY <1>1, <1>2, <1>5 DEF C
    <2>2. T = turn[c] + 1
      BY <1>2, <2>1
    <2> QED
      BY <1>2, <2>2 DEF Replies
  <1>7. \A x : x \in IdsAt(at, V) <=> x \in IdsAt(at, U) /\ x # at[p].id
    BY <1>3, <1>6 DEF IdsAt
  <1> QED
    BY <1>7 DEF Q, U, V

\* A new turn: what the turn before the last called is answered by now.
LEMMA NewTurn ==
    ASSUME NEW P, NEW at, NEW turn, NEW T \in Nat,
           \A q \in P : turn[q] \in 0 .. T
    PROVE  Sound(P, at, turn, T + 1) <=>
               /\ Sound(P, at, turn, T)
               /\ \A c \in Unanswered(P, at, turn) : turn[c] = T
  <1> DEFINE U == Unanswered(P, at, turn)
  <1>1. \A c \in U : turn[c] \in 0 .. T
    BY DEF Unanswered, CallsIn
  <1> HIDE DEF U
  <1>2. (\A c \in U : turn[c] + 1 >= T + 1) <=>
            (\A c \in U : turn[c] + 1 >= T) /\ \A c \in U : turn[c] = T
    BY <1>1
  <1> QED
    BY <1>2 DEF Sound, U

\* A block of an assistant turn.
LEMMA TellsCall ==
    ASSUME NEW P, NEW at, NEW turn, NEW T, NEW p, Newest(p, P, turn, T),
           at[p] \in Blocks, at[p].kind # "tool_result",
           NEW c, Tells(c, P, at, turn, T, "assistant")
    PROVE  Tells(Call(c, at[p]), P \cup {p}, at, turn, T, "assistant")
  <1> DEFINE d == Call(c, at[p])
             Q == P \cup {p}
  <1>1. c \in States /\ d \in States
    BY CallType DEF Tells
  <1>2. ~("assistant" = "user")
    OBVIOUS
  <1>3. CASE at[p].kind = "tool_use"
    <2>1. /\ d.pending = c.pending \cup {at[p].id} /\ d.ids = c.ids \cup {at[p].id}
          /\ d.ok = (c.ok /\ at[p].id \notin c.ids)
      BY <1>1, <1>3 DEF Call, States
    <2>2. /\ CallsIn(Q, at) = CallsIn(P, at) \cup {p}
          /\ Unanswered(Q, at, turn) = Unanswered(P, at, turn) \cup {p}
          /\ Sound(Q, at, turn, T) <=>
                 /\ Sound(P, at, turn, T)
                 /\ at[p].id \notin IdsAt(at, CallsIn(P, at))
      BY <1>3, NewCall
    <2> HIDE DEF d, Q
    <2>3. d.ok <=> Sound(Q, at, turn, T)
      BY <2>1, <2>2 DEF Tells
    <2>4. ASSUME d.ok
          PROVE  /\ d.ids = IdsAt(at, CallsIn(Q, at))
                 /\ d.pending = IdsAt(at, Unanswered(Q, at, turn))
      <3>1. /\ c.ids = IdsAt(at, CallsIn(P, at))
            /\ c.pending = IdsAt(at, Unanswered(P, at, turn))
        BY <2>1, <2>4 DEF Tells
      <3> QED
        BY <2>1, <2>2, <3>1 DEF IdsAt
    <2> QED
      BY <1>1, <1>2, <2>3, <2>4 DEF Tells, d, Q
  <1>4. CASE at[p].kind # "tool_use"
    <2>1. d = c
      BY <1>4 DEF Call
    <2>2. /\ CallsIn(Q, at) = CallsIn(P, at)
          /\ Unanswered(Q, at, turn) = Unanswered(P, at, turn)
          /\ Sound(Q, at, turn, T) <=> Sound(P, at, turn, T)
      BY <1>4, OtherBlock
    <2> HIDE DEF d, Q
    <2> QED
      BY <1>2, <2>1, <2>2 DEF Tells, d, Q
  <1> QED
    BY <1>3, <1>4

\* A block of a user turn.
LEMMA TellsAnswer ==
    ASSUME NEW P, NEW at, NEW turn, NEW T, NEW p, Newest(p, P, turn, T),
           at[p] \in Blocks, at[p].kind # "tool_use",
           \A q \in CallsIn(P, at) : turn[q] # T,
           NEW c, Tells(c, P, at, turn, T, "user")
    PROVE  Tells(Answer(c, at[p]), P \cup {p}, at, turn, T, "user")
  <1> DEFINE d == Answer(c, at[p])
             Q == P \cup {p}
             Other(S) == \E q \in S : turn[q] = T /\ q \notin ResultsIn(S, at)
  <1>1. c \in States /\ d \in States
    BY AnswerType DEF Tells
  <1>2. c.other <=> Other(P)
    BY DEF Tells
  <1>3. turn[p] = T /\ p \notin P
    BY DEF Newest
  <1>4. CASE at[p].kind = "tool_result"
    <2>1. /\ d.pending = c.pending \ {at[p].id} /\ d.ids = c.ids /\ d.other = c.other
          /\ d.ok = (c.ok /\ ~c.other /\ at[p].id \in c.pending)
      BY <1>1, <1>4 DEF Answer, States
    <2>2. /\ CallsIn(Q, at) = CallsIn(P, at)
          /\ ResultsIn(Q, at) = ResultsIn(P, at) \cup {p}
          /\ Sound(Q, at, turn, T) <=>
                 /\ Sound(P, at, turn, T)
                 /\ ~Other(P)
                 /\ at[p].id \in IdsAt(at, Unanswered(P, at, turn))
          /\ Sound(Q, at, turn, T) =>
                 IdsAt(at, Unanswered(Q, at, turn))
                 = IdsAt(at, Unanswered(P, at, turn)) \ {at[p].id}
      <3>1. /\ CallsIn(Q, at) = CallsIn(P, at)
            /\ ResultsIn(Q, at) = ResultsIn(P, at) \cup {p}
        BY <1>3, <1>4 DEF CallsIn, ResultsIn
      <3>2. Sound(Q, at, turn, T) <=>
                /\ Sound(P, at, turn, T)
                /\ ~Other(P)
                /\ at[p].id \in IdsAt(at, Unanswered(P, at, turn))
        BY <1>4, NewResult
      <3>3. Sound(Q, at, turn, T) =>
                IdsAt(at, Unanswered(Q, at, turn))
                = IdsAt(at, Unanswered(P, at, turn)) \ {at[p].id}
        <4> HAVE Sound(P \cup {p}, at, turn, T)
        <4>1. \A x : x \in IdsAt(at, Unanswered(P \cup {p}, at, turn)) <=>
                     x \in IdsAt(at, Unanswered(P, at, turn)) /\ x # at[p].id
          BY <1>4, NewResultAnswers
        <4> QED
          BY <4>1
      <3> QED
        BY <3>1, <3>2, <3>3
    <2>3. Other(Q) <=> Other(P)
      BY <1>3, <2>2
    <2> HIDE DEF d, Q, Other
    <2>4. d.ok <=> Sound(Q, at, turn, T)
      BY <1>2, <2>1, <2>2 DEF Tells
    <2>5. ASSUME d.ok
          PROVE  /\ d.ids = IdsAt(at, CallsIn(Q, at))
                 /\ d.pending = IdsAt(at, Unanswered(Q, at, turn))
      <3>1. /\ c.ids = IdsAt(at, CallsIn(P, at))
            /\ c.pending = IdsAt(at, Unanswered(P, at, turn))
        BY <2>1, <2>5 DEF Tells
      <3> QED
        BY <2>1, <2>2, <2>4, <2>5, <3>1
    <2>6. d.other <=> Other(Q)
      BY <1>2, <2>1, <2>3
    <2> QED
      BY <1>1, <2>4, <2>5, <2>6 DEF Tells, d, Q, Other
  <1>5. CASE at[p].kind # "tool_result"
    <2>1. /\ d.pending = c.pending /\ d.ids = c.ids /\ d.other = TRUE /\ d.ok = c.ok
      BY <1>1, <1>5 DEF Answer, States
    <2>2. /\ CallsIn(Q, at) = CallsIn(P, at)
          /\ ResultsIn(Q, at) = ResultsIn(P, at)
          /\ Unanswered(Q, at, turn) = Unanswered(P, at, turn)
          /\ Sound(Q, at, turn, T) <=> Sound(P, at, turn, T)
      BY <1>5, OtherBlock
    <2>3. Other(Q)
      <3>1. p \in Q /\ p \notin ResultsIn(Q, at)
        BY <1>5 DEF ResultsIn
      <3> QED
        BY <1>3, <3>1
    <2> HIDE DEF d, Q, Other
    <2>4. d.other <=> Other(Q)
      BY <2>1, <2>3
    <2>5. d.ok <=> Sound(Q, at, turn, T)
      BY <2>1, <2>2 DEF Tells
    <2>6. ASSUME d.ok
          PROVE  /\ d.ids = IdsAt(at, CallsIn(Q, at))
                 /\ d.pending = IdsAt(at, Unanswered(Q, at, turn))
      BY <2>1, <2>2, <2>6 DEF Tells
    <2> QED
      BY <1>1, <2>4, <2>5, <2>6 DEF Tells, d, Q, Other
  <1> QED
    BY <1>4, <1>5

\* An assistant turn begins after a user turn: nothing may be pending.
LEMMA TellsAssistantTurn ==
    ASSUME NEW P, NEW at, NEW turn, NEW T \in Nat,
           \A q \in P : turn[q] \in 0 .. T,
           \A q \in CallsIn(P, at) : turn[q] # T,
           NEW c, Tells(c, P, at, turn, T, "user"),
           NEW d \in States, d.ids = c.ids, d.pending = c.pending,
           d.ok <=> c.ok /\ c.pending = {}
    PROVE  Tells(d, P, at, turn, T + 1, "assistant")
  <1> DEFINE U == Unanswered(P, at, turn)
  <1>1. Sound(P, at, turn, T + 1) <=> Sound(P, at, turn, T) /\ \A u \in U : turn[u] = T
    BY NewTurn
  <1>2. \A u \in U : turn[u] # T
    BY DEF Unanswered
  <1>3. c.ok => c.pending = IdsAt(at, U)
    BY DEF Tells
  <1>4. c.ok <=> Sound(P, at, turn, T)
    BY DEF Tells
  <1> HIDE DEF U
  <1>5. IdsAt(at, U) = {} <=> U = {}
    BY DEF IdsAt
  <1>6. d.ok <=> Sound(P, at, turn, T + 1)
    BY <1>1, <1>2, <1>3, <1>4, <1>5
  <1>7. ~("assistant" = "user")
    OBVIOUS
  <1>8. d.ok => /\ d.ids = IdsAt(at, CallsIn(P, at))
                /\ d.pending = IdsAt(at, U)
    BY <1>3 DEF Tells
  <1> QED
    BY <1>6, <1>7, <1>8 DEF Tells, U

\* A user turn begins after an assistant turn: its calls may be pending.
LEMMA TellsUserTurn ==
    ASSUME NEW P, NEW at, NEW turn, NEW T \in Nat,
           \A q \in P : turn[q] \in 0 .. T,
           \A q \in CallsIn(P, at) : turn[q] # T - 1,
           NEW c, Tells(c, P, at, turn, T, "assistant"),
           NEW d \in States, d.ids = c.ids, d.pending = c.pending,
           d.ok <=> c.ok, d.other = FALSE
    PROVE  Tells(d, P, at, turn, T + 1, "user")
  <1> DEFINE U == Unanswered(P, at, turn)
  <1>1. Sound(P, at, turn, T + 1) <=> Sound(P, at, turn, T) /\ \A u \in U : turn[u] = T
    BY NewTurn
  <1>2. \A u \in U : turn[u] # T - 1 /\ turn[u] \in 0 .. T
    BY DEF Unanswered, CallsIn
  <1>3. Sound(P, at, turn, T) => \A u \in U : turn[u] + 1 >= T
    BY DEF Sound
  <1>4. c.ok <=> Sound(P, at, turn, T)
    BY DEF Tells
  <1> HIDE DEF U
  <1>5. Sound(P, at, turn, T) => \A u \in U : turn[u] = T
    BY <1>2, <1>3
  <1>6. d.ok <=> Sound(P, at, turn, T + 1)
    BY <1>1, <1>4, <1>5
  <1>7. d.ok => /\ d.ids = IdsAt(at, CallsIn(P, at))
                /\ d.pending = IdsAt(at, U)
    BY DEF Tells, U
  <1>8. ~\E p \in P : turn[p] = T + 1 /\ p \notin ResultsIn(P, at)
    <2> SUFFICES ASSUME NEW p \in P, turn[p] = T + 1 PROVE FALSE
      OBVIOUS
    <2>1. turn[p] \in 0 .. T
      OBVIOUS
    <2> QED
      BY <2>1
  <1> QED
    BY <1>6, <1>7, <1>8 DEF Tells, U

-----------------------------------------------------------------------------
(* The pairing loop inside the last turn, whose end is not yet judged. *)

Begin(z, role) ==
    IF role = "assistant" THEN [z EXCEPT !.ok = @ /\ z.pending = {}]
    ELSE [z EXCEPT !.other = FALSE]

Within(z, role, s) ==
    IF role = "assistant" THEN CallAll(Begin(z, role), s)
    ELSE AnswerAll(Begin(z, role), s)

OneMore(z, role, b) == IF role = "assistant" THEN Call(z, b) ELSE Answer(z, b)

Reading(M) == Within(Paired(Front(M)), Last(M).role, Last(M).blocks)

\* What the loop does before the blocks of a turn.
LEMMA BeginLaw ==
    ASSUME NEW z \in States, NEW role
    PROVE  /\ Begin(z, role) \in States
           /\ Begin(z, role).pending = z.pending /\ Begin(z, role).ids = z.ids
           /\ role = "assistant" => (Begin(z, role).ok <=> z.ok /\ z.pending = {})
           /\ role # "assistant" => /\ Begin(z, role).ok <=> z.ok
                                    /\ Begin(z, role).other = FALSE
  <1>1. CASE role = "assistant"
    <2> DEFINE y == [z EXCEPT !.ok = @ /\ z.pending = {}]
    <2>1. y.pending = z.pending /\ y.ids = z.ids /\ y.ok = (z.ok /\ z.pending = {})
      BY DEF States
    <2>2. (z.ok /\ z.pending = {}) \in BOOLEAN
      OBVIOUS
    <2>3. y \in States
      BY <2>2 DEF States
    <2>4. Begin(z, role) = y
      BY <1>1 DEF Begin
    <2> HIDE DEF y
    <2> QED
      BY <1>1, <2>1, <2>3, <2>4
  <1>2. CASE role # "assistant"
    BY <1>2 DEF Begin, States
  <1> QED
    BY <1>1, <1>2

\* The blocks of a turn, one at a time.
LEMMA WithinLaw ==
    ASSUME NEW z \in States, NEW role
    PROVE  /\ Within(z, role, <<>>) = Begin(z, role)
           /\ \A s \in Seq(Blocks), b \in Blocks :
                  Within(z, role, Append(s, b)) = OneMore(Within(z, role, s), role, b)
           /\ \A s \in Seq(Blocks) : Within(z, role, s) \in States
  <1> DEFINE y == Begin(z, role)
  <1>1. y \in States
    BY BeginLaw
  <1> HIDE DEF y
  <1>2. /\ CallAll(y, <<>>) = y /\ AnswerAll(y, <<>>) = y
        /\ \A s \in Seq(Blocks), b \in Blocks :
               /\ CallAll(y, Append(s, b)) = Call(CallAll(y, s), b)
               /\ AnswerAll(y, Append(s, b)) = Answer(AnswerAll(y, s), b)
    BY <1>1, CallLaw, AnswerLaw
  <1>3. \A s \in Seq(Blocks) : CallAll(y, s) \in States /\ AnswerAll(y, s) \in States
    BY <1>1, TurnTypes
  <1> QED
    BY <1>2, <1>3 DEF Within, OneMore, y

\* The turn as a whole: a user turn leaves nothing pending.
LEMMA TurnEnds ==
    ASSUME NEW z \in States, NEW m \in MessageRecords
    PROVE  /\ m.role = "assistant" => PairTurn(z, m) = Within(z, m.role, m.blocks)
           /\ m.role # "assistant" =>
                  /\ PairTurn(z, m).ok <=> /\ Within(z, m.role, m.blocks).ok
                                           /\ Within(z, m.role, m.blocks).pending = {}
                  /\ PairTurn(z, m).pending = Within(z, m.role, m.blocks).pending
                  /\ PairTurn(z, m).ids = Within(z, m.role, m.blocks).ids
  <1>1. CASE m.role = "assistant"
    BY <1>1 DEF PairTurn, Within, Begin, CallAll
  <1>2. CASE m.role # "assistant"
    <2> DEFINE t == Within(z, m.role, m.blocks)
    <2>1. PairTurn(z, m) = [t EXCEPT !.ok = @ /\ t.pending = {}]
      BY <1>2 DEF PairTurn, Within, Begin, AnswerAll
    <2>2. t \in States
      <3>1. m.blocks \in Seq(Blocks)
        BY DEF MessageRecords
      <3> QED
        BY <3>1, WithinLaw
    <2> HIDE DEF t
    <2>3. /\ PairTurn(z, m).ok = (t.ok /\ t.pending = {})
          /\ PairTurn(z, m).pending = t.pending /\ PairTurn(z, m).ids = t.ids
      BY <2>1, <2>2 DEF States
    <2> QED
      BY <1>2, <2>3 DEF t
  <1> QED
    BY <1>1, <1>2

\* The last turn is read after all turns before it.
LEMMA ReadingIs ==
    ASSUME NEW f \in Seq(MessageRecords), NEW x \in MessageRecords
    PROVE  Reading(Append(f, x)) = Within(Paired(f), x.role, x.blocks)
  BY EndsAppend DEF Reading

\* The first message, still empty.
LEMMA ReadingFirst ==
    ASSUME NEW m \in MessageRecords, m.blocks = <<>>
    PROVE  Reading(Merge(Append(<<>>, m))) = Begin(NothingPending, m.role)
  <1>1. <<>> \in Seq(MessageRecords)
    OBVIOUS
  <1>2. Merge(Append(<<>>, m)) = Append(<<>>, m)
    <2>1. Merge(Append(<<>>, m)) = MergeOne(<<>>, m)
      BY <1>1, MergeLaw
    <2> QED
      BY <1>1, <2>1, MergeOneCases
  <1>3. Reading(Append(<<>>, m)) = Within(NothingPending, m.role, <<>>)
    BY <1>1, ReadingIs, PairTurnLaw
  <1> QED
    BY <1>2, <1>3, WithinLaw, NothingPendingType

\* One more message, still empty: the turn goes on, or the next one begins.
LEMMA ReadingMessage ==
    ASSUME NEW s \in Seq(MessageRecords), s # <<>>, NEW m \in MessageRecords,
           m.blocks = <<>>
    PROVE  /\ Last(s).role = m.role =>
                  Reading(Merge(Append(s, m))) = Reading(Merge(s))
           /\ Last(s).role # m.role =>
                  Reading(Merge(Append(s, m))) = Begin(Paired(Merge(s)), m.role)
  <1> DEFINE M == Merge(s)
  <1>1. M \in Seq(MessageRecords) /\ M # <<>> /\ Last(M).role = Last(s).role
    BY MergeMerges DEF IsMerged, SameEnds
  <1>2. Merge(Append(s, m)) = MergeOne(M, m)
    BY MergeLaw
  <1>3. Paired(M) \in States
    BY <1>1, PairedType
  <1> HIDE DEF M
  <1>4. PICK f \in Seq(MessageRecords), x \in MessageRecords : M = Append(f, x)
    <2>1. Front(M) \in Seq(MessageRecords) /\ Last(M) \in MessageRecords
          /\ M = Append(Front(M), Last(M))
      BY <1>1, FrontAndLast
    <2> QED
      BY <2>1
  <1>5. Last(M) = x
    BY <1>4, EndsAppend
  <1>6. CASE x.role = m.role
    <2>1. Merge(Append(s, m)) = Append(f, Joined(x, m)) /\ Joined(x, m) \in MessageRecords
      BY <1>2, <1>4, <1>6, MergeOneCases
    <2>2. Joined(x, m).role = x.role /\ Joined(x, m).blocks = x.blocks
      <3>1. x.blocks \in Seq(Blocks)
        BY DEF MessageRecords
      <3>2. x.blocks \o <<>> = x.blocks
        BY <3>1
      <3> QED
        BY <3>2 DEF Joined
    <2>3. Reading(Append(f, Joined(x, m))) = Reading(Append(f, x))
      BY <2>1, <2>2, ReadingIs
    <2> QED
      BY <1>1, <1>4, <1>5, <1>6, <2>1, <2>3 DEF M
  <1>7. CASE x.role # m.role
    <2>1. Merge(Append(s, m)) = Append(M, m)
      BY <1>2, <1>4, <1>7, MergeOneCases
    <2>2. Reading(Append(M, m)) = Within(Paired(M), m.role, <<>>)
      BY <1>1, ReadingIs
    <2>3. Within(Paired(M), m.role, <<>>) = Begin(Paired(M), m.role)
      BY <1>3, WithinLaw
    <2> QED
      BY <1>1, <1>5, <1>7, <2>1, <2>2, <2>3 DEF M
  <1> QED
    BY <1>6, <1>7

\* A block at the end of the second of two sequences is at the end of both.
LEMMA AppendAfter ==
    ASSUME NEW T, NEW c \in Seq(T), NEW d \in Seq(T), NEW b \in T
    PROVE  c \o Append(d, b) = Append(c \o d, b) /\ c \o d \in Seq(T)
  OBVIOUS

\* One more block in the last message.
LEMMA ReadingBlock ==
    ASSUME NEW s \in Seq(MessageRecords), NEW role \in Roles, NEW bs \in Seq(Blocks),
           NEW b \in Blocks,
           NEW m \in MessageRecords, m.role = role, m.blocks = bs,
           NEW l \in MessageRecords, l.role = role, l.blocks = Append(bs, b)
    PROVE  Reading(Merge(Append(s, l))) = OneMore(Reading(Merge(Append(s, m))), role, b)
  <1> DEFINE M == Merge(s)
  <1>1. M \in Seq(MessageRecords)
    BY MergeMerges DEF IsMerged
  <1>2. Merge(Append(s, m)) = MergeOne(M, m) /\ Merge(Append(s, l)) = MergeOne(M, l)
    BY MergeLaw
  <1> HIDE DEF M
  <1>3. CASE M = <<>>
    <2>1. <<>> \in Seq(MessageRecords) /\ NothingPending \in States
      BY NothingPendingType
    <2>2. /\ Reading(Append(<<>>, m)) = Within(NothingPending, role, bs)
          /\ Reading(Append(<<>>, l)) = Within(NothingPending, role, Append(bs, b))
      BY <2>1, ReadingIs, PairTurnLaw
    <2>4. Within(NothingPending, role, Append(bs, b))
          = OneMore(Within(NothingPending, role, bs), role, b)
      BY <2>1, WithinLaw
    <2>3. MergeOne(M, m) = Append(<<>>, m) /\ MergeOne(M, l) = Append(<<>>, l)
      BY <1>3, <2>1, MergeOneCases
    <2> QED
      BY <1>2, <2>2, <2>3, <2>4
  <1>4. CASE M # <<>>
    <2>1. PICK f \in Seq(MessageRecords), x \in MessageRecords : M = Append(f, x)
      <3>1. Front(M) \in Seq(MessageRecords) /\ Last(M) \in MessageRecords
            /\ M = Append(Front(M), Last(M))
        BY <1>1, <1>4, FrontAndLast
      <3> QED
        BY <3>1
    <2>2. Paired(f) \in States /\ Paired(M) \in States
      BY <1>1, PairedType
    <2>3. CASE x.role = role
      <3>1. /\ MergeOne(M, m) = Append(f, Joined(x, m)) /\ Joined(x, m) \in MessageRecords
            /\ MergeOne(M, l) = Append(f, Joined(x, l)) /\ Joined(x, l) \in MessageRecords
        <4>1. /\ x.role = m.role => MergeOne(Append(f, x), m) = Append(f, Joined(x, m))
              /\ Joined(x, m) \in MessageRecords
          BY MergeOneCases
        <4>2. /\ x.role = l.role => MergeOne(Append(f, x), l) = Append(f, Joined(x, l))
              /\ Joined(x, l) \in MessageRecords
          BY MergeOneCases
        <4> QED
          BY <2>1, <2>3, <4>1, <4>2
      <3>2. PICK c \in Seq(Blocks) : c = x.blocks
        BY DEF MessageRecords
      <3>3. c \o Append(bs, b) = Append(c \o bs, b) /\ c \o bs \in Seq(Blocks)
        BY AppendAfter
      <3>4. /\ Reading(Append(f, Joined(x, m))) = Within(Paired(f), role, c \o bs)
            /\ Reading(Append(f, Joined(x, l))) = Within(Paired(f), role, Append(c \o bs, b))
        <4>1. /\ Joined(x, m).role = role /\ Joined(x, m).blocks = c \o bs
              /\ Joined(x, l).role = role /\ Joined(x, l).blocks = Append(c \o bs, b)
          BY <2>3, <3>2, <3>3 DEF Joined
        <4> QED
          BY <3>1, <4>1, ReadingIs
      <3> QED
        <4>1. Within(Paired(f), role, Append(c \o bs, b))
              = OneMore(Within(Paired(f), role, c \o bs), role, b)
          <5>1. PICK z \in States, e \in Seq(Blocks) : z = Paired(f) /\ e = c \o bs
            BY <2>2, <3>3
          <5>2. Within(z, role, Append(e, b)) = OneMore(Within(z, role, e), role, b)
            BY WithinLaw
          <5> QED
            BY <5>1, <5>2, SMTT(30)
        <4> QED
          BY <1>2, <3>1, <3>4, <4>1
    <2>4. CASE x.role # role
      <3>1. MergeOne(M, m) = Append(M, m) /\ MergeOne(M, l) = Append(M, l)
        BY <2>1, <2>4, MergeOneCases
      <3>2. /\ Reading(Append(M, m)) = Within(Paired(M), role, bs)
            /\ Reading(Append(M, l)) = Within(Paired(M), role, Append(bs, b))
        BY <1>1, ReadingIs
      <3> QED
        <4>1. Within(Paired(M), role, Append(bs, b))
              = OneMore(Within(Paired(M), role, bs), role, b)
          <5>1. PICK z \in States, e \in Seq(Blocks) : z = Paired(M) /\ e = bs
            BY <2>2
          <5>2. Within(z, role, Append(e, b)) = OneMore(Within(z, role, e), role, b)
            BY WithinLaw
          <5> QED
            BY <5>1, <5>2, SMTT(30)
        <4> QED
          BY <1>2, <3>1, <3>2, <4>1
    <2> QED
      BY <2>3, <2>4
  <1> QED
    BY <1>3, <1>4

\* Before the turn that is read, all turns are complete.
LEMMA ReadingEnds ==
    ASSUME NEW s \in Seq(MessageRecords), s # <<>>
    PROVE  /\ Reading(Merge(s)) \in States /\ Paired(Merge(s)) \in States
           /\ Last(s).role = "assistant" => Paired(Merge(s)) = Reading(Merge(s))
           /\ Last(s).role # "assistant" =>
                  /\ Paired(Merge(s)).ok <=> /\ Reading(Merge(s)).ok
                                             /\ Reading(Merge(s)).pending = {}
                  /\ Paired(Merge(s)).pending = Reading(Merge(s)).pending
                  /\ Paired(Merge(s)).ids = Reading(Merge(s)).ids
  <1> DEFINE M == Merge(s)
  <1>1. M \in Seq(MessageRecords) /\ M # <<>> /\ Last(M).role = Last(s).role
    BY MergeMerges DEF IsMerged, SameEnds
  <1> HIDE DEF M
  <1>2. PICK f \in Seq(MessageRecords), x \in MessageRecords : M = Append(f, x)
    <2>1. Front(M) \in Seq(MessageRecords) /\ Last(M) \in MessageRecords
          /\ M = Append(Front(M), Last(M))
      BY <1>1, FrontAndLast
    <2> QED
      BY <2>1
  <1>3. Last(M) = x /\ x.blocks \in Seq(Blocks) /\ Paired(f) \in States
    <2>1. Last(M) = x
      BY <1>2, EndsAppend
    <2>2. x.blocks \in Seq(Blocks)
      BY DEF MessageRecords
    <2> QED
      BY <2>1, <2>2, PairedType
  <1>4. Paired(M) \in States
    BY <1>1, PairedType
  <1>5. Reading(M) = Within(Paired(f), x.role, x.blocks)
    BY <1>2, ReadingIs
  <1>6. Paired(M) = PairTurn(Paired(f), x)
    BY <1>2, PairTurnLaw
  <1>7. Reading(M) \in States
    BY <1>3, <1>5, WithinLaw
  <1>8. /\ x.role = "assistant" => Paired(M) = Reading(M)
        /\ x.role # "assistant" =>
               /\ Paired(M).ok <=> Reading(M).ok /\ Reading(M).pending = {}
               /\ Paired(M).pending = Reading(M).pending
               /\ Paired(M).ids = Reading(M).ids
    BY <1>3, <1>5, <1>6, TurnEnds
  <1> QED
    BY <1>1, <1>3, <1>4, <1>7, <1>8 DEF M

-----------------------------------------------------------------------------
(* The turns and places of a conversation that grows at its end. *)

\* How often the role changed in the first k messages.
Switches(s, k) == Cardinality({i \in 2 .. k : s[i].role # s[i - 1].role})

LastTurn(s) == Switches(s, Len(s))

\* A message more is one more turn if its role is another.
LEMMA SwitchesAppend ==
    ASSUME NEW s \in Seq(MessageRecords), NEW m \in MessageRecords
    PROVE  /\ \A k \in 0 .. Len(s) : Switches(Append(s, m), k) = Switches(s, k)
           /\ \A k \in 0 .. Len(s) : Switches(s, k) \in Nat
           /\ s = <<>> => LastTurn(Append(s, m)) = 0
           /\ s # <<>> => LastTurn(Append(s, m)) =
                  IF Last(s).role = m.role THEN LastTurn(s) ELSE LastTurn(s) + 1
  <1> DEFINE n == Len(s)
             t == Append(s, m)
             S(k) == {i \in 2 .. k : s[i].role # s[i - 1].role}
             X(k) == {i \in 2 .. k : t[i].role # t[i - 1].role}
  <1>1. /\ n \in Nat /\ Len(t) = n + 1 /\ t[n + 1] = m
        /\ \A i \in 1 .. n : t[i] = s[i]
        /\ s # <<>> <=> n # 0
    BY EndsAppend
  <1> HIDE DEF t, n
  <1>2. ASSUME NEW k \in 0 .. n
        PROVE  IsFiniteSet(S(k)) /\ Cardinality(S(k)) \in Nat /\ X(k) = S(k)
    <2>1. S(k) \in SUBSET (2 .. k) /\ k \in Int
      BY <1>1
    <2>2. IsFiniteSet(2 .. k)
      BY <2>1, FS_Interval
    <2>3. IsFiniteSet(S(k))
      BY <2>1, <2>2, FS_Subset
    <2>4. \A i \in 2 .. k : t[i] = s[i] /\ t[i - 1] = s[i - 1]
      <3> TAKE i \in 2 .. k
      <3>1. i \in 1 .. n /\ i - 1 \in 1 .. n
        BY <1>1
      <3> QED
        BY <1>1, <3>1
    <2> QED
      BY <2>3, <2>4, FS_CardinalityType
  <1>3. X(n + 1) = IF n # 0 /\ s[n].role # m.role THEN X(n) \cup {n + 1} ELSE X(n)
    <2>1. CASE n = 0
      <3>1. 2 .. n + 1 = {} /\ 2 .. n = {}
        BY <1>1, <2>1
      <3> QED
        BY <2>1, <3>1
    <2>2. CASE n # 0
      <3>1. 2 .. n + 1 = (2 .. n) \cup {n + 1} /\ n \in 1 .. n /\ (n + 1) - 1 = n
        BY <1>1, <2>2
      <3>2. t[n + 1].role # t[(n + 1) - 1].role <=> s[n].role # m.role
        BY <1>1, <3>1
      <3> QED
        BY <2>2, <3>1, <3>2
    <2> QED
      BY <2>1, <2>2
  <1>4. n + 1 \notin X(n) /\ n \in 0 .. n
    BY <1>1
  <1>5. Cardinality(X(n + 1)) =
            IF n # 0 /\ s[n].role # m.role THEN Cardinality(S(n)) + 1 ELSE Cardinality(S(n))
    <2>1. IsFiniteSet(X(n)) /\ X(n) = S(n)
      BY <1>2, <1>4
    <2>2. Cardinality(X(n) \cup {n + 1}) = Cardinality(X(n)) + 1
      <3> HIDE DEF X, S
      <3>1. PICK Y, y : Y = X(n) /\ y = n + 1
        OBVIOUS
      <3>2. IsFiniteSet(Y) /\ y \notin Y
        BY <1>4, <2>1, <3>1
      <3> QED
        BY <3>1, <3>2, FS_AddElement
    <2> HIDE DEF X, S
    <2> QED
      BY <1>3, <2>1, <2>2
  <1>6. n = 0 => Cardinality(S(n)) = 0
    <2> HAVE n = 0
    <2>1. S(n) = {}
      BY <1>1
    <2> HIDE DEF S
    <2> QED
      BY <2>1, FS_EmptySet
  <1>7. /\ \A k \in 0 .. n : Switches(t, k) = Switches(s, k) /\ Switches(s, k) \in Nat
        /\ LastTurn(t) = Cardinality(X(n + 1)) /\ LastTurn(s) = Cardinality(S(n))
    BY <1>1, <1>2 DEF Switches, LastTurn, n
  <1> HIDE DEF X, S
  <1>8. s # <<>> => s[n] = Last(s)
    BY DEF Last, n
  <1> QED
    BY <1>1, <1>5, <1>6, <1>7, <1>8 DEF n, t

\* The turns are counted up to the last, and the roles of the last two differ.
TurnsCount(s) ==
    /\ LastTurn(s) \in Nat
    /\ \A i \in 1 .. Len(s) :
           /\ Switches(s, i) \in 0 .. LastTurn(s)
           /\ Switches(s, i) = LastTurn(s) => s[i].role = Last(s).role
           /\ Switches(s, i) = LastTurn(s) - 1 => s[i].role # Last(s).role

\* So the last turn has the highest number, and roles follow the numbers.
LEMMA TurnsAlwaysCount ==
    \A s \in Seq(MessageRecords) : s # <<>> => TurnsCount(s)
  <1> DEFINE S == {s \in Seq(MessageRecords) : s # <<>> => TurnsCount(s)}
  <1>1. <<>> \in S
    OBVIOUS
  <1>2. ASSUME NEW s \in Seq(MessageRecords), NEW m \in MessageRecords, s \in S
        PROVE  Append(s, m) \in S
    <2> DEFINE n == Len(s)
               t == Append(s, m)
               U == LastTurn(t)
    <2>1. /\ t \in Seq(MessageRecords) /\ n \in Nat /\ Len(t) = n + 1 /\ t[n + 1] = m
          /\ Last(t) = m
          /\ \A i \in 1 .. n : t[i] = s[i]
          /\ s # <<>> <=> n # 0
      BY EndsAppend
    <2>2. /\ \A k \in 0 .. n : Switches(t, k) = Switches(s, k) /\ Switches(s, k) \in Nat
          /\ s = <<>> => U = 0
          /\ s # <<>> =>
                 U = IF Last(s).role = m.role THEN LastTurn(s) ELSE LastTurn(s) + 1
      BY SwitchesAppend
    <2>3. Switches(t, n + 1) = U
      BY <2>1 DEF LastTurn
    <2>4. s # <<>> => TurnsCount(s)
      BY <1>2
    <2> HIDE DEF t, n, S, U
    <2>5. U \in Nat
      BY <2>2, <2>4 DEF TurnsCount
    <2>6. ASSUME NEW i \in 1 .. n
          PROVE  /\ Switches(t, i) \in 0 .. U
                 /\ Switches(t, i) = U => t[i].role = m.role
                 /\ Switches(t, i) = U - 1 => t[i].role # m.role
      <3>1. s # <<>> /\ t[i] = s[i] /\ Switches(t, i) = Switches(s, i)
        BY <2>1, <2>2
      <3>2. /\ LastTurn(s) \in Nat
            /\ Switches(s, i) \in 0 .. LastTurn(s)
            /\ Switches(s, i) = LastTurn(s) => s[i].role = Last(s).role
            /\ Switches(s, i) = LastTurn(s) - 1 => s[i].role # Last(s).role
        BY <2>4, <3>1 DEF TurnsCount, n
      <3>3. CASE Last(s).role = m.role
        BY <2>2, <3>1, <3>2, <3>3
      <3>4. CASE Last(s).role # m.role
        <4>1. U = LastTurn(s) + 1
          BY <2>2, <3>1, <3>4
        <4>2. Switches(s, i) # U /\ U - 1 = LastTurn(s) /\ Switches(s, i) \in 0 .. U
          BY <3>2, <4>1
        <4> QED
          BY <3>1, <3>2, <3>4, <4>2
      <3> QED
        BY <3>3, <3>4
    <2>7. \A i \in 1 .. n + 1 : i \in 1 .. n \/ i = n + 1
      BY <2>1
    <2>8. U \in 0 .. U /\ U # U - 1
      BY <2>5
    <2>9. TurnsCount(t)
      BY <2>1, <2>3, <2>5, <2>6, <2>7, <2>8 DEF TurnsCount, U
    <2> QED
      BY <2>1, <2>9 DEF S, t
  <1>3. Seq(MessageRecords) \subseteq S
    <2> HIDE DEF S
    <2> QED
      BY <1>1, <1>2, Growing
  <1> QED
    BY <1>3

\* A place is a message and a block in it.
LEMMA PlacesAre ==
    ASSUME NEW s \in Seq(MessageRecords)
    PROVE  \A p : p \in Places(s) <=>
               \E i \in 1 .. Len(s) : \E j \in 1 .. Len(s[i].blocks) : p = <<i, j>>
  <1>1. DOMAIN s = 1 .. Len(s) /\ \A i \in 1 .. Len(s) : s[i] \in MessageRecords
    OBVIOUS
  <1>2. \A i \in 1 .. Len(s) : DOMAIN s[i].blocks = 1 .. Len(s[i].blocks)
    <2> TAKE i \in 1 .. Len(s)
    <2>1. s[i].blocks \in Seq(Blocks)
      BY <1>1 DEF MessageRecords
    <2> QED
      BY <2>1
  <1> QED
    BY <1>1, <1>2 DEF Places

\* An empty message is no place.
LEMMA PlacesOfEmpty ==
    ASSUME NEW s \in Seq(MessageRecords), NEW m \in MessageRecords, m.blocks = <<>>
    PROVE  /\ Places(Append(s, m)) = Places(s)
           /\ \A p \in Places(s) : /\ At(Append(s, m), p) = At(s, p)
                                   /\ TurnOf(Append(s, m), p) = TurnOf(s, p)
  <1> DEFINE n == Len(s)
             t == Append(s, m)
  <1>1. /\ t \in Seq(MessageRecords) /\ n \in Nat /\ Len(t) = n + 1 /\ t[n + 1] = m
        /\ \A i \in 1 .. n : t[i] = s[i]
    BY EndsAppend
  <1>2. \A k \in 0 .. n : Switches(t, k) = Switches(s, k)
    BY SwitchesAppend
  <1>3. 1 .. Len(m.blocks) = {}
    OBVIOUS
  <1>4. \A i \in 1 .. n + 1 : i \in 1 .. n \/ i = n + 1
    BY <1>1
  <1>5. \A i \in 1 .. n : i \in 0 .. n /\ i \in 1 .. n + 1
    BY <1>1
  <1> HIDE DEF t
  <1>6. \A p : p \in Places(t) <=> p \in Places(s)
    BY <1>1, <1>3, <1>4, <1>5, PlacesAre
  <1>7. ASSUME NEW p \in Places(s)
        PROVE  At(t, p) = At(s, p) /\ TurnOf(t, p) = TurnOf(s, p)
    <2>1. p[1] \in 1 .. n
      BY PlacesAre
    <2> HIDE DEF n
    <2> QED
      BY <1>1, <1>2, <1>5, <2>1 DEF At, TurnOf, Switches
  <1> QED
    BY <1>6, <1>7 DEF t

\* u is t with the block b at the new place p, after all others.
OnePlaceMore(t, u, p, b) ==
    /\ Places(u) = Places(t) \cup {p}
    /\ At(u, p) = b /\ TurnOf(u, p) = LastTurn(u) /\ LastTurn(u) = LastTurn(t)
    /\ \A q \in Places(t) :
           /\ At(u, q) = At(t, q) /\ TurnOf(u, q) = TurnOf(t, q)
           /\ Precedes(q, p) /\ ~Precedes(p, q) /\ q # p
    /\ ~Precedes(p, p)

\* A block more is a place more, after all others.
LEMMA PlacesOfBlock ==
    ASSUME NEW s \in Seq(MessageRecords), NEW role \in Roles, NEW bs \in Seq(Blocks),
           NEW b \in Blocks,
           NEW m \in MessageRecords, m.role = role, m.blocks = bs,
           NEW l \in MessageRecords, l.role = role, l.blocks = Append(bs, b),
           NEW p, p = <<Len(s) + 1, Len(bs) + 1>>
    PROVE  OnePlaceMore(Append(s, m), Append(s, l), p, b)
  <1> DEFINE n == Len(s)
             t == Append(s, m)
             u == Append(s, l)
             c == Len(bs)
  <1>1. /\ t \in Seq(MessageRecords) /\ n \in Nat /\ Len(t) = n + 1 /\ t[n + 1] = m
        /\ \A i \in 1 .. n : t[i] = s[i]
    BY EndsAppend
  <1>2. /\ u \in Seq(MessageRecords) /\ Len(u) = n + 1 /\ u[n + 1] = l
        /\ \A i \in 1 .. n : u[i] = s[i]
    BY EndsAppend
  <1>3. /\ c \in Nat /\ Len(l.blocks) = c + 1 /\ l.blocks[c + 1] = b
        /\ \A j \in 1 .. c : l.blocks[j] = bs[j]
    BY EndsAppend
  <1> HIDE DEF t, u, n, c
  <1>4. /\ \A i \in 1 .. n + 1 : i \in 1 .. n \/ i = n + 1
        /\ \A j \in 1 .. c + 1 : j \in 1 .. c \/ j = c + 1
        /\ \A i \in 1 .. n : i \in 1 .. n + 1 /\ i < n + 1
        /\ \A j \in 1 .. c : j \in 1 .. c + 1 /\ j < c + 1
        /\ n + 1 \in 1 .. n + 1 /\ c + 1 \in 1 .. c + 1
    BY <1>1, <1>3
  <1>5. \A k \in 1 .. n + 1 : u[k].role = t[k].role
    BY <1>1, <1>2, <1>4
  <1>6. ASSUME NEW k \in 1 .. n + 1 PROVE Switches(u, k) = Switches(t, k)
    <2>1. \A i \in 2 .. k : i \in 1 .. n + 1 /\ i - 1 \in 1 .. n + 1
      BY <1>1
    <2>2. {i \in 2 .. k : u[i].role # u[i - 1].role} = {i \in 2 .. k : t[i].role # t[i - 1].role}
      BY <1>5, <2>1
    <2> QED
      BY <2>2 DEF Switches
  <1>7. LastTurn(u) = LastTurn(t) /\ LastTurn(u) = Switches(u, n + 1)
    BY <1>1, <1>2, <1>4, <1>6 DEF LastTurn
  <1>8. p = <<n + 1, c + 1>> /\ p[1] = n + 1 /\ p[2] = c + 1
    BY DEF n, c
  <1>9. \A q : q \in Places(t) <=>
            \E i \in 1 .. n + 1 : \E j \in 1 .. Len(t[i].blocks) : q = <<i, j>>
    BY <1>1, PlacesAre
  <1>10. \A q : q \in Places(u) <=>
            \E i \in 1 .. n + 1 : \E j \in 1 .. Len(u[i].blocks) : q = <<i, j>>
    BY <1>2, PlacesAre
  <1>11. Len(t[n + 1].blocks) = c /\ Len(u[n + 1].blocks) = c + 1
    BY <1>1, <1>2, <1>3 DEF c
  <1>12. \A i \in 1 .. n : t[i].blocks = u[i].blocks
    BY <1>1, <1>2
  <1>13. \A q : q \in Places(u) <=> q \in Places(t) \/ q = p
    <2>1. ASSUME NEW q \in Places(u) PROVE q \in Places(t) \/ q = p
      <3>1. PICK i \in 1 .. n + 1 : \E j \in 1 .. Len(u[i].blocks) : q = <<i, j>>
        BY <1>10
      <3>2. CASE i \in 1 .. n
        BY <1>9, <1>12, <3>1, <3>2
      <3>3. CASE i = n + 1
        <4>1. PICK j \in 1 .. c + 1 : q = <<n + 1, j>>
          BY <1>11, <3>1, <3>3
        <4>2. j \in 1 .. c => q \in Places(t)
          BY <1>4, <1>9, <1>11, <4>1
        <4> QED
          BY <1>4, <1>8, <4>1, <4>2
      <3> QED
        BY <1>4, <3>2, <3>3
    <2>2. ASSUME NEW q \in Places(t) PROVE q \in Places(u)
      <3>1. PICK i \in 1 .. n + 1 : \E j \in 1 .. Len(t[i].blocks) : q = <<i, j>>
        BY <1>9
      <3>2. CASE i \in 1 .. n
        BY <1>10, <1>12, <3>1, <3>2
      <3>3. CASE i = n + 1
        <4>1. PICK j \in 1 .. c : q = <<n + 1, j>>
          BY <1>11, <3>1, <3>3
        <4> QED
          BY <1>4, <1>10, <1>11, <4>1
      <3> QED
        BY <1>4, <3>2, <3>3
    <2>3. p \in Places(u)
      BY <1>4, <1>8, <1>10, <1>11
    <2> QED
      BY <2>1, <2>2, <2>3
  <1>14. ASSUME NEW q \in Places(t)
         PROVE  /\ At(u, q) = At(t, q) /\ TurnOf(u, q) = TurnOf(t, q)
                /\ Precedes(q, p) /\ ~Precedes(p, q) /\ q # p
    <2>1. PICK i \in 1 .. n + 1 : \E j \in 1 .. Len(t[i].blocks) : q = <<i, j>>
      BY <1>9
    <2>2. TurnOf(u, q) = TurnOf(t, q)
      BY <1>6, <2>1 DEF TurnOf, Switches
    <2>3. CASE i \in 1 .. n
      <3>1. q[1] = i /\ i < n + 1 /\ i \in Nat
        BY <1>4, <2>1, <2>3
      <3>2. Precedes(q, p) /\ ~Precedes(p, q) /\ q # p
        BY <1>1, <1>8, <3>1 DEF Precedes
      <3> QED
        BY <1>12, <2>2, <2>3, <3>1, <3>2 DEF At
    <2>4. CASE i = n + 1
      <3>1. PICK j \in 1 .. c : q = <<n + 1, j>>
        BY <1>11, <2>1, <2>4
      <3>2. q[1] = n + 1 /\ q[2] = j /\ j < c + 1 /\ j \in Nat
        BY <1>4, <3>1
      <3>3. Precedes(q, p) /\ ~Precedes(p, q) /\ q # p
        BY <1>1, <1>3, <1>8, <3>2 DEF Precedes
      <3>4. At(u, q) = At(t, q)
        <4>1. u[q[1]].blocks = l.blocks /\ t[q[1]].blocks = bs
          BY <1>1, <1>2, <3>2
        <4>2. l.blocks[j] = bs[j]
          BY <1>3
        <4> QED
          BY <3>2, <4>1, <4>2 DEF At
      <3> QED
        BY <2>2, <3>3, <3>4
    <2> QED
      BY <1>4, <2>3, <2>4
  <1>15. At(u, p) = b /\ TurnOf(u, p) = LastTurn(u) /\ ~Precedes(p, p)
    <2>1. At(u, p) = b
      BY <1>2, <1>3, <1>8 DEF At
    <2>2. TurnOf(u, p) = LastTurn(u)
      BY <1>7, <1>8 DEF TurnOf, Switches
    <2>3. ~Precedes(p, p)
      BY <1>1, <1>3, <1>8 DEF Precedes
    <2> QED
      BY <2>1, <2>2, <2>3
  <1> QED
    BY <1>7, <1>13, <1>14, <1>15 DEF OnePlaceMore, t, u

-----------------------------------------------------------------------------
(* validate, while the caller writes. *)

WhatAt(s) == [p \in Places(s) |-> At(s, p)]

WhenAt(s) == [p \in Places(s) |-> TurnOf(s, p)]

\* Only what is at the places counts.
LEMMA TellsElsewhere ==
    ASSUME NEW P, NEW at, NEW turn, NEW bt, NEW tern,
           \A p \in P : at[p] = bt[p] /\ turn[p] = tern[p],
           NEW T, NEW c, NEW role, Tells(c, P, at, turn, T, role)
    PROVE  Tells(c, P, bt, tern, T, role)
  <1>1. CallsIn(P, at) = CallsIn(P, bt) /\ ResultsIn(P, at) = ResultsIn(P, bt)
    BY DEF CallsIn, ResultsIn
  <1>2. CallsIn(P, at) \subseteq P /\ ResultsIn(P, at) \subseteq P
    BY DEF CallsIn, ResultsIn
  <1>3. \A q, r \in P : Replies(at, turn, q, r) <=> Replies(bt, tern, q, r)
    BY DEF Replies
  <1>4. Unanswered(P, at, turn) = Unanswered(P, bt, tern)
    BY <1>1, <1>2, <1>3 DEF Unanswered
  <1>5. Unanswered(P, at, turn) \subseteq P
    BY <1>2 DEF Unanswered
  <1>6. \A r \in ResultsIn(P, at) :
            ResultSound(P, at, turn, r) <=> ResultSound(P, bt, tern, r)
    BY <1>1, <1>2, <1>3 DEF ResultSound
  <1>7. Sound(P, at, turn, T) <=> Sound(P, bt, tern, T)
    BY <1>1, <1>2, <1>4, <1>5, <1>6 DEF Sound
  <1>8. \A S \in SUBSET P : IdsAt(at, S) = IdsAt(bt, S)
    BY DEF IdsAt
  <1>9. (\E p \in P : turn[p] = T /\ p \notin ResultsIn(P, at)) <=>
        \E p \in P : tern[p] = T /\ p \notin ResultsIn(P, bt)
    BY <1>1
  <1>10. /\ IdsAt(at, CallsIn(P, at)) = IdsAt(bt, CallsIn(P, bt))
         /\ IdsAt(at, Unanswered(P, at, turn)) = IdsAt(bt, Unanswered(P, bt, tern))
    BY <1>1, <1>2, <1>4, <1>5, <1>8
  <1> QED
    BY <1>7, <1>9, <1>10 DEF Tells

\* Every block is one the role of its message may hold.
Written(s) ==
    \A i \in DOMAIN s :
        /\ s[i].role \in DOMAIN Kinds
        /\ \A j \in DOMAIN s[i].blocks : ValidBlock(s[i].blocks[j], s[i].role)

\* Calls are the assistant's and results the user's.
LEMMA RolesOfKinds ==
    /\ DOMAIN Kinds = {"user", "assistant"}
    /\ \A b : ValidBlock(b, "user") => b.kind # "tool_use"
    /\ \A b : ValidBlock(b, "assistant") => b.kind # "tool_result"
  BY DEF Kinds, ValidBlock

\* Calls are in assistant turns only.
LEMMA CallTurns ==
    ASSUME NEW s \in Seq(MessageRecords), s # <<>>, Written(s)
    PROVE  \A p \in Places(s) :
               /\ At(s, p) \in Blocks
               /\ TurnOf(s, p) \in 0 .. LastTurn(s)
               /\ At(s, p).kind = "tool_use" =>
                      /\ Last(s).role = "user" => TurnOf(s, p) # LastTurn(s)
                      /\ Last(s).role = "assistant" => TurnOf(s, p) # LastTurn(s) - 1
  <1> TAKE p \in Places(s)
  <1>1. TurnsCount(s)
    BY TurnsAlwaysCount
  <1>a. PICK i \in 1 .. Len(s) : \E j \in 1 .. Len(s[i].blocks) : p = <<i, j>>
    BY PlacesAre
  <1>2. PICK j \in 1 .. Len(s[i].blocks) : p = <<i, j>>
    BY <1>a
  <1>3. s[i] \in MessageRecords /\ i \in DOMAIN s
    OBVIOUS
  <1>4. s[i].blocks \in Seq(Blocks)
    BY <1>3 DEF MessageRecords
  <1>5. j \in DOMAIN s[i].blocks /\ s[i].blocks[j] \in Blocks
    BY <1>4
  <1>6. At(s, p) = s[i].blocks[j] /\ TurnOf(s, p) = Switches(s, i)
    BY <1>2 DEF At, TurnOf, Switches
  <1>7. At(s, p).kind = "tool_use" => s[i].role = "assistant"
    BY <1>3, <1>5, <1>6, RolesOfKinds DEF Written
  <1>8. /\ Switches(s, i) \in 0 .. LastTurn(s)
        /\ Switches(s, i) = LastTurn(s) => s[i].role = Last(s).role
        /\ Switches(s, i) = LastTurn(s) - 1 => s[i].role # Last(s).role
    BY <1>1 DEF TurnsCount
  <1> QED
    BY <1>5, <1>6, <1>7, <1>8

\* The loop has read what the caller wrote.
ReadsRight(s) ==
    /\ IsFiniteSet(Places(s))
    /\ Tells(Reading(Merge(s)), Places(s), WhatAt(s), WhenAt(s), LastTurn(s), Last(s).role)

\* The caller begins.
LEMMA ReadsRightFirst ==
    ASSUME NEW m \in MessageRecords, m.blocks = <<>>, m.role \in DOMAIN Kinds
    PROVE  ReadsRight(Append(<<>>, m))
  <1> DEFINE t == Append(<<>>, m)
             c == Begin(NothingPending, m.role)
  <1>1. <<>> \in Seq(MessageRecords) /\ NothingPending \in States
    BY NothingPendingType
  <1>2. Places(t) = {}
    <2>1. Places(t) = Places(<<>>)
      BY <1>1, PlacesOfEmpty
    <2>2. \A p : p \notin Places(<<>>)
      BY DEF Places
    <2> QED
      BY <2>1, <2>2
  <1>3. Last(t) = m /\ Reading(Merge(t)) = c
    BY <1>1, EndsAppend, ReadingFirst
  <1>4. c \in States /\ c.pending = {} /\ c.ids = {} /\ c.ok
    <2>1. NothingPending.pending = {} /\ NothingPending.ids = {} /\ NothingPending.ok
      BY DEF NothingPending
    <2> QED
      BY <1>1, <2>1, BeginLaw
  <1>5. m.role = "user" => c.other = FALSE
    BY <1>1, BeginLaw
  <1>6. LastTurn(t) = 0
    BY <1>1, SwitchesAppend
  <1>7. \A at, turn :
            /\ CallsIn({}, at) = {} /\ ResultsIn({}, at) = {} /\ Unanswered({}, at, turn) = {}
            /\ Sound({}, at, turn, 0) /\ IdsAt(at, {}) = {}
    BY DEF CallsIn, ResultsIn, Unanswered, Sound, IdsAt
  <1> HIDE DEF t, c
  <1>8. Tells(c, {}, WhatAt(t), WhenAt(t), 0, m.role)
    BY <1>4, <1>5, <1>7 DEF Tells
  <1>9. ReadsRight(t)
    BY <1>2, <1>3, <1>6, <1>8, FS_EmptySet DEF ReadsRight
  <1> QED
    BY <1>9 DEF t

\* The caller begins another message.
LEMMA ReadsRightMessage ==
    ASSUME NEW s \in Seq(MessageRecords), s # <<>>, Written(s), ReadsRight(s),
           NEW m \in MessageRecords, m.blocks = <<>>, m.role \in DOMAIN Kinds
    PROVE  ReadsRight(Append(s, m))
  <1> DEFINE t == Append(s, m)
             P == Places(s)
             c == Reading(Merge(s))
             d == Reading(Merge(t))
             T == LastTurn(s)
  <1>1. Last(t) = m
    BY EndsAppend
  <1>2. /\ Places(t) = P
        /\ \A p \in P : At(t, p) = At(s, p) /\ TurnOf(t, p) = TurnOf(s, p)
    BY PlacesOfEmpty
  <1>3. LastTurn(t) = IF Last(s).role = m.role THEN T ELSE T + 1
    BY SwitchesAppend
  <1>4. /\ T \in Nat /\ \A p \in P : WhenAt(s)[p] \in 0 .. T
        /\ Last(s).role = "user" => \A p \in CallsIn(P, WhatAt(s)) : WhenAt(s)[p] # T
        /\ Last(s).role = "assistant" =>
               \A p \in CallsIn(P, WhatAt(s)) : WhenAt(s)[p] # T - 1
    <2>1. T \in Nat
      BY TurnsAlwaysCount DEF TurnsCount
    <2> QED
      BY <2>1, CallTurns DEF WhatAt, WhenAt, CallsIn
  <1>5. Last(s).role \in {"user", "assistant"} /\ m.role \in {"user", "assistant"}
    <2>1. Last(s) = s[Len(s)] /\ Len(s) \in DOMAIN s
      BY DEF Last
    <2> QED
      BY <2>1, RolesOfKinds DEF Written
  <1>6. /\ IsFiniteSet(P)
        /\ Tells(c, P, WhatAt(s), WhenAt(s), T, Last(s).role)
    BY DEF ReadsRight
  <1>7. Tells(d, P, WhatAt(s), WhenAt(s), LastTurn(t), m.role)
    <2>1. CASE Last(s).role = m.role
      <3>1. d = c
        BY <2>1, ReadingMessage
      <3> QED
        BY <1>3, <1>6, <2>1, <3>1
    <2>2. CASE Last(s).role # m.role
      <3> DEFINE z == Paired(Merge(s))
      <3>1. d = Begin(z, m.role)
        BY <2>2, ReadingMessage
      <3>2. /\ z \in States
            /\ Last(s).role = "assistant" => z = c
            /\ Last(s).role # "assistant" =>
                   /\ z.ok <=> c.ok /\ c.pending = {}
                   /\ z.pending = c.pending /\ z.ids = c.ids
        BY ReadingEnds
      <3>3. LastTurn(t) = T + 1
        BY <1>3, <2>2
      <3> HIDE DEF z, c, T, P, d
      <3>4. /\ d \in States /\ d.pending = z.pending /\ d.ids = z.ids
            /\ m.role = "assistant" => (d.ok <=> z.ok /\ z.pending = {})
            /\ m.role # "assistant" => (d.ok <=> z.ok) /\ d.other = FALSE
        BY <3>1, <3>2, BeginLaw
      <3>5. CASE m.role = "assistant"
        <4>1. Last(s).role = "user"
          BY <1>5, <2>2, <3>5
        <4>2. /\ d.ids = c.ids /\ d.pending = c.pending
              /\ d.ok <=> c.ok /\ c.pending = {}
          BY <3>2, <3>4, <3>5, <4>1
        <4> QED
          BY <1>4, <1>6, <3>3, <3>4, <3>5, <4>1, <4>2, TellsAssistantTurn
      <3>6. CASE m.role # "assistant"
        <4>1. Last(s).role = "assistant" /\ m.role = "user"
          BY <1>5, <2>2, <3>6
        <4>2. /\ d.ids = c.ids /\ d.pending = c.pending
              /\ d.ok <=> c.ok
              /\ d.other = FALSE
          BY <3>2, <3>4, <3>6, <4>1
        <4>3. PICK at, turn : at = WhatAt(s) /\ turn = WhenAt(s)
          OBVIOUS
        <4>4. /\ T \in Nat /\ \A p \in P : turn[p] \in 0 .. T
              /\ \A p \in CallsIn(P, at) : turn[p] # T - 1
              /\ Tells(c, P, at, turn, T, "assistant")
          BY <1>4, <1>6, <4>1, <4>3
        <4>5. Tells(d, P, at, turn, T + 1, "user")
          BY <3>4, <4>2, <4>4, TellsUserTurn
        <4> QED
          BY <3>3, <4>1, <4>3, <4>5
      <3> QED
        BY <3>5, <3>6
    <2> QED
      BY <2>1, <2>2
  <1> HIDE DEF d, T, c, t
  <1>8. Tells(d, P, WhatAt(t), WhenAt(t), LastTurn(t), m.role)
    <2>1. \A p \in P : WhatAt(s)[p] = WhatAt(t)[p] /\ WhenAt(s)[p] = WhenAt(t)[p]
      BY <1>2 DEF WhatAt, WhenAt
    <2> HIDE DEF P
    <2> QED
      BY <1>7, <2>1, TellsElsewhere
  <1>9. ReadsRight(t)
    BY <1>1, <1>2, <1>6, <1>8 DEF ReadsRight, d
  <1> QED
    BY <1>9 DEF t

\* What is written, one message at a time.
LEMMA WrittenAppend ==
    ASSUME NEW s \in Seq(MessageRecords), NEW m \in MessageRecords
    PROVE  Written(Append(s, m)) <=>
               /\ Written(s)
               /\ m.role \in DOMAIN Kinds
               /\ \A j \in DOMAIN m.blocks : ValidBlock(m.blocks[j], m.role)
  <1> DEFINE t == Append(s, m)
             n == Len(s)
  <1>1. /\ n \in Nat /\ DOMAIN t = 1 .. n + 1 /\ DOMAIN s = 1 .. n /\ t[n + 1] = m
        /\ \A i \in 1 .. n : t[i] = s[i]
    OBVIOUS
  <1>2. /\ \A i \in 1 .. n + 1 : i \in 1 .. n \/ i = n + 1
        /\ \A i \in 1 .. n : i \in 1 .. n + 1
        /\ n + 1 \in 1 .. n + 1
    BY <1>1
  <1> HIDE DEF t, n
  <1> QED
    BY <1>1, <1>2 DEF Written, t

\* The caller adds a block to the last message.
LEMMA ReadsRightBlock ==
    ASSUME NEW s \in Seq(MessageRecords), NEW role \in Roles, NEW bs \in Seq(Blocks),
           NEW b \in Blocks,
           NEW m \in MessageRecords, m.role = role, m.blocks = bs,
           NEW l \in MessageRecords, l.role = role, l.blocks = Append(bs, b),
           Written(Append(s, l)), ReadsRight(Append(s, m))
    PROVE  ReadsRight(Append(s, l))
  <1> DEFINE t == Append(s, m)
             u == Append(s, l)
             P == Places(t)
             T == LastTurn(u)
             at == WhatAt(u)
             turn == WhenAt(u)
             c == Reading(Merge(t))
  <1>1. /\ u \in Seq(MessageRecords) /\ u # <<>> /\ Last(u) = l /\ Last(t) = m
    BY EndsAppend
  <1>2. PICK p : p = <<Len(s) + 1, Len(bs) + 1>>
    OBVIOUS
  <1>3. /\ Places(u) = P \cup {p} /\ At(u, p) = b /\ TurnOf(u, p) = T
        /\ T = LastTurn(t) /\ ~Precedes(p, p)
        /\ \A q \in P : /\ At(u, q) = At(t, q) /\ TurnOf(u, q) = TurnOf(t, q)
                        /\ Precedes(q, p) /\ ~Precedes(p, q) /\ q # p
    <2>1. OnePlaceMore(t, u, p, b)
      BY <1>2, PlacesOfBlock
    <2> QED
      BY <2>1 DEF OnePlaceMore
  <1>4. /\ T \in Nat
        /\ \A q \in Places(u) :
               /\ TurnOf(u, q) \in 0 .. T
               /\ At(u, q).kind = "tool_use" =>
                      (Last(u).role = "user" => TurnOf(u, q) # T)
    BY <1>1, TurnsAlwaysCount, CallTurns DEF TurnsCount
  <1>5. ValidBlock(b, role) /\ role \in {"user", "assistant"}
    <2>1. /\ l.role \in DOMAIN Kinds
          /\ \A j \in DOMAIN l.blocks : ValidBlock(l.blocks[j], l.role)
      BY WrittenAppend
    <2>2. Len(bs) + 1 \in DOMAIN l.blocks /\ l.blocks[Len(bs) + 1] = b
      OBVIOUS
    <2> QED
      BY <2>1, <2>2, RolesOfKinds
  <1>6. Reading(Merge(u)) = OneMore(c, role, b)
    BY ReadingBlock
  <1>7. /\ IsFiniteSet(P)
        /\ Tells(c, P, WhatAt(t), WhenAt(t), LastTurn(t), role)
    BY <1>1 DEF ReadsRight
  <1> HIDE DEF t, u, P, T, c
  <1>8. /\ \A q \in P : WhatAt(t)[q] = at[q] /\ WhenAt(t)[q] = turn[q]
        /\ at[p] = b /\ turn[p] = T
        /\ \A q \in P : turn[q] \in 0 .. T
        /\ role = "user" => \A q \in CallsIn(P, at) : turn[q] # T
    <2>1. \A q \in P : at[q] = At(u, q) /\ turn[q] = TurnOf(u, q) /\ q \in Places(u)
      BY <1>3 DEF WhatAt, WhenAt
    <2>2. \A q \in P : WhatAt(t)[q] = At(t, q) /\ WhenAt(t)[q] = TurnOf(t, q)
      BY DEF WhatAt, WhenAt, P
    <2>3. at[p] = b /\ turn[p] = T
      BY <1>3 DEF WhatAt, WhenAt
    <2> HIDE DEF at, turn
    <2> QED
      BY <1>1, <1>3, <1>4, <2>1, <2>2, <2>3 DEF CallsIn
  <1> HIDE DEF at, turn
  <1>9. Tells(c, P, at, turn, T, role)
    BY <1>3, <1>7, <1>8, TellsElsewhere
  <1>10. Newest(p, P, turn, T)
    BY <1>3, <1>4, <1>8 DEF Newest
  <1>11. Tells(OneMore(c, role, b), P \cup {p}, at, turn, T, role)
    <2>1. CASE role = "assistant"
      <3>1. at[p] \in Blocks /\ at[p].kind # "tool_result"
        BY <1>5, <1>8, <2>1, RolesOfKinds
      <3>2. Tells(Call(c, at[p]), P \cup {p}, at, turn, T, "assistant")
        BY <1>9, <1>10, <2>1, <3>1, TellsCall
      <3> QED
        BY <1>8, <2>1, <3>2 DEF OneMore
    <2>2. CASE role = "user"
      <3>1. at[p] \in Blocks /\ at[p].kind # "tool_use"
        BY <1>5, <1>8, <2>2, RolesOfKinds
      <3>2. /\ \A q \in CallsIn(P, at) : turn[q] # T
            /\ Tells(c, P, at, turn, T, "user")
        BY <1>8, <1>9, <2>2
      <3>3. Tells(Answer(c, at[p]), P \cup {p}, at, turn, T, "user")
        BY <1>10, <3>1, <3>2, TellsAnswer
      <3> QED
        BY <1>8, <2>2, <3>3 DEF OneMore
    <2> QED
      BY <1>5, <2>1, <2>2
  <1>12. IsFiniteSet(P \cup {p})
    BY <1>7, FS_AddElement
  <1>13. ReadsRight(u)
    BY <1>1, <1>3, <1>6, <1>11, <1>12 DEF ReadsRight, T, at, turn
  <1> QED
    BY <1>13 DEF u

\* Whatever blocks the caller wrote, in whatever messages.
LEMMA AlwaysReadsRight ==
    \A s \in Seq(MessageRecords) : s # <<>> /\ Written(s) => ReadsRight(s)
  <1> DEFINE S == {s \in Seq(MessageRecords) : s # <<>> /\ Written(s) => ReadsRight(s)}
  <1>1. <<>> \in S
    OBVIOUS
  <1>2. ASSUME NEW s \in Seq(MessageRecords), NEW x \in MessageRecords, s \in S
        PROVE  Append(s, x) \in S
    <2>1. Append(s, x) \in Seq(MessageRecords)
      BY EndsAppend
    <2>2. ASSUME Written(Append(s, x)) PROVE ReadsRight(Append(s, x))
      <3> DEFINE With(bs) == [role |-> x.role, blocks |-> bs]
                 B == {bs \in Seq(Blocks) :
                          Written(Append(s, With(bs))) => ReadsRight(Append(s, With(bs)))}
      <3>1. /\ Written(s) /\ x.role \in DOMAIN Kinds /\ x.role \in Roles
            /\ x.blocks \in Seq(Blocks) /\ x = With(x.blocks)
        BY <2>2, WrittenAppend DEF Roles, MessageRecords
      <3>2. \A bs \in Seq(Blocks) : /\ With(bs) \in MessageRecords
                                    /\ With(bs).role = x.role /\ With(bs).blocks = bs
        BY <3>1 DEF MessageRecords
      <3> HIDE DEF With
      <3>3. <<>> \in B
        <4>1. <<>> \in Seq(Blocks)
          OBVIOUS
        <4>2. PICK m \in MessageRecords : m = With(<<>>) /\ m.role = x.role /\ m.blocks = <<>>
          BY <3>2, <4>1
        <4>3. s = <<>> => ReadsRight(Append(s, m))
          BY <3>1, <4>2, ReadsRightFirst
        <4>4. s # <<>> => ReadsRight(Append(s, m))
          BY <1>2, <3>1, <4>2, ReadsRightMessage
        <4> QED
          BY <4>1, <4>2, <4>3, <4>4
      <3>4. ASSUME NEW bs \in Seq(Blocks), NEW b \in Blocks, bs \in B
            PROVE  Append(bs, b) \in B
        <4>1. Append(bs, b) \in Seq(Blocks)
          OBVIOUS
        <4>2. PICK m \in MessageRecords, l \in MessageRecords :
                  /\ m = With(bs) /\ m.role = x.role /\ m.blocks = bs
                  /\ l = With(Append(bs, b)) /\ l.role = x.role /\ l.blocks = Append(bs, b)
          BY <3>2, <4>1
        <4>3. ASSUME Written(Append(s, l)) PROVE ReadsRight(Append(s, l))
          <5>1. Written(Append(s, m))
            <6>1. \A j \in DOMAIN l.blocks : ValidBlock(l.blocks[j], l.role)
              BY <4>3, WrittenAppend
            <6>2. \A j \in DOMAIN bs : j \in DOMAIN Append(bs, b) /\ Append(bs, b)[j] = bs[j]
              OBVIOUS
            <6>3. \A j \in DOMAIN m.blocks : ValidBlock(m.blocks[j], m.role)
              BY <4>2, <6>1, <6>2
            <6> QED
              BY <3>1, <4>2, <6>3, WrittenAppend
          <5>2. ReadsRight(Append(s, m))
            BY <3>4, <4>2, <5>1
          <5> QED
            BY <3>1, <4>2, <4>3, <5>2, ReadsRightBlock
        <4> QED
          BY <4>1, <4>2, <4>3
      <3> HIDE DEF B
      <3>5. Seq(Blocks) \subseteq B
        BY <3>3, <3>4, Growing
      <3> QED
        BY <2>2, <3>1, <3>5 DEF B
    <2> QED
      BY <2>1, <2>2
  <1>3. Seq(MessageRecords) \subseteq S
    <2> HIDE DEF S
    <2> QED
      BY <1>1, <1>2, Growing
  <1> QED
    BY <1>3

\* What the loop must find is what the reference says.
LEMMA SoundIsWellPaired ==
    ASSUME NEW s, IsFiniteSet(Places(s)), NEW T
    PROVE  /\ Sound(Places(s), WhatAt(s), WhenAt(s), T)
           /\ Unanswered(Places(s), WhatAt(s), WhenAt(s)) = {}
           <=> WellPaired(s)
  <1> DEFINE P == Places(s)
             at == WhatAt(s)
             turn == WhenAt(s)
             C == CallsIn(P, at)
             R == ResultsIn(P, at)
             U == Unanswered(P, at, turn)
             Of(c) == {r \in R : Answers(s, r, c)}
  <1>1. \A p \in P : at[p] = At(s, p) /\ turn[p] = TurnOf(s, p)
    BY DEF WhatAt, WhenAt
  <1>2. /\ C = PlacesOf(s, "tool_use") /\ R = PlacesOf(s, "tool_result")
        /\ C \subseteq P /\ R \subseteq P
    BY <1>1 DEF CallsIn, ResultsIn, PlacesOf
  <1>3. \A r \in R, c \in C : Replies(at, turn, r, c) <=> Answers(s, r, c)
    BY <1>1, <1>2 DEF Replies, Answers
  <1>4. IsFiniteSet(R)
    BY <1>2, FS_Subset
  <1>5. \A c : Cardinality(Of(c)) = 1 <=> \E r : Of(c) = {r}
    <2> TAKE c
    <2>1. Of(c) \subseteq R
      OBVIOUS
    <2> HIDE DEF Of, R
    <2>2. IsFiniteSet(Of(c))
      BY <1>4, <2>1, FS_Subset
    <2> QED
      BY <2>2, FS_Singleton
  <1>6. U = {c \in C : \A r \in R : ~Answers(s, r, c)}
    BY <1>3 DEF Unanswered
  <1> HIDE DEF C, R, U, P, at, turn
  <1>7. WellPaired(s) <=>
            /\ \A c, d \in C : At(s, c).id = At(s, d).id => c = d
            /\ \A c \in C : Cardinality(Of(c)) = 1
            /\ \A r \in R :
                /\ \E c \in C : Answers(s, r, c)
                /\ \A p \in P : TurnOf(s, p) = TurnOf(s, r) /\ Precedes(p, r) => p \in R
    BY <1>2 DEF WellPaired, P
  <1>8. \A r \in R : ResultSound(P, at, turn, r) <=>
            /\ \E c \in C : Answers(s, r, c)
            /\ \A q \in R : At(s, q).id = At(s, r).id /\ TurnOf(s, q) = TurnOf(s, r) => q = r
            /\ \A p \in P : TurnOf(s, p) = TurnOf(s, r) /\ Precedes(p, r) => p \in R
    <2> TAKE r \in R
    <2>1. (\E c \in C : Replies(at, turn, r, c)) <=> \E c \in C : Answers(s, r, c)
      BY <1>3
    <2>2. (\A q \in R : at[q].id = at[r].id /\ turn[q] = turn[r] => q = r) <=>
          \A q \in R : At(s, q).id = At(s, r).id /\ TurnOf(s, q) = TurnOf(s, r) => q = r
      BY <1>1, <1>2
    <2>3. (\A p \in P : turn[p] = turn[r] /\ Precedes(p, r) => p \in R) <=>
          \A p \in P : TurnOf(s, p) = TurnOf(s, r) /\ Precedes(p, r) => p \in R
      BY <1>1, <1>2
    <2> QED
      BY <2>1, <2>2, <2>3 DEF ResultSound, C, R
  <1>9. Sound(P, at, turn, T) <=>
            /\ \A c, d \in C : At(s, c).id = At(s, d).id => c = d
            /\ \A c \in U : turn[c] + 1 >= T
            /\ \A r \in R : ResultSound(P, at, turn, r)
    <2>1. (\A c, d \in C : at[c].id = at[d].id => c = d) <=>
          \A c, d \in C : At(s, c).id = At(s, d).id => c = d
      BY <1>1, <1>2
    <2> QED
      BY <2>1 DEF Sound, C, R, U
  <1>10. ASSUME Sound(P, at, turn, T), U = {} PROVE WellPaired(s)
    <2>1. ASSUME NEW c \in C PROVE Cardinality(Of(c)) = 1
      <3>1. PICK r \in R : Answers(s, r, c)
        BY <1>6, <1>10
      <3>2. \A q \in R : Answers(s, q, c) => q = r
        BY <1>8, <1>9, <1>10, <3>1 DEF Answers
      <3>3. Of(c) = {r}
        BY <3>1, <3>2
      <3> HIDE DEF Of
      <3> QED
        BY <1>5, <3>3
    <2> HIDE DEF Of
    <2> QED
      BY <1>7, <1>8, <1>9, <1>10, <2>1
  <1>11. ASSUME WellPaired(s) PROVE Sound(P, at, turn, T) /\ U = {}
    <2>1. \A c \in C : \E r : Of(c) = {r}
      BY <1>5, <1>7, <1>11
    <2>2. U = {}
      <3> SUFFICES ASSUME NEW c \in U PROVE FALSE
        OBVIOUS
      <3>1. c \in C /\ \A r \in R : ~Answers(s, r, c)
        BY <1>6
      <3>2. PICK r : Of(c) = {r}
        BY <2>1, <3>1
      <3> QED
        BY <3>1, <3>2
    <2>3. ASSUME NEW r \in R PROVE ResultSound(P, at, turn, r)
      <3>1. PICK c \in C : Answers(s, r, c)
        BY <1>7, <1>11
      <3>2. PICK x : Of(c) = {x}
        BY <2>1
      <3>3. \A q \in R : Answers(s, q, c) => q = r
        <4>1. r \in Of(c)
          BY <3>1
        <4> QED
          BY <3>2, <4>1
      <3>4. \A q \in R : At(s, q).id = At(s, r).id /\ TurnOf(s, q) = TurnOf(s, r) => q = r
        BY <3>1, <3>3 DEF Answers
      <3> HIDE DEF Of
      <3> QED
        BY <1>7, <1>8, <1>11, <3>4
    <2> HIDE DEF Of
    <2> QED
      BY <1>7, <1>9, <1>11, <2>2, <2>3
  <1> QED
    BY <1>10, <1>11 DEF P, at, turn, U

\* validate accepts exactly the conversations that pair up.
LEMMA AcceptsExactly ==
    ASSUME NEW s \in Seq(MessageRecords)
    PROVE  Validates(s) <=>
               /\ s # <<>> /\ Head(s).role = "user" /\ Last(s).role = "user"
               /\ AllValid(s) /\ WellPaired(s)
  <1>1. Validates(s) <=>
            /\ s # <<>> /\ Head(s).role = "user" /\ Last(s).role = "user"
            /\ AllValid(s) /\ Paired(Merge(s)).ok
    BY DEF Validates, FromUserToUser, AllValid, Paired
  <1>2. ASSUME s # <<>>, Last(s).role = "user", AllValid(s)
        PROVE  Paired(Merge(s)).ok <=> WellPaired(s)
    <2> DEFINE P == Places(s)
               at == WhatAt(s)
               turn == WhenAt(s)
               c == Reading(Merge(s))
               U == Unanswered(P, at, turn)
    <2>1. Written(s)
      BY <1>2 DEF AllValid, Written, ValidMessage
    <2>2. ReadsRight(s)
      BY <1>2, <2>1, AlwaysReadsRight
    <2>3. Paired(Merge(s)).ok <=> c.ok /\ c.pending = {}
      BY <1>2, ReadingEnds
    <2>4. /\ c.ok <=> Sound(P, at, turn, LastTurn(s))
          /\ c.ok => c.pending = IdsAt(at, U)
      BY <2>2 DEF ReadsRight, Tells
    <2>5. IdsAt(at, U) = {} <=> U = {}
      BY DEF IdsAt
    <2>6. Sound(P, at, turn, LastTurn(s)) /\ U = {} <=> WellPaired(s)
      BY <2>2, SoundIsWellPaired DEF ReadsRight
    <2> HIDE DEF P, at, turn, c, U
    <2> QED
      BY <2>3, <2>4, <2>5, <2>6
  <1> QED
    BY <1>1, <1>2

-----------------------------------------------------------------------------
(* The requests a caller writes. *)

MessagesTyped == messages \in Seq(MessageRecords)

\* Messages stay messages.
LEMMA WrittenTyped ==
    ASSUME MessagesTyped, ConversationNext
    PROVE  MessagesTyped'
  <1>1. ASSUME NEW role \in Roles, NEW content \in {<<>>} \cup {<<b>> : b \in Blocks},
               AddMessage(role, content)
        PROVE  MessagesTyped'
    <2>1. content \in Seq(Blocks)
      <3>1. <<>> \in Seq(Blocks) /\ \A b \in Blocks : <<b>> \in Seq(Blocks)
        OBVIOUS
      <3> QED
        BY <3>1
    <2>2. [role |-> role, blocks |-> content] \in MessageRecords
      BY <2>1 DEF MessageRecords
    <2> QED
      BY <1>1, <2>2 DEF AddMessage, MessagesTyped
  <1>2. ASSUME NEW b \in Blocks, AddBlock(b) PROVE MessagesTyped'
    <2> DEFINE k == Len(messages)
               x == messages[k]
               y == [role |-> x.role, blocks |-> Append(x.blocks, b)]
    <2>1. k \in DOMAIN messages /\ x \in MessageRecords
      BY <1>2 DEF AddBlock, MessagesTyped
    <2>2. y \in MessageRecords
      BY <2>1 DEF MessageRecords
    <2>3. [x EXCEPT !.blocks = Append(x.blocks, b)] = y
      <3>1. PICK R, S, c : R = Roles /\ S = Seq(Blocks) /\ c = Append(x.blocks, b)
        OBVIOUS
      <3>2. x \in [role : R, blocks : S]
        BY <2>1, <3>1 DEF MessageRecords
      <3>3. [x EXCEPT !.blocks = c] = [role |-> x.role, blocks |-> c]
        BY <3>2, OtherBlocks
      <3> HIDE DEF x
      <3> QED
        BY <3>1, <3>3, Zenon
    <2>4. messages' = [messages EXCEPT ![k] = y]
      <3>1. messages' = [messages EXCEPT ![k] = [x EXCEPT !.blocks = Append(x.blocks, b)]]
        BY <1>2 DEF AddBlock
      <3> QED
        BY <2>3, <3>1
    <2> HIDE DEF y, k
    <2> QED
      BY <2>1, <2>2, <2>4 DEF MessagesTyped
  <1> QED
    BY <1>1, <1>2 DEF ConversationNext, Roles

\* The messages of a request are messages of some blocks.
THEOREM RequestTypeCorrect == RequestSpec => []MessagesTyped
  <1>1. RequestInit => MessagesTyped
    BY DEF RequestInit, ConversationInit, MessagesTyped
  <1>2. ASSUME MessagesTyped, [RequestNext]_requestVars
        PROVE  MessagesTyped'
    <2>1. CASE WriteMessages
      BY <1>2, <2>1, WrittenTyped DEF WriteMessages
    <2>2. CASE WriteSystem
      BY <1>2, <2>2 DEF WriteSystem, MessagesTyped
    <2>3. CASE UNCHANGED requestVars
      BY <1>2, <2>3 DEF requestVars, MessagesTyped
    <2> QED
      BY <1>2, <2>1, <2>2, <2>3 DEF RequestNext
  <1> QED
    BY <1>1, <1>2, PTL DEF RequestSpec

\* validate accepts exactly the conversations in which every call is answered
\* once, in the next user turn and before anything else there, however long
\* they are and however they are cut into messages.
THEOREM RequestsAreJudged == RequestSpec => []ValidatesExactly
  <1>1. MessagesTyped => ValidatesExactly
    <2> HAVE MessagesTyped
    <2>1. PICK s \in Seq(MessageRecords) : s = messages
      BY DEF MessagesTyped
    <2>2. Validates(s) <=>
              /\ s # <<>> /\ Head(s).role = "user" /\ Last(s).role = "user"
              /\ AllValid(s) /\ WellPaired(s)
      BY AcceptsExactly
    <2>3. IsConversation <=>
              /\ s # <<>> /\ Head(s).role = "user" /\ Last(s).role = "user"
              /\ AllValid(s) /\ WellPaired(s)
      BY <2>1 DEF IsConversation, Open, AllValid
    <2> QED
      BY <2>1, <2>2, <2>3 DEF ValidatesExactly
  <1> QED
    BY <1>1, RequestTypeCorrect, PTL

\* What validate makes of an accepted request says the same, roles in turn,
\* and would be accepted as it is.
THEOREM RequestsAreCanonical == RequestSpec => []ValidatedIsCanonical
  <1>1. MessagesTyped => ValidatedIsCanonical
    <2> SUFFICES ASSUME MessagesTyped, Validates(messages)
                 PROVE  LET merged == Merge(messages) IN
                        /\ FlattenSeq([i \in DOMAIN merged |-> merged[i].blocks])
                           = FlattenSeq([i \in DOMAIN messages |-> messages[i].blocks])
                        /\ \A i \in DOMAIN merged :
                               merged[i].role = IF i % 2 = 1 THEN "user" ELSE "assistant"
                        /\ Validates(merged)
                        /\ Merge(merged) = merged
      BY DEF ValidatedIsCanonical
    <2>1. messages \in Seq(MessageRecords)
      BY DEF MessagesTyped
    <2> QED
      BY <2>1, AcceptedIsCanonical
  <1> QED
    BY <1>1, RequestTypeCorrect, PTL

\* Whatever the length of the conversation, the CLI has every turn of it once:
\* the ones it resumes, and the one it is sent.
THEOREM RequestsReachCli == RequestSpec => []ConversationReachesCli
  <1>1. MessagesTyped => ConversationReachesCli
    <2> SUFFICES ASSUME MessagesTyped, Validates(messages)
                 PROVE  LET merged == Merge(messages) IN
                        Append(Resumed(SeedHistory(merged)), FinalTurn(merged)) = merged
      BY DEF ConversationReachesCli
    <2>1. messages \in Seq(MessageRecords)
      BY DEF MessagesTyped
    <2> QED
      BY <2>1, AcceptedReachesCli
  <1> QED
    BY <1>1, RequestTypeCorrect, PTL

\* No row of the transcript holds a call that the next row does not resolve.
THEOREM TranscriptsPairUp == RequestSpec => []TranscriptPairsCalls
  <1>1. MessagesTyped => TranscriptPairsCalls
    <2> SUFFICES ASSUME MessagesTyped, Validates(messages)
                 PROVE  LET rows == SeedHistory(Merge(messages)).rows
                            IdsIn(i, kind) ==
                                {b.id : b \in {x \in ToSet(rows[i].blocks) : x.kind = kind}}
                        IN \A i \in DOMAIN rows : rows[i].role = "assistant" =>
                            /\ i < Len(rows)
                            /\ IdsIn(i, "tool_use") = IdsIn(i + 1, "tool_result")
                            /\ rows[i].stop = "tool_use"
                               <=> rows[i + 1].blocks[1].kind = "tool_result"
      BY DEF TranscriptPairsCalls
    <2>1. messages \in Seq(MessageRecords)
      BY DEF MessagesTyped
    <2> QED
      BY <2>1, AcceptedPairsCalls
  <1> QED
    BY <1>1, RequestTypeCorrect, PTL

-----------------------------------------------------------------------------
(* Paragraphs. *)

\* Numbers have a least one: below it, all are bounds.
LEMMA LeastIn ==
    ASSUME NEW S \in SUBSET Nat, S # {}
    PROVE  /\ Min(S) \in S
           /\ \A y \in S : Min(S) <= y
  <1>1. \E x \in S : \A y \in S : x =< y
    <2> SUFFICES ASSUME \A x \in S : \E y \in S : ~(x =< y) PROVE FALSE
      OBVIOUS
    <2> DEFINE K == {k \in Nat : \A y \in S : k <= y}
    <2>1. PICK n \in S : TRUE
      OBVIOUS
    <2>2. 0 \in K
      OBVIOUS
    <2>3. ASSUME NEW k \in 0 .. n, k \in K PROVE k + 1 \in K
      <3>1. k \notin S
        BY <2>3
      <3> QED
        BY <2>3, <3>1
    <2>4. n + 1 \in Nat /\ n + 1 - 1 = n /\ n + 1 \in 0 .. n + 1
      BY <2>1
    <2>5. n + 1 \notin K
      BY <2>1
    <2> HIDE DEF K
    <2>6. \A k \in 0 .. n + 1 : k \in K
      BY <2>2, <2>3, <2>4, CountingUp
    <2> QED
      BY <2>4, <2>5, <2>6
  <1> QED
    BY <1>1 DEF Min

\* The text begins with a paragraph of one token that is no line feed.
OneToken(t) ==
    /\ t # <<>>
    /\ t[1] # LineFeed
    /\ Len(t) # 1 => Len(t) >= 3 /\ t[2] = LineFeed /\ t[3] = LineFeed

Rest(t) == SubSeq(t, 4, Len(t))

\* A break is two line feeds.
LEMMA BreaksAt ==
    ASSUME NEW t \in Seq(Tokens), NEW p
    PROVE  p \in Breaks(t) <=> /\ p \in 1 .. Len(t) - 1
                               /\ t[p] = LineFeed /\ t[p + 1] = LineFeed
  <1>1. ASSUME NEW q \in 1 .. Len(t) - 1
        PROVE  SubSeq(t, q, q + 1) = BlankLine
               <=> t[q] = LineFeed /\ t[q + 1] = LineFeed
    <2> DEFINE w == SubSeq(t, q, q + 1)
    <2>1. w \in Seq(Tokens) /\ Len(w) = 2 /\ w[1] = t[q] /\ w[2] = t[q + 1]
      OBVIOUS
    <2> HIDE DEF w
    <2>2. w = <<t[q], t[q + 1]>>
      BY <2>1
    <2> QED
      BY <2>2 DEF BlankLine, w
  <1> QED
    BY <1>1 DEF Breaks

\* Paragraphs of texts are texts.
LEMMA ParagraphType ==
    ASSUME NEW t \in Seq(Tokens)
    PROVE  Paragraph(t).first \in Seq(Tokens) /\ Paragraph(t).rest \in Seq(Tokens)
  <1>1. CASE Breaks(t) = {}
    BY <1>1 DEF Paragraph
  <1>2. CASE Breaks(t) # {}
    <2>1. Breaks(t) \in SUBSET Nat
      BY DEF Breaks
    <2>2. Min(Breaks(t)) \in 1 .. Len(t) - 1
      BY <1>2, <2>1, LeastIn, BreaksAt
    <2> QED
      BY <1>2, <2>2 DEF Paragraph
  <1> QED
    BY <1>1, <1>2

\* What Paragraph finds at the beginning of a text.
LEMMA FirstParagraph ==
    ASSUME NEW t \in Seq(Tokens)
    PROVE  /\ Len(Paragraph(t).first) = 1 /\ Paragraph(t).first[1] # LineFeed
              <=> OneToken(t)
           /\ OneToken(t) => /\ Paragraph(t).first = <<t[1]>>
                             /\ Paragraph(t).rest = Rest(t)
  <1>1. Len(t) \in Nat /\ Breaks(t) \in SUBSET Nat
    BY DEF Breaks
  <1>2. CASE Breaks(t) = {}
    <2>1. Paragraph(t).first = t /\ Paragraph(t).rest = <<>>
      BY <1>2 DEF Paragraph
    <2>2. ~(Len(t) >= 3 /\ t[2] = LineFeed /\ t[3] = LineFeed)
      <3>1. ~(2 \in 1 .. Len(t) - 1 /\ t[2] = LineFeed /\ t[2 + 1] = LineFeed)
        BY <1>2, BreaksAt
      <3> QED
        BY <1>1, <3>1
    <2>3. Len(t) = 1 => t = <<t[1]>> /\ Rest(t) = <<>> /\ t # <<>>
      BY DEF Rest
    <2> QED
      BY <1>1, <2>1, <2>2, <2>3 DEF OneToken
  <1>3. CASE Breaks(t) # {}
    <2> DEFINE p == Min(Breaks(t))
    <2>1. /\ p \in 1 .. Len(t) - 1 /\ t[p] = LineFeed /\ t[p + 1] = LineFeed
          /\ \A q \in Breaks(t) : p <= q
      BY <1>1, <1>3, LeastIn, BreaksAt
    <2>2. Paragraph(t).first = SubSeq(t, 1, p - 1) /\ Paragraph(t).rest = SubSeq(t, p + 2, Len(t))
      BY <1>3 DEF Paragraph
    <2> HIDE DEF p
    <2>3. Len(SubSeq(t, 1, p - 1)) = p - 1 /\ SubSeq(t, 1, p - 1) \in Seq(Tokens)
      BY <1>1, <2>1
    <2>4. p = 2 => SubSeq(t, 1, p - 1) = <<t[1]>>
      <3> DEFINE w == SubSeq(t, 1, 1)
      <3>1. 1 \in 1 .. Len(t)
        BY <1>1, <2>1
      <3>2. w \in Seq(Tokens) /\ Len(w) = 1 /\ w[1] = t[1]
        BY <3>1
      <3> HIDE DEF w
      <3>3. w = <<t[1]>>
        BY <3>2
      <3> QED
        BY <3>3 DEF w
    <2>5. OneToken(t) => p = 2
      <3> SUFFICES ASSUME OneToken(t) PROVE p = 2
        OBVIOUS
      <3>1. Len(t) >= 3 /\ t[1] # LineFeed /\ t[2] = LineFeed /\ t[3] = LineFeed
        BY <1>1, <2>1 DEF OneToken
      <3>2. 2 \in Breaks(t)
        BY <1>1, <3>1, BreaksAt
      <3>3. p <= 2 /\ p # 1
        BY <2>1, <3>1, <3>2
      <3> QED
        BY <2>1, <3>3
    <2>6. p = 2 /\ t[1] # LineFeed => OneToken(t)
      BY <1>1, <2>1 DEF OneToken
    <2>7. OneToken(t) => Rest(t) = SubSeq(t, p + 2, Len(t))
      BY <2>5 DEF Rest
    <2>8. Len(SubSeq(t, 1, p - 1)) = 1 <=> p = 2
      BY <1>1, <2>1, <2>3
    <2>9. p = 2 => SubSeq(t, 1, p - 1)[1] = t[1]
      BY <2>4
    <2>10. OneToken(t) => t[1] # LineFeed
      BY DEF OneToken
    <2> QED
      BY <2>2, <2>4, <2>5, <2>6, <2>7, <2>8, <2>9, <2>10
  <1> QED
    BY <1>2, <1>3

\* The tokens are told apart by their type.
LEMMA TokensDiffer ==
    /\ Identity # LineFeed
    /\ \A x : x.type = "header" => x # LineFeed /\ x # Identity
  BY DEF Identity, LineFeed

\* A paragraph is a wrapper only as a single token.
LEMMA WrapperParagraphs ==
    ASSUME NEW t \in Seq(Tokens)
    PROVE  /\ IsIdentity(Paragraph(t).first) <=> OneToken(t) /\ t[1] = Identity
           /\ BillingHeader(Paragraph(t).first)
              <=> OneToken(t) /\ BillingHeader(<<t[1]>>)
  <1> DEFINE f == Paragraph(t).first
  <1>1. /\ Len(f) = 1 /\ f[1] # LineFeed <=> OneToken(t)
        /\ OneToken(t) => f = <<t[1]>>
    BY FirstParagraph
  <1> HIDE DEF f
  <1>2. IsIdentity(f) => Len(f) = 1 /\ f[1] # LineFeed /\ f[1] = Identity
    BY TokensDiffer DEF IsIdentity
  <1>3. BillingHeader(f) => Len(f) = 1 /\ f[1] # LineFeed
    BY TokensDiffer DEF BillingHeader
  <1>4. OneToken(t) /\ t[1] = Identity => IsIdentity(f)
    BY <1>1 DEF IsIdentity
  <1>5. IsIdentity(f) => OneToken(t) /\ t[1] = Identity
    <2> SUFFICES ASSUME IsIdentity(f) PROVE OneToken(t) /\ t[1] = Identity
      OBVIOUS
    <2>1. OneToken(t) /\ f = <<t[1]>> /\ f[1] = Identity
      BY <1>1, <1>2
    <2> QED
      BY <2>1
  <1>6. BillingHeader(f) <=> OneToken(t) /\ BillingHeader(<<t[1]>>)
    BY <1>1, <1>3
  <1> QED
    BY <1>4, <1>5, <1>6 DEF f

-----------------------------------------------------------------------------
(* Strip, one round of its loop at a time. *)

Stops(t) ==
    /\ ~IsIdentity(Paragraph(t).first)
    /\ ~(BillingHeader(Paragraph(t).first)
         /\ IsIdentity(Paragraph(Paragraph(t).rest).first))

NextText(t) ==
    IF IsIdentity(Paragraph(t).first) THEN Paragraph(t).rest
    ELSE Paragraph(Paragraph(t).rest).rest

\* The loop comes from t to u, and ends there.
Leads(n, c, t, u) ==
    /\ c[0] = t /\ c[n] = u /\ Stops(u)
    /\ \A i \in 0 .. n - 1 : ~Stops(c[i]) /\ c[i + 1] = NextText(c[i])

EndOf(t) == {u \in Seq(Tokens) :
                 \E n \in Nat : \E c \in [0 .. n -> Seq(Tokens)] : Leads(n, c, t, u)}

\* A round leaves a text.
LEMMA NextTextType ==
    ASSUME NEW t \in Seq(Tokens) PROVE NextText(t) \in Seq(Tokens)
  <1>1. Paragraph(t).rest \in Seq(Tokens)
    BY ParagraphType
  <1>2. Paragraph(Paragraph(t).rest).rest \in Seq(Tokens)
    BY <1>1, ParagraphType
  <1> QED
    BY <1>1, <1>2 DEF NextText

\* A text that stops is its own end, and a round does not change the end.
LEMMA EndsAgree ==
    ASSUME NEW t \in Seq(Tokens)
    PROVE  EndOf(t) = IF Stops(t) THEN {t} ELSE EndOf(NextText(t))
  <1>1. CASE Stops(t)
    <2>1. ASSUME NEW u \in EndOf(t) PROVE u = t
      <3>1. PICK n \in Nat : \E c \in [0 .. n -> Seq(Tokens)] : Leads(n, c, t, u)
        BY <2>1 DEF EndOf
      <3>2. PICK c \in [0 .. n -> Seq(Tokens)] : Leads(n, c, t, u)
        BY <3>1
      <3>3. n = 0
        BY <1>1, <3>2 DEF Leads
      <3> QED
        BY <3>2, <3>3 DEF Leads
    <2>2. t \in EndOf(t)
      <3> DEFINE c == [i \in 0 .. 0 |-> t]
      <3>1. c \in [0 .. 0 -> Seq(Tokens)] /\ Leads(0, c, t, t)
        BY <1>1 DEF Leads
      <3> QED
        BY <3>1 DEF EndOf
    <2> QED
      BY <1>1, <2>1, <2>2
  <1>2. CASE ~Stops(t)
    <2> DEFINE s == NextText(t)
    <2>1. s \in Seq(Tokens)
      BY NextTextType
    <2>2. ASSUME NEW u \in EndOf(t) PROVE u \in EndOf(s)
      <3>1. PICK n \in Nat : \E c \in [0 .. n -> Seq(Tokens)] : Leads(n, c, t, u)
        BY <2>2 DEF EndOf
      <3>2. PICK c \in [0 .. n -> Seq(Tokens)] : Leads(n, c, t, u)
        BY <3>1
      <3>3. n # 0
        BY <1>2, <3>2 DEF Leads
      <3> DEFINE m == n - 1
                 d == [i \in 0 .. m |-> c[i + 1]]
      <3>4. m \in Nat /\ n = m + 1
        BY <3>3
      <3> HIDE DEF m
      <3>5. d \in [0 .. m -> Seq(Tokens)]
        BY <3>4
      <3>6. d[0] = s /\ d[m] = u /\ Stops(u)
        BY <3>2, <3>4 DEF Leads
      <3>7. ASSUME NEW i \in 0 .. m - 1
            PROVE  ~Stops(d[i]) /\ d[i + 1] = NextText(d[i])
        <4>1. /\ i + 1 \in 0 .. n - 1 /\ i \in 0 .. m /\ i + 1 \in 0 .. m
              /\ d[i] = c[i + 1] /\ d[i + 1] = c[(i + 1) + 1]
          BY <3>4
        <4>2. ~Stops(c[i + 1]) /\ c[(i + 1) + 1] = NextText(c[i + 1])
          BY <3>2, <4>1 DEF Leads
        <4> QED
          BY <4>1, <4>2
      <3> HIDE DEF d, s
      <3>8. Leads(m, d, s, u)
        BY <3>6, <3>7 DEF Leads
      <3> QED
        BY <2>2, <3>4, <3>5, <3>8 DEF EndOf
    <2>3. ASSUME NEW u \in EndOf(s) PROVE u \in EndOf(t)
      <3>1. PICK n \in Nat : \E c \in [0 .. n -> Seq(Tokens)] : Leads(n, c, s, u)
        BY <2>3 DEF EndOf
      <3>2. PICK c \in [0 .. n -> Seq(Tokens)] : Leads(n, c, s, u)
        BY <3>1
      <3> DEFINE m == n + 1
                 d == [i \in 0 .. m |-> IF i = 0 THEN t ELSE c[i - 1]]
      <3>3. m \in Nat /\ d \in [0 .. m -> Seq(Tokens)]
        OBVIOUS
      <3>4. d[0] = t /\ d[m] = u /\ Stops(u) /\ d[1] = s
        BY <3>2 DEF Leads
      <3>5. ASSUME NEW i \in 0 .. m - 1
            PROVE  ~Stops(d[i]) /\ d[i + 1] = NextText(d[i])
        <4>1. CASE i = 0
          BY <1>2, <3>4, <4>1
        <4>2. CASE i # 0
          <5>1. /\ i - 1 \in 0 .. n - 1 /\ d[i] = c[i - 1]
                /\ d[i + 1] = c[(i - 1) + 1]
            BY <4>2
          <5>2. ~Stops(c[i - 1]) /\ c[(i - 1) + 1] = NextText(c[i - 1])
            BY <3>2, <5>1 DEF Leads
          <5> QED
            BY <5>1, <5>2
        <4> QED
          BY <4>1, <4>2
      <3> HIDE DEF d, m, s
      <3>6. Leads(m, d, t, u)
        BY <3>4, <3>5 DEF Leads
      <3> QED
        BY <2>3, <3>3, <3>6 DEF EndOf
    <2> QED
      BY <1>2, <2>2, <2>3
  <1> QED
    BY <1>1, <1>2

\* The function Strip chooses exists, and is a round followed by the others.
LEMMA StripLaw ==
    \A t \in Seq(Tokens) :
        Strip[t] = IF Stops(t) THEN t ELSE Strip[NextText(t)]
  <1> DEFINE g == [t \in Seq(Tokens) |-> CHOOSE u : u \in EndOf(t)]
             Round(f, text) ==
                 LET one == Paragraph(text)
                     two == Paragraph(one.rest) IN
                 IF IsIdentity(one.first) THEN f[one.rest]
                 ELSE IF BillingHeader(one.first) /\ IsIdentity(two.first)
                      THEN f[two.rest]
                 ELSE text
             IsStrip(f) == f = [text \in Seq(Tokens) |-> Round(f, text)]
  <1>1. ASSUME NEW t \in Seq(Tokens)
        PROVE  g[t] = IF Stops(t) THEN t ELSE g[NextText(t)]
    <2>1. CASE Stops(t)
      BY <2>1, EndsAgree
    <2>2. CASE ~Stops(t)
      BY <2>2, EndsAgree, NextTextType
    <2> QED
      BY <2>1, <2>2
  <1>2. ASSUME NEW f, NEW t \in Seq(Tokens)
        PROVE  Round(f, t) = IF Stops(t) THEN t ELSE f[NextText(t)]
    BY DEF Stops, NextText
  <1>3. IsStrip(g)
    <2>1. g = [t \in Seq(Tokens) |-> g[t]]
      OBVIOUS
    <2> HIDE DEF g, Round
    <2>2. \A t \in Seq(Tokens) : g[t] = Round(g, t)
      BY <1>1, <1>2
    <2> QED
      BY <2>1, <2>2
  <1>4. Strip = CHOOSE f : IsStrip(f)
    BY DEF Strip
  <1> HIDE DEF g
  <1>5. IsStrip(Strip)
    <2> HIDE DEF IsStrip
    <2> QED
      BY <1>3, <1>4
  <1> HIDE DEF Round
  <1> QED
    BY <1>2, <1>5

-----------------------------------------------------------------------------
(* What the loop removes. *)

\* The p-th of c tokens is in its place among wrappers.
Placed(t, c, p) ==
    IF p % 3 # 1 THEN t[p] = LineFeed
    ELSE \/ t[p] = Identity
         \/ /\ BillingHeader(<<t[p]>>)
            /\ p + 3 <= c
            /\ t[p + 3] = Identity

\* The first c tokens of t are wrappers (Wraps, within a text).
Covers(t, c) ==
    /\ \A p \in 1 .. c : Placed(t, c, p)
    /\ c % 3 = 0 \/ (c % 3 = 1 /\ c = Len(t))

\* Counting in threes.
LEMMA Thirds ==
    /\ \A p, k \in Nat : k % 3 = 0 => (p + k) % 3 = p % 3
    /\ 0 % 3 = 0 /\ 1 % 3 = 1 /\ 2 % 3 = 2 /\ 3 % 3 = 0
    /\ 4 % 3 = 1 /\ 5 % 3 = 2 /\ 6 % 3 = 0
    /\ \A p \in Nat : p % 3 = 0 /\ p # 0 /\ p # 3 => p >= 6
    /\ \A p \in Nat : p % 3 = 1 /\ p # 1 /\ p # 4 => p >= 6
  OBVIOUS

\* What the first places of a text of wrappers hold.
LEMMA FirstPlaces ==
    ASSUME NEW t, NEW c \in Nat
    PROVE  /\ Placed(t, c, 1) <=> \/ t[1] = Identity
                                  \/ /\ BillingHeader(<<t[1]>>)
                                     /\ 4 <= c
                                     /\ t[4] = Identity
           /\ t[4] = Identity => Placed(t, c, 4)
           /\ Placed(t, c, 2) <=> t[2] = LineFeed
           /\ Placed(t, c, 3) <=> t[3] = LineFeed
           /\ Placed(t, c, 5) <=> t[5] = LineFeed
           /\ Placed(t, c, 6) <=> t[6] = LineFeed
  <1>1. 1 % 3 = 1 /\ 2 % 3 # 1 /\ 3 % 3 # 1 /\ 4 % 3 = 1 /\ 5 % 3 # 1 /\ 6 % 3 # 1
    BY Thirds
  <1>2. 1 + 3 = 4
    OBVIOUS
  <1> QED
    BY <1>1, <1>2 DEF Placed

\* Covers is Wraps for a beginning of the text.
LEMMA CoversIsWraps ==
    ASSUME NEW t \in Seq(Tokens), NEW c \in 0 .. Len(t)
    PROVE  /\ c = Len(t) => (Wraps(SubSeq(t, 1, c), TRUE) <=> Covers(t, c))
           /\ c # Len(t) => (Wraps(SubSeq(t, 1, c), FALSE) <=> Covers(t, c))
  <1> DEFINE w == SubSeq(t, 1, c)
  <1>1. Len(w) = c /\ DOMAIN w = 1 .. c /\ \A p \in 1 .. c : w[p] = t[p]
    OBVIOUS
  <1>2. c \in Nat
    OBVIOUS
  <1> HIDE DEF w
  <1> DEFINE InW(p) ==
                 IF p % 3 # 1 THEN w[p] = LineFeed
                 ELSE \/ w[p] = Identity
                      \/ /\ BillingHeader(<<w[p]>>)
                         /\ p + 3 \in DOMAIN w
                         /\ w[p + 3] = Identity
  <1>3. ASSUME NEW p \in 1 .. c PROVE InW(p) <=> Placed(t, c, p)
    <2>1. w[p] = t[p] /\ (p + 3 \in DOMAIN w <=> p + 3 <= c)
      BY <1>1, <1>2
    <2>2. p + 3 <= c => w[p + 3] = t[p + 3]
      BY <1>1, <1>2
    <2> QED
      BY <2>1, <2>2 DEF Placed
  <1>4. /\ Wraps(w, TRUE) <=> (\A p \in 1 .. c : InW(p)) /\ c % 3 \in {0, 1}
        /\ Wraps(w, FALSE) <=> (\A p \in 1 .. c : InW(p)) /\ c % 3 \in {0}
    BY <1>1 DEF Wraps
  <1>5. Covers(t, c) <=> /\ \A p \in 1 .. c : Placed(t, c, p)
                         /\ c % 3 = 0 \/ (c % 3 = 1 /\ c = Len(t))
    BY DEF Covers
  <1> HIDE DEF InW
  <1>6. (\A p \in 1 .. c : InW(p)) <=> (\A p \in 1 .. c : Placed(t, c, p))
    BY <1>3
  <1>7. /\ c % 3 \in {0, 1} <=> c % 3 = 0 \/ c % 3 = 1
        /\ c % 3 \in {0} <=> c % 3 = 0
    OBVIOUS
  <1>8. ASSUME c = Len(t) PROVE Wraps(w, TRUE) <=> Covers(t, c)
    BY <1>4, <1>5, <1>6, <1>7, <1>8
  <1>9. ASSUME c # Len(t) PROVE Wraps(w, FALSE) <=> Covers(t, c)
    BY <1>4, <1>5, <1>6, <1>7, <1>9
  <1> QED
    BY <1>8, <1>9 DEF w

\* A round removes wrappers and nothing else.
LEMMA RoundCovers ==
    ASSUME NEW t \in Seq(Tokens), ~Stops(t)
    PROVE  \E k \in 1 .. Len(t) :
               /\ NextText(t) = SubSeq(t, k + 1, Len(t))
               /\ Covers(t, k)
  <1>1. Len(t) \in Nat
    OBVIOUS
  <1>2. CASE IsIdentity(Paragraph(t).first)
    <2>1. OneToken(t) /\ t[1] = Identity
      BY <1>2, WrapperParagraphs
    <2>2. NextText(t) = Rest(t)
      BY <1>2, <2>1, FirstParagraph DEF NextText
    <2>3. CASE Len(t) = 1
      <3>1. Rest(t) = <<>> /\ SubSeq(t, 1 + 1, Len(t)) = <<>>
        BY <2>3 DEF Rest
      <3>2. Covers(t, 1)
        <4>1. \A p \in 1 .. 1 : p = 1
          OBVIOUS
        <4>2. Placed(t, 1, 1)
          BY <2>1, FirstPlaces
        <4> QED
          BY <2>3, <4>1, <4>2, Thirds DEF Covers
      <3> QED
        BY <2>2, <2>3, <3>1, <3>2
    <2>4. CASE Len(t) # 1
      <3>1. Len(t) >= 3 /\ t[2] = LineFeed /\ t[3] = LineFeed
        BY <2>1, <2>4 DEF OneToken
      <3>2. \A p \in 1 .. 3 : p = 1 \/ p = 2 \/ p = 3
        OBVIOUS
      <3>3. Covers(t, 3)
        <4>1. Placed(t, 3, 1) /\ Placed(t, 3, 2) /\ Placed(t, 3, 3)
          BY <2>1, <3>1, FirstPlaces
        <4>2. 3 % 3 = 0
          OBVIOUS
        <4> QED
          BY <3>2, <4>1, <4>2 DEF Covers
      <3>4. 3 \in 1 .. Len(t) /\ Rest(t) = SubSeq(t, 3 + 1, Len(t))
        BY <1>1, <3>1 DEF Rest
      <3> QED
        BY <2>2, <3>3, <3>4
    <2> QED
      BY <2>3, <2>4
  <1>3. CASE ~IsIdentity(Paragraph(t).first)
    <2> DEFINE u == Rest(t)
    <2>1. BillingHeader(Paragraph(t).first) /\ IsIdentity(Paragraph(Paragraph(t).rest).first)
      BY <1>3 DEF Stops
    <2>2. OneToken(t) /\ BillingHeader(<<t[1]>>)
      BY <2>1, WrapperParagraphs
    <2>3. Paragraph(t).rest = u /\ u \in Seq(Tokens)
      BY <2>2, FirstParagraph DEF Rest
    <2>4. OneToken(u) /\ u[1] = Identity
      BY <2>1, <2>3, WrapperParagraphs
    <2>5. NextText(t) = Rest(u)
      BY <1>3, <2>3, <2>4, FirstParagraph DEF NextText
    <2>6. Len(t) >= 4 /\ Len(u) = Len(t) - 3 /\ \A p \in 1 .. Len(t) - 3 : u[p] = t[p + 3]
      <3>1. Len(u) >= 1
        BY <2>3, <2>4 DEF OneToken
      <3> QED
        BY <1>1, <3>1 DEF Rest
    <2>7. t[2] = LineFeed /\ t[3] = LineFeed /\ t[4] = Identity
      BY <2>2, <2>4, <2>6, <1>1 DEF OneToken
    <2> HIDE DEF u
    <2>8. CASE Len(u) = 1
      <3>1. Len(t) = 4
        <4>1. Len(u) = Len(t) - 3
          BY <2>6
        <4>2. Len(t) - 3 = 1
          BY <2>8, <4>1
        <4> QED
          BY <1>1, <4>2
      <3>2. \A p \in 1 .. 4 : p = 1 \/ p = 2 \/ p = 3 \/ p = 4
        OBVIOUS
      <3>3. Covers(t, 4)
        <4>1. Placed(t, 4, 1) /\ Placed(t, 4, 2) /\ Placed(t, 4, 3) /\ Placed(t, 4, 4)
          BY <2>2, <2>7, FirstPlaces
        <4> QED
          BY <3>1, <3>2, <4>1, Thirds DEF Covers
      <3>4. Rest(u) = <<>> /\ SubSeq(t, 4 + 1, Len(t)) = <<>> /\ 4 \in 1 .. Len(t)
        BY <2>3, <2>8, <3>1 DEF Rest
      <3> QED
        BY <2>5, <3>3, <3>4
    <2>9. CASE Len(u) # 1
      <3>1. Len(u) >= 3 /\ u[2] = LineFeed /\ u[3] = LineFeed
        BY <2>4, <2>9 DEF OneToken
      <3>2. Len(t) >= 6 /\ t[5] = LineFeed /\ t[6] = LineFeed
        BY <1>1, <2>6, <3>1
      <3>3. \A p \in 1 .. 6 : p = 1 \/ p = 2 \/ p = 3 \/ p = 4 \/ p = 5 \/ p = 6
        OBVIOUS
      <3>4. Covers(t, 6)
        <4>1. /\ Placed(t, 6, 1) /\ Placed(t, 6, 2) /\ Placed(t, 6, 3)
              /\ Placed(t, 6, 4) /\ Placed(t, 6, 5) /\ Placed(t, 6, 6)
          BY <2>2, <2>7, <3>2, FirstPlaces
        <4>2. 6 % 3 = 0
          OBVIOUS
        <4> QED
          BY <3>3, <4>1, <4>2 DEF Covers
      <3>5. 6 \in 1 .. Len(t) /\ Rest(u) = SubSeq(t, 6 + 1, Len(t))
        <4>1. Rest(u) = SubSeq(SubSeq(t, 4, Len(t)), 4, Len(u))
          BY DEF Rest, u
        <4>2. Rest(u) \in Seq(Tokens) /\ Len(Rest(u)) = Len(t) - 6
          BY <1>1, <2>3, <2>6, <3>1, <3>2 DEF Rest
        <4>3. \A p \in 1 .. Len(t) - 6 : Rest(u)[p] = t[p + 6]
          <5> TAKE p \in 1 .. Len(t) - 6
          <5>1. Rest(u)[p] = u[p + 3]
            BY <1>1, <2>3, <2>6, <3>2 DEF Rest
          <5>2. u[p + 3] = t[(p + 3) + 3] /\ (p + 3) + 3 = p + 6
            BY <1>1, <2>6, <3>2
          <5> QED
            BY <5>1, <5>2
        <4> DEFINE v == SubSeq(t, 6 + 1, Len(t))
        <4>4. /\ v \in Seq(Tokens) /\ Len(v) = Len(t) - 6
              /\ \A p \in 1 .. Len(t) - 6 : v[p] = t[p + 6]
          <5> DEFINE n == Len(t)
          <5>1. n \in Nat /\ n >= 6 /\ t \in [1 .. n -> Tokens] /\ n = Len(t)
            BY <1>1, <3>2
          <5> HIDE DEF n
          <5>2. /\ SubSeq(t, 7, n) \in Seq(Tokens) /\ Len(SubSeq(t, 7, n)) = n - 6
                /\ \A p \in 1 .. n - 6 : SubSeq(t, 7, n)[p] = t[p + 6]
            BY <5>1
          <5> QED
            BY <5>1, <5>2
        <4> HIDE DEF v
        <4>5. Rest(u) = v
          BY <4>2, <4>3, <4>4, SeqEqual
        <4> QED
          BY <1>1, <3>2, <4>5 DEF v
      <3> QED
        BY <2>5, <3>4, <3>5
    <2> QED
      BY <2>8, <2>9
  <1> QED
    BY <1>2, <1>3

\* Wrappers behind wrappers are wrappers.
LEMMA CoversAdd ==
    ASSUME NEW t \in Seq(Tokens), NEW k \in 1 .. Len(t), Covers(t, k),
           NEW c \in 0 .. Len(t) - k, Covers(SubSeq(t, k + 1, Len(t)), c)
    PROVE  Covers(t, k + c)
  <1> DEFINE u == SubSeq(t, k + 1, Len(t))
  <1>1. /\ k \in Nat /\ c \in Nat /\ Len(t) \in Nat /\ k + c <= Len(t)
        /\ Len(u) = Len(t) - k /\ \A p \in 1 .. Len(t) - k : u[p] = t[p + k]
    OBVIOUS
  <1> HIDE DEF u
  <1>2. CASE k % 3 # 0
    <2>1. k = Len(t)
      BY <1>2 DEF Covers
    <2>2. c = 0
      BY <1>1, <2>1
    <2> QED
      BY <1>1, <2>2
  <1>3. CASE k % 3 = 0
    <2>1. ASSUME NEW p \in 1 .. k + c
          PROVE  Placed(t, k + c, p)
      <3>1. CASE p <= k
        <4>1. p \in 1 .. k /\ (p + 3 <= k => p + 3 <= k + c)
          BY <1>1, <3>1
        <4>2. Placed(t, k, p)
          BY <4>1 DEF Covers
        <4> QED
          BY <4>1, <4>2 DEF Placed
      <3>2. CASE p > k
        <4> DEFINE q == p - k
        <4>1. q \in 1 .. c /\ p = q + k /\ q \in Nat
          BY <1>1, <3>2
        <4> HIDE DEF q
        <4>2. p % 3 = q % 3
          BY <1>1, <1>3, <4>1, Thirds
        <4>3. u[q] = t[p]
          BY <1>1, <4>1
        <4>4. q + 3 <= c => u[q + 3] = t[p + 3] /\ p + 3 <= k + c
          <5> SUFFICES ASSUME q + 3 <= c PROVE u[q + 3] = t[p + 3] /\ p + 3 <= k + c
            OBVIOUS
          <5>1. q + 3 \in 1 .. Len(t) - k /\ (q + 3) + k = p + 3
            BY <1>1, <4>1
          <5> QED
            BY <1>1, <4>1, <5>1
        <4>5. Placed(u, c, q)
          BY <4>1 DEF Covers, u
        <4> QED
          BY <4>2, <4>3, <4>4, <4>5 DEF Placed
      <3> QED
        BY <1>1, <3>1, <3>2
    <2>2. (k + c) % 3 = c % 3
      <3>1. (c + k) % 3 = c % 3
        BY <1>1, <1>3, Thirds
      <3>2. c + k = k + c
        BY <1>1
      <3> QED
        BY <3>1, <3>2
    <2>3. c % 3 = 0 \/ (c % 3 = 1 /\ c = Len(u))
      BY DEF Covers, u
    <2>4. c = Len(u) => k + c = Len(t)
      BY <1>1
    <2> QED
      BY <2>1, <2>2, <2>3, <2>4 DEF Covers
  <1> QED
    BY <1>2, <1>3

\* A text at which the loop stops does not begin with wrappers.
LEMMA StoppedUncovered ==
    ASSUME NEW t \in Seq(Tokens), Stops(t), NEW p \in 1 .. Len(t)
    PROVE  ~Covers(t, p)
  <1> SUFFICES ASSUME Covers(t, p) PROVE FALSE
    OBVIOUS
  <1>1. p \in Nat /\ Len(t) \in Nat /\ t # <<>>
    OBVIOUS
  <1>2. /\ (p = 1 /\ Len(t) = 1) \/ p >= 3
        /\ p >= 5 => p >= 6
    <2>1. p % 3 = 0 \/ (p % 3 = 1 /\ p = Len(t))
      BY DEF Covers
    <2>2. p # 2 /\ p # 5
      <3>1. 2 % 3 = 2 /\ 5 % 3 = 2
        OBVIOUS
      <3> QED
        BY <2>1, <3>1
    <2>3. p = 1 => Len(t) = 1
      <3>1. 1 % 3 # 0
        OBVIOUS
      <3> QED
        BY <2>1, <3>1
    <2> QED
      BY <1>1, <2>2, <2>3
  <1>3. p >= 3 => t[2] = LineFeed /\ t[3] = LineFeed
    <2> SUFFICES ASSUME p >= 3 PROVE t[2] = LineFeed /\ t[3] = LineFeed
      OBVIOUS
    <2>1. Placed(t, p, 2) /\ Placed(t, p, 3)
      BY <1>1 DEF Covers
    <2> QED
      BY <1>1, <2>1, FirstPlaces
  <1>4. \/ t[1] = Identity
        \/ BillingHeader(<<t[1]>>) /\ 4 <= p /\ t[4] = Identity
    <2>1. Placed(t, p, 1)
      BY <1>1 DEF Covers
    <2> QED
      BY <1>1, <2>1, FirstPlaces
  <1>5. t[1] # LineFeed
    <2>1. BillingHeader(<<t[1]>>) => t[1] # LineFeed
      BY TokensDiffer DEF BillingHeader
    <2> QED
      BY <1>4, <2>1, TokensDiffer
  <1>6. OneToken(t)
    BY <1>1, <1>2, <1>3, <1>5 DEF OneToken
  <1>7. CASE t[1] = Identity
    BY <1>6, <1>7, WrapperParagraphs DEF Stops
  <1>8. CASE BillingHeader(<<t[1]>>) /\ 4 <= p /\ t[4] = Identity
    <2> DEFINE u == Rest(t)
    <2>1. /\ u \in Seq(Tokens) /\ Len(u) = Len(t) - 3
          /\ \A q \in 1 .. Len(t) - 3 : u[q] = t[q + 3]
      BY <1>1, <1>8 DEF Rest
    <2> HIDE DEF u
    <2>2. u[1] = Identity /\ u # <<>>
      BY <1>1, <1>8, <2>1
    <2>3. Len(u) # 1 => Len(u) >= 3 /\ u[2] = LineFeed /\ u[3] = LineFeed
      <3> SUFFICES ASSUME Len(u) # 1
                   PROVE  Len(u) >= 3 /\ u[2] = LineFeed /\ u[3] = LineFeed
        OBVIOUS
      <3>1. Len(t) # 4
        BY <2>1
      <3>2. p >= 6
        <4>1. p % 3 = 0 \/ p = Len(t)
          BY DEF Covers
        <4>2. 4 % 3 # 0
          OBVIOUS
        <4>3. p # 4
          BY <3>1, <4>1, <4>2
        <4> QED
          BY <1>1, <1>2, <1>8, <4>3
      <3>3. t[5] = LineFeed /\ t[6] = LineFeed
        <4>1. Placed(t, p, 5) /\ Placed(t, p, 6)
          BY <1>1, <3>2 DEF Covers
        <4> QED
          BY <1>1, <4>1, FirstPlaces
      <3> QED
        BY <1>1, <2>1, <3>2, <3>3
    <2>4. OneToken(u)
      BY <2>2, <2>3, TokensDiffer DEF OneToken
    <2>5. BillingHeader(Paragraph(t).first) /\ Paragraph(t).rest = u
      BY <1>6, <1>8, WrapperParagraphs, FirstParagraph DEF u
    <2>6. IsIdentity(Paragraph(u).first)
      BY <2>1, <2>2, <2>4, WrapperParagraphs
    <2> QED
      BY <2>5, <2>6 DEF Stops
  <1> QED
    BY <1>4, <1>7, <1>8

-----------------------------------------------------------------------------
(* The whole loop, and the system field around it. *)

\* What is left of t after c tokens, and the loop ends there.
Good(t) ==
    \E c \in 0 .. Len(t) :
        /\ Strip[t] = SubSeq(t, c + 1, Len(t))
        /\ Covers(t, c)
        /\ Stops(Strip[t])

\* One round more in front: what it removes and what the others remove
\* are wrappers together.
LEMMA RoundIsGood ==
    ASSUME NEW t \in Seq(Tokens), ~Stops(t), Good(NextText(t)) PROVE Good(t)
  <1>1. PICK k \in 1 .. Len(t) :
            NextText(t) = SubSeq(t, k + 1, Len(t)) /\ Covers(t, k)
    BY RoundCovers
  <1> DEFINE u == SubSeq(t, k + 1, Len(t))
             n == Len(t)
  <1>2. /\ n \in Nat /\ k \in Nat /\ k >= 1 /\ k <= n
        /\ u \in Seq(Tokens) /\ Len(u) = n - k
        /\ \A p \in 1 .. n - k : u[p] = t[p + k]
    OBVIOUS
  <1>3. PICK c \in 0 .. Len(u) :
            /\ Strip[u] = SubSeq(u, c + 1, Len(u))
            /\ Covers(u, c)
            /\ Stops(Strip[u])
    BY <1>1 DEF Good
  <1>4. Strip[t] = Strip[u]
    BY <1>1, StripLaw
  <1>5. SubSeq(u, c + 1, Len(u)) = SubSeq(t, k + c + 1, n)
    <2> DEFINE v == SubSeq(u, c + 1, Len(u))
               w == SubSeq(t, k + c + 1, n)
    <2>1. /\ v \in Seq(Tokens) /\ Len(v) = n - k - c
          /\ \A p \in 1 .. n - k - c : v[p] = u[p + c]
      <3> DEFINE m == Len(u)
      <3>1. m \in Nat /\ m = n - k /\ c \in 0 .. m
        BY <1>2
      <3>2. u \in Seq(Tokens) /\ m = Len(u)
        BY <1>2
      <3> HIDE DEF m, u, n
      <3>3. /\ SubSeq(u, c + 1, m) \in Seq(Tokens) /\ Len(SubSeq(u, c + 1, m)) = m - c
            /\ \A p \in 1 .. m - c : SubSeq(u, c + 1, m)[p] = u[p + c]
        BY <3>1, <3>2
      <3> QED
        BY <3>1, <3>2, <3>3
    <2>2. /\ w \in Seq(Tokens) /\ Len(w) = n - k - c
          /\ \A p \in 1 .. n - k - c : w[p] = t[p + (k + c)]
      <3> DEFINE j == k + c
      <3>1. j \in 0 .. n /\ n - k - c = n - j /\ n = Len(t) /\ k + c + 1 = j + 1
        BY <1>2
      <3> HIDE DEF j, n
      <3>2. /\ SubSeq(t, j + 1, n) \in Seq(Tokens) /\ Len(SubSeq(t, j + 1, n)) = n - j
            /\ \A p \in 1 .. n - j : SubSeq(t, j + 1, n)[p] = t[p + j]
        BY <3>1
      <3> QED
        BY <3>1, <3>2 DEF j
    <2>3. ASSUME NEW p \in 1 .. n - k - c PROVE v[p] = w[p]
      <3>1. p + c \in 1 .. n - k /\ (p + c) + k = p + (k + c)
        BY <1>2
      <3> HIDE DEF u, n, v, w
      <3> QED
        BY <1>2, <2>1, <2>2, <3>1
    <2> HIDE DEF v, w, u, n
    <2>4. v = w
      BY <2>1, <2>2, <2>3, SeqEqual
    <2> QED
      BY <2>4 DEF v, w
  <1>6. c \in 0 .. n - k /\ k + c \in 0 .. n
    BY <1>2
  <1>7. Covers(t, k + c)
    BY <1>1, <1>3, <1>6, CoversAdd
  <1> HIDE DEF u
  <1> QED
    BY <1>3, <1>4, <1>5, <1>6, <1>7 DEF Good

\* The loop ends for every text, since each round makes it shorter.
LEMMA StripIsGood ==
    ASSUME NEW t \in Seq(Tokens) PROVE Good(t)
  <1> DEFINE K == {k \in Nat : \A s \in Seq(Tokens) : Len(s) <= k => Good(s)}
  <1>1. ASSUME NEW s \in Seq(Tokens), Stops(s) PROVE Good(s)
    <2>1. Strip[s] = s /\ s = SubSeq(s, 0 + 1, Len(s)) /\ 0 \in 0 .. Len(s)
      BY <1>1, StripLaw
    <2>2. Covers(s, 0)
      BY Thirds DEF Covers
    <2> QED
      BY <1>1, <2>1, <2>2 DEF Good
  <1>2. ASSUME NEW s \in Seq(Tokens), ~Stops(s)
        PROVE  NextText(s) \in Seq(Tokens) /\ Len(NextText(s)) < Len(s)
    <2>1. PICK k \in 1 .. Len(s) : NextText(s) = SubSeq(s, k + 1, Len(s))
      BY <1>2, RoundCovers
    <2> QED
      BY <2>1
  <1>3. 0 \in K
    <2> SUFFICES ASSUME NEW s \in Seq(Tokens), Len(s) <= 0 PROVE Good(s)
      OBVIOUS
    <2>1. Stops(s)
      <3> SUFFICES ASSUME ~Stops(s) PROVE FALSE
        OBVIOUS
      <3>1. Len(NextText(s)) < Len(s) /\ NextText(s) \in Seq(Tokens)
        BY <1>2
      <3> QED
        BY <3>1
    <2> QED
      BY <1>1, <2>1
  <1>4. ASSUME NEW k \in Nat, k \in K PROVE k + 1 \in K
    <2> SUFFICES ASSUME NEW s \in Seq(Tokens), Len(s) <= k + 1 PROVE Good(s)
      OBVIOUS
    <2>1. CASE Stops(s)
      BY <1>1, <2>1
    <2>2. CASE ~Stops(s)
      <3>1. NextText(s) \in Seq(Tokens) /\ Len(NextText(s)) <= k
        BY <1>2, <2>2
      <3>2. Good(NextText(s))
        BY <1>4, <3>1
      <3> QED
        BY <2>2, <3>2, RoundIsGood
    <2> QED
      BY <2>1, <2>2
  <1>5. Len(t) \in K
    <2> DEFINE n == Len(t)
    <2>1. n \in Nat /\ n \in 0 .. n
      OBVIOUS
    <2> HIDE DEF K, n
    <2>2. \A k \in 0 .. n : k \in K
      BY <1>3, <1>4, <2>1, CountingUp
    <2> QED
      BY <2>1, <2>2 DEF n
  <1> QED
    BY <1>5

\* Parts of texts are joined to a text.
LEMMA JoinType ==
    ASSUME NEW s \in Seq(Seq(Tokens)) PROVE Join(s) \in Seq(Tokens)
  <1> DEFINE j == [i \in DOMAIN s |-> IF i = 1 THEN s[i] ELSE BlankLine \o s[i]]
  <1>1. BlankLine \in Seq(Tokens)
    BY DEF BlankLine, Tokens
  <1>2. \A i \in 1 .. Len(s) : s[i] \in Seq(Tokens) /\ BlankLine \o s[i] \in Seq(Tokens)
    BY <1>1
  <1>3. j \in Seq(Seq(Tokens))
    <2>1. DOMAIN s = 1 .. Len(s) /\ Len(s) \in Nat
      OBVIOUS
    <2> QED
      BY <1>2, <2>1
  <1> HIDE DEF j
  <1>4. FlattenSeq(j) \in Seq(Tokens)
    BY <1>3, FlattenLaw
  <1> QED
    BY <1>4 DEF Join, j

\* No part, and one part, are joined without a blank line.
LEMMA JoinFew ==
    /\ Join(<<>>) = <<>>
    /\ \A b \in Seq(Tokens) : Join(<<b>>) = b
  <1>1. Join(<<>>) = <<>>
    <2>1. [i \in DOMAIN <<>> |-> IF i = 1 THEN <<>>[i] ELSE BlankLine \o <<>>[i]] = <<>>
      OBVIOUS
    <2>2. FlattenSeq(<<>>) = <<>>
      BY FlattenLaw
    <2> QED
      BY <2>1, <2>2 DEF Join
  <1>2. ASSUME NEW b \in Seq(Tokens) PROVE Join(<<b>>) = b
    <2> DEFINE s == <<b>>
               j == [i \in DOMAIN s |-> IF i = 1 THEN s[i] ELSE BlankLine \o s[i]]
    <2>1. j = s
      <3>1. DOMAIN s = {1} /\ s[1] = b
        OBVIOUS
      <3>2. j = [i \in {1} |-> b]
        BY <3>1
      <3>3. s = [i \in {1} |-> b]
        BY <3>1
      <3> QED
        BY <3>2, <3>3
    <2>2. s = Append(<<>>, b) /\ <<>> \in Seq(Seq(Tokens))
      OBVIOUS
    <2>3. FlattenSeq(Append(<<>>, b)) = FlattenSeq(<<>>) \o b
      BY <2>2, FlattenLaw
    <2>4. FlattenSeq(<<>>) = <<>> /\ <<>> \o b = b
      BY FlattenLaw
    <2>5. Join(s) = FlattenSeq(j)
      BY DEF Join
    <2> HIDE DEF j
    <2> QED
      BY <2>1, <2>2, <2>3, <2>4, <2>5
  <1> QED
    BY <1>1, <1>2

\* What the loop makes of a text, in terms of the reference.
LEMMA StripKeepsBody ==
    ASSUME NEW t \in Seq(Tokens)
    PROVE  LET body == Strip[t]
               cut  == Len(t) - Len(body) IN
           /\ body \in Seq(Tokens)
           /\ cut \in Nat
           /\ body = SubSeq(t, cut + 1, Len(t))
           /\ Wraps(SubSeq(t, 1, cut), body = <<>>)
           /\ \A p \in DOMAIN body : ~Wraps(SubSeq(body, 1, p), p = Len(body))
           /\ Strip[body] = body
           /\ cut = 0 => body = t
  <1> DEFINE body == Strip[t]
             n == Len(t)
  <1>1. PICK c \in 0 .. n :
            body = SubSeq(t, c + 1, n) /\ Covers(t, c) /\ Stops(body)
    BY StripIsGood DEF Good
  <1>2. body \in Seq(Tokens) /\ Len(body) = n - c /\ c \in Nat /\ n \in Nat
    BY <1>1
  <1> HIDE DEF body, n
  <1>3. n - Len(body) = c
    BY <1>2
  <1>4. Wraps(SubSeq(t, 1, c), body = <<>>)
    <2>1. CASE c = n
      <3>1. (body = <<>>) = TRUE
        BY <1>2, <2>1
      <3>2. Wraps(SubSeq(t, 1, c), TRUE)
        BY <1>1, <2>1, CoversIsWraps DEF n
      <3> QED
        BY <3>1, <3>2
    <2>2. CASE c # n
      <3>1. (body = <<>>) = FALSE
        <4>1. Len(body) # 0
          BY <1>2, <2>2
        <4>2. body # <<>>
          BY <4>1
        <4> QED
          BY <4>2
      <3>2. Wraps(SubSeq(t, 1, c), FALSE)
        BY <1>1, <2>2, CoversIsWraps DEF n
      <3> QED
        BY <3>1, <3>2
    <2> QED
      BY <2>1, <2>2
  <1>5. ASSUME NEW p \in DOMAIN body
        PROVE  ~Wraps(SubSeq(body, 1, p), p = Len(body))
    <2>1. p \in 1 .. Len(body) /\ p \in 0 .. Len(body)
      BY <1>2
    <2>2. ~Covers(body, p)
      BY <1>1, <1>2, <2>1, StoppedUncovered
    <2>3. CASE p = Len(body)
      <3>1. ~Wraps(SubSeq(body, 1, p), TRUE)
        BY <1>2, <2>1, <2>2, <2>3, CoversIsWraps
      <3>2. (p = Len(body)) = TRUE
        BY <2>3
      <3> QED
        BY <3>1, <3>2
    <2>4. CASE p # Len(body)
      <3>1. ~Wraps(SubSeq(body, 1, p), FALSE)
        BY <1>2, <2>1, <2>2, <2>4, CoversIsWraps
      <3>2. (p = Len(body)) = FALSE
        BY <2>4
      <3> QED
        BY <3>1, <3>2
    <2> QED
      BY <2>3, <2>4
  <1>6. Strip[body] = body
    BY <1>1, <1>2, StripLaw
  <1>7. c = 0 => body = t
    BY <1>1 DEF n
  <1> QED
    BY <1>1, <1>2, <1>3, <1>4, <1>5, <1>6, <1>7 DEF body, n

\* The system field, before and after.
LEMMA FieldKeepsBody ==
    ASSUME system \in Seq(Seq(Tokens)) PROVE PromptKeepsBody
  <1> DEFINE joined == Join(system)
             b == Strip[joined]
             cut == Len(joined) - Len(b)
             result == SystemParts(system)
             Kept == /\ cut >= 0
                     /\ b = SubSeq(joined, cut + 1, Len(joined))
                     /\ Wraps(SubSeq(joined, 1, cut), b = <<>>)
                     /\ \A p \in DOMAIN b : ~Wraps(SubSeq(b, 1, p), p = Len(b))
  <1>1. joined \in Seq(Tokens)
    BY JoinType
  <1>2. /\ b \in Seq(Tokens) /\ cut \in Nat /\ Kept /\ Strip[b] = b
        /\ cut = 0 => b = joined
    <2> HIDE DEF joined
    <2>1. /\ b \in Seq(Tokens) /\ cut \in Nat
          /\ b = SubSeq(joined, cut + 1, Len(joined))
          /\ Wraps(SubSeq(joined, 1, cut), b = <<>>)
          /\ \A p \in DOMAIN b : ~Wraps(SubSeq(b, 1, p), p = Len(b))
          /\ Strip[b] = b
          /\ cut = 0 => b = joined
      BY <1>1, StripKeepsBody
    <2>2. cut >= 0
      BY <2>1
    <2> HIDE DEF b, cut
    <2> QED
      BY <2>1, <2>2, Zenon
  <1>3. Join(result) = b
        /\ (cut = 0 /\ system # <<>> => result = system)
        /\ (cut > 0 => Len(result) = 1)
        /\ Normalize(result) = result
    <2>1. CASE system = <<>>
      <3>1. joined = <<>> /\ <<>> \in Seq(Tokens)
        BY <2>1, JoinFew
      <3>2. b = <<>> /\ cut = 0
        BY <1>2, <3>1
      <3>3. Join(<< <<>> >>) = <<>>
        BY <3>1, JoinFew
      <3>4. Normalize(<< <<>> >>) = << <<>> >>
        BY <3>1, <3>2, <3>3 DEF Normalize
      <3>5. result = << <<>> >>
        BY <2>1, <3>4 DEF SystemParts
      <3> QED
        BY <2>1, <3>2, <3>3, <3>4, <3>5
    <2>2. CASE system # <<>> /\ cut = 0
      <3>1. b = joined
        BY <1>2, <2>2
      <3>2. Normalize(system) = system
        BY <2>2, <3>1 DEF Normalize
      <3>3. result = system
        BY <2>2, <3>2 DEF SystemParts
      <3> QED
        BY <2>2, <3>1, <3>2, <3>3
    <2>3. CASE system # <<>> /\ cut # 0
      <3>1. Len(b) # Len(joined) /\ cut > 0
        BY <1>1, <1>2, <2>3
      <3>2. Normalize(system) = <<b>>
        BY <3>1 DEF Normalize
      <3>3. result = <<b>>
        BY <2>3, <3>2 DEF SystemParts
      <3>4. Join(<<b>>) = b
        BY <1>2, JoinFew
      <3>5. Normalize(<<b>>) = <<b>>
        BY <1>2, <3>4 DEF Normalize
      <3>6. Len(<<b>>) = 1
        OBVIOUS
      <3> QED
        BY <2>3, <3>3, <3>4, <3>5, <3>6
    <2> QED
      BY <2>1, <2>2, <2>3
  <1>4. PromptKeepsBody
        <=> LET body == Join(result)
                c == Len(joined) - Len(body) IN
            /\ c >= 0
            /\ body = SubSeq(joined, c + 1, Len(joined))
            /\ Wraps(SubSeq(joined, 1, c), body = <<>>)
            /\ \A p \in DOMAIN body : ~Wraps(SubSeq(body, 1, p), p = Len(body))
            /\ c = 0 /\ system # <<>> => result = system
            /\ c > 0 => Len(result) = 1
            /\ Normalize(result) = result
    BY DEF PromptKeepsBody
  <1> HIDE DEF joined, result
  <1> QED
    BY <1>2, <1>3, <1>4

PromptTyped == system \in Seq(Seq(Tokens))

\* Of any system field, however long and however cut into parts, exactly the
\* complete wrappers in front are removed, and a second pass removes nothing.
THEOREM PromptsKeepBody == RequestSpec => []PromptKeepsBody
  <1>1. RequestInit => PromptTyped
    BY DEF RequestInit, PromptInit, PromptTyped
  <1>2. PromptTyped /\ [RequestNext]_requestVars => PromptTyped'
    <2> SUFFICES ASSUME PromptTyped, [RequestNext]_requestVars PROVE PromptTyped'
      OBVIOUS
    <2>1. CASE WriteMessages
      BY <2>1 DEF WriteMessages, PromptTyped
    <2>2. CASE AddPart
      <3>1. <<>> \in Seq(Tokens)
        OBVIOUS
      <3> QED
        BY <2>2, <3>1 DEF AddPart, PromptTyped
    <2>3. ASSUME NEW t \in Tokens, AddToken(t) PROVE PromptTyped'
      <3> DEFINE n == Len(system)
      <3>1. n \in 1 .. Len(system) /\ system[n] \in Seq(Tokens)
        BY <2>3 DEF AddToken, PromptTyped
      <3>2. Append(system[n], t) \in Seq(Tokens)
        BY <3>1
      <3>3. system' = [system EXCEPT ![n] = Append(system[n], t)]
        BY <2>3 DEF AddToken
      <3> HIDE DEF n
      <3> QED
        BY <3>1, <3>2, <3>3 DEF PromptTyped
    <2>4. CASE UNCHANGED requestVars
      BY <2>4 DEF requestVars, PromptTyped
    <2> QED
      BY <2>1, <2>2, <2>3, <2>4 DEF RequestNext, WriteSystem, PromptNext
  <1>3. PromptTyped => PromptKeepsBody
    BY FieldKeepsBody DEF PromptTyped
  <1> QED
    BY <1>1, <1>2, <1>3, PTL DEF RequestSpec
=============================================================================
