--------------------------- MODULE ConsoleProofs ---------------------------
(***************************************************************************)
(* Two promises of the console for any number of logins and sessions: the  *)
(* buttons belong to the call of this session, and no answer shows an      *)
(* account whose login it shows as running.                                *)
(***************************************************************************)
EXTENDS Console, TLAPS

Slots == 0 .. MaxGeneration

ConsoleTypeOK ==
    /\ served \in Logins \cup {None} /\ shown \in Logins \cup {None}
    /\ account \in Nat /\ started \in Nat /\ data \in Nat
    /\ committing \in BOOLEAN /\ unlocked \in BOOLEAN
    /\ busy \in Names \cup {""}
    /\ generation \in 1 .. MaxGeneration
    /\ calls \in [Slots -> Requests \cup {None}]

\* A slot holds calls of its own kind, none of a session to come, and only the
\* session that is not unlocked yet asks to be.
OwnedInv ==
    /\ calls[0] # None => calls[0].name = "poll"
    /\ \A v \in 1 .. MaxGeneration : calls[v] # None =>
           /\ v <= generation
           /\ calls[v].name \in Names
           /\ calls[v].name = "unlock" => v = generation /\ ~unlocked
    /\ BusyIsOwned

\* An account of the newest login means that it commits or has succeeded.
Settled(a) ==
    a # 0 => /\ a <= IdOf(served)
             /\ a = IdOf(served) => committing \/ served.status = "succeeded"

ServerInv ==
    /\ Settled(account)
    /\ IdOf(served) <= started
    /\ committing => /\ served # None /\ served.status = "submitting"
                     /\ account = served.id

\* What a status call has read so far.
Truthful(c) ==
    c # None /\ c.asks = "status" =>
        /\ c.phase = "halfway" => Settled(c.account)
        /\ c.phase = "answered" /\ c.ok /\ c.account # 0 =>
               \/ c.login = Login(c.account, "succeeded")
               \/ IdOf(c.login) > c.account

ConsoleInv ==
    /\ ConsoleTypeOK
    /\ OwnedInv
    /\ ServerInv
    /\ \A v \in Slots : Truthful(calls[v])

-----------------------------------------------------------------------------
(* Helpers. *)

\* The poller has slot 0, each generation of calls one of its own.
LEMMA SlotFacts ==
    0 \in Slots /\ \A v \in 1 .. MaxGeneration : v \in Slots /\ v # 0
  BY ConsoleAssumption DEF Slots, ConsoleAssumption

\* A sign-out opens a generation no call was begun in.
LEMMA NextGeneration ==
    ASSUME NEW g \in 1 .. MaxGeneration, g < MaxGeneration
    PROVE  /\ g + 1 \in 1 .. MaxGeneration /\ g + 1 # g
           /\ \A v \in 1 .. MaxGeneration : v <= g => v <= g + 1 /\ v # g + 1
  BY ConsoleAssumption DEF ConsoleAssumption

\* A login the server answers with.
LEMMA LoginTypes ==
    ASSUME NEW id \in Nat,
           NEW status \in Statuses
    PROVE  /\ Login(id, status) \in Logins
           /\ Login(id, status) # None
           /\ IdOf(Login(id, status)) = id
  BY ConsoleAssumption DEF Login, Logins, IdOf, ConsoleAssumption

\* A call that was just sent.
LEMMA RequestTypes ==
    ASSUME NEW name \in Names \cup {"poll"},
           NEW path \in Paths,
           NEW id \in Nat
    PROVE  /\ Request(name, path, id) \in Requests
           /\ Request(name, path, id).name = name
           /\ Request(name, path, id).phase = "sent"
  BY DEF Request, Requests

\* The poller between two polls.
LEMMA TimerTypes ==
    Timer \in Requests /\ Timer.name = "poll" /\ Timer.phase = "timer"
  BY DEF Timer, Request, Requests, Names, Paths

\* What has been read by no status call is true of any server.
LEMMA NothingRead ==
    ASSUME NEW c \in Requests \cup {None},
           c = None \/ c.phase \in {"timer", "sent"}
    PROVE  Truthful(c) /\ Truthful(c)'
  BY DEF Truthful

\* The polling effect touches the slot of the poller only.
LEMMA EffectChanges ==
    ASSUME NEW c \in [Slots -> Requests \cup {None}]
    PROVE  /\ Effect(c) \in [Slots -> Requests \cup {None}]
           /\ \A u \in Slots \ {0} : Effect(c)[u] = c[u]
           /\ Effect(c)[0] \in {c[0], Timer, None}
  BY SlotFacts, TimerTypes DEF Effect

-----------------------------------------------------------------------------
(* The server. *)

\* The moves of the login and the account.
ServerMoves ==
    \/ UNCHANGED serverVars
    \/ /\ ~committing
       /\ \/ /\ started' = started + 1
             /\ served' = Login(started + 1, "waiting")
             /\ UNCHANGED account
          \/ /\ Active(served)
             /\ \E s \in {"submitting", "cancelled", "failed"} :
                    served' = Login(served.id, s)
             /\ UNCHANGED <<account, started>>
          \/ account' = 0 /\ UNCHANGED <<served, started>>
       /\ UNCHANGED committing
    \/ CommitSaves
    \/ CommitEnds

\* Whatever the server does, a settled account stays settled.
LEMMA ServerKept ==
    ASSUME ConsoleTypeOK, ServerInv, ServerMoves
    PROVE  /\ served' \in Logins \cup {None} /\ account' \in Nat
           /\ started' \in Nat /\ committing' \in BOOLEAN
           /\ ServerInv'
           /\ \A a \in Nat : Settled(a) => Settled(a)'
  <1>t. /\ served \in Logins \cup {None} /\ account \in Nat /\ started \in Nat
        /\ committing \in BOOLEAN
    BY DEF ConsoleTypeOK
  <1>a. \A id \in Nat, s \in Statuses :
            /\ Login(id, s) \in Logins /\ Login(id, s) # None
            /\ Login(id, s).id = id /\ Login(id, s).status = s
    BY LoginTypes DEF Login
  <1>s. \A s \in {"waiting", "submitting", "cancelled", "failed", "succeeded"} :
            s \in Statuses
    BY DEF Statuses
  <1>0. served # None => served.id \in Nat
    BY <1>t DEF Logins
  <1>i. IdOf(served) \in Nat
    BY <1>0 DEF IdOf
  <1> USE <1>t, <1>0, <1>i DEF ServerInv, Settled, IdOf
  <1>1. CASE UNCHANGED serverVars
    BY <1>1 DEF serverVars
  <1>2. CASE /\ ~committing /\ UNCHANGED <<account, committing>>
             /\ started' = started + 1
             /\ served' = Login(started + 1, "waiting")
    <2>1. IdOf(served)' = started + 1 /\ served' \in Logins
      BY <1>a, <1>s, <1>2
    <2> QED
      BY <1>2, <1>i, <2>1
  <1>3. CASE /\ ~committing /\ Active(served)
             /\ \E s \in {"submitting", "cancelled", "failed"} :
                    served' = Login(served.id, s)
             /\ UNCHANGED <<account, started, committing>>
    <2>1. served # None /\ served.status # "succeeded"
      BY <1>3 DEF Active
    <2>2. IdOf(served)' = IdOf(served) /\ served' \in Logins
      BY <1>a, <1>s, <1>3, <2>1
    <2>3. \A a \in Nat : Settled(a) /\ a # 0 => a # IdOf(served)
      BY <1>3, <2>1
    <2> QED
      BY <1>3, <1>i, <2>2, <2>3
  <1>4. CASE ~committing /\ account' = 0 /\ UNCHANGED <<served, started, committing>>
    BY <1>4
  <1>5. CASE CommitSaves
    <2>1. served # None /\ account' = served.id /\ committing' = TRUE
          /\ served.status = "submitting" /\ UNCHANGED <<served, started>>
      BY <1>5 DEF CommitSaves
    <2> QED
      BY <1>0, <2>1
  <1>6. CASE CommitEnds
    <2>1. /\ committing /\ committing' = FALSE
          /\ served' = Login(served.id, "succeeded")
          /\ UNCHANGED <<account, started>>
      BY <1>6 DEF CommitEnds
    <2>2. /\ served' \in Logins /\ IdOf(served)' = IdOf(served)
          /\ served'.status = "succeeded"
      BY <1>a, <1>s, <2>1
    <2> QED
      BY <1>i, <2>1, <2>2
  <1> QED
    BY <1>1, <1>2, <1>3, <1>4, <1>5, <1>6 DEF ServerMoves

\* What an answer under way says does not become false.
LEMMA TruthKept ==
    ASSUME ConsoleTypeOK, ServerInv, ServerMoves,
           NEW c \in Requests \cup {None}, Truthful(c)
    PROVE  Truthful(c)'
  <1>1. c # None => c.account \in Nat
    BY DEF Requests
  <1> QED
    BY <1>1, ServerKept DEF Truthful

\* A step of the server that replaces one call, or none.
LEMMA CallReplaced ==
    ASSUME ConsoleInv, ServerMoves,
           UNCHANGED <<unlocked, shown, data, busy, generation>>,
           NEW v \in Slots, NEW r \in Requests,
           calls[v] # None, r.name = calls[v].name, Truthful(r)',
           calls' = [calls EXCEPT ![v] = r]
    PROVE  ConsoleInv'
  <1>1. ConsoleTypeOK /\ OwnedInv /\ ServerInv
    BY DEF ConsoleInv
  <1>2. ConsoleTypeOK' /\ ServerInv'
    BY <1>1, ServerKept DEF ConsoleTypeOK
  <1>3. r # None
    BY ConsoleAssumption DEF ConsoleAssumption
  <1>4. \A u \in Slots : calls'[u] = IF u = v THEN r ELSE calls[u]
    BY DEF ConsoleInv, ConsoleTypeOK
  <1>5. \A u \in Slots : Truthful(calls[u])'
    <2> TAKE u \in Slots
    <2>1. CASE u = v
      BY <1>4, <2>1
    <2>2. CASE u # v
      BY <1>1, <1>4, <2>2, TruthKept DEF ConsoleInv, ConsoleTypeOK
    <2> QED
      BY <2>1, <2>2
  <1>6. OwnedInv'
    <2>1. generation \in Slots
      BY <1>1, SlotFacts DEF ConsoleTypeOK
    <2>2. BusyIsOwned'
      BY <1>1, <1>3, <1>4, <2>1 DEF OwnedInv, BusyIsOwned
    <2> QED
      BY <1>1, <1>3, <1>4, <2>2, SlotFacts DEF OwnedInv
  <1> QED
    BY <1>2, <1>5, <1>6 DEF ConsoleInv

\* The server answers a call, or the call fails.
LEMMA AnswerKeeps ==
    ASSUME ConsoleInv, NEW v \in Slots, Answer(v) \/ CallFails(v)
    PROVE  ConsoleInv'
  <1> DEFINE c == calls[v]
  <1>1. c \in Requests \cup {None} /\ ConsoleTypeOK /\ ServerInv /\ Truthful(c)
    BY DEF ConsoleInv, ConsoleTypeOK
  <1>l. /\ served \in Logins \cup {None} /\ account \in Nat /\ started \in Nat
        /\ Settled(account)
    BY <1>1 DEF ConsoleTypeOK, ServerInv
  <1>u. calls \in [Slots -> Requests \cup {None}]
    BY <1>1 DEF ConsoleTypeOK
  <1>2. CASE StatusReadsAccount(v)
    <2>0. PICK r : r = [c EXCEPT !.phase = "halfway", !.account = account]
      OBVIOUS
    <2>1. /\ c # None /\ calls' = [calls EXCEPT ![v] = r]
          /\ UNCHANGED <<serverVars, unlocked, shown, data, busy, generation>>
      BY <1>2, <1>u, <2>0 DEF StatusReadsAccount, Waiting
    <2>2. /\ r \in Requests /\ r.name = c.name /\ r.phase = "halfway"
          /\ r.account = account
      BY <1>1, <1>l, <2>0, <2>1 DEF Requests
    <2>3. Settled(r.account)' /\ ServerMoves
      BY <1>l, <2>1, <2>2 DEF ServerMoves, serverVars, Settled, IdOf
    <2>4. Truthful(r)'
      BY <2>2, <2>3 DEF Truthful
    <2> QED
      BY <2>1, <2>2, <2>3, <2>4, CallReplaced
  <1>a. ASSUME NEW ok \in BOOLEAN, NEW login \in Logins \cup {None},
               Answered(v, ok, login), c # None, ServerMoves,
               UNCHANGED <<unlocked, shown, data, busy, generation>>,
               ok /\ c.asks = "status" /\ c.account # 0 =>
                   \/ login = Login(c.account, "succeeded")
                   \/ IdOf(login) > c.account
        PROVE  ConsoleInv'
    <2>0. PICK r : r = [c EXCEPT !.phase = "answered", !.ok = ok, !.login = login]
      OBVIOUS
    <2>1. calls' = [calls EXCEPT ![v] = r]
      BY <1>a, <1>u, <2>0 DEF Answered
    <2>2. /\ r \in Requests /\ r.name = c.name /\ r.phase = "answered"
          /\ r.ok = ok /\ r.login = login /\ r.asks = c.asks
          /\ r.account = c.account
      BY <1>1, <1>a, <2>0 DEF Requests
    <2>3. Truthful(r)'
      BY <1>a, <2>2 DEF Truthful
    <2> QED
      BY <1>a, <2>1, <2>2, <2>3, CallReplaced
  <1>3. CASE StatusAnswers(v)
    <2>1. /\ c # None /\ c.phase = "halfway" /\ ~committing
          /\ Answered(v, TRUE, served)
          /\ UNCHANGED <<serverVars, unlocked, shown, data, busy, generation>>
      BY <1>3 DEF StatusAnswers
    <2>2. ASSUME c.asks = "status", c.account # 0
          PROVE  \/ served = Login(c.account, "succeeded")
                 \/ IdOf(served) > c.account
      <3>1. Settled(c.account) /\ c.account \in Nat
        BY <1>1, <2>1, <2>2 DEF Truthful, Requests
      <3>2. served # None => served = Login(served.id, served.status)
                             /\ served.id \in Nat
        BY <1>l DEF Logins, Login
      <3> QED
        BY <2>1, <2>2, <3>1, <3>2 DEF Settled, IdOf
    <2> QED
      BY <1>a, <1>l, <2>1, <2>2 DEF ServerMoves
  <1>4. CASE OauthAnswers(v)
    BY <1>4, <1>a, <1>l DEF OauthAnswers, Waiting, ServerMoves
  <1>5. CASE StartAnswers(v)
    <2>1. Login(started + 1, "waiting") \in Logins
      BY <1>l, LoginTypes DEF Statuses
    <2>2. /\ c # None /\ c.asks = "start" /\ Answered(v, TRUE, served')
          /\ served' = Login(started + 1, "waiting") /\ ServerMoves
          /\ UNCHANGED <<unlocked, shown, data, busy, generation>>
      BY <1>5 DEF StartAnswers, Waiting, ServerMoves
    <2>3. Answered(v, TRUE, Login(started + 1, "waiting"))
      BY <2>2
    <2> QED
      BY <1>a, <2>1, <2>2, <2>3
  <1>6. CASE SubmitAnswers(v) \/ CancelAnswers(v)
    <2>1. /\ c # None /\ c.asks # "status" /\ Answered(v, TRUE, None)
          /\ UNCHANGED <<unlocked, shown, data, busy, generation>>
      BY <1>6 DEF SubmitAnswers, CancelAnswers, Waiting
    <2>2. ServerMoves
      <3>1. CASE SubmitAnswers(v)
        <4>1. /\ ~committing /\ served = Login(calls[v].id, "waiting")
              /\ served' = Login(calls[v].id, "submitting")
              /\ UNCHANGED <<account, committing, started>>
          BY <3>1 DEF SubmitAnswers
        <4>2. c.id \in Nat
          BY <1>1, <2>1 DEF Requests
        <4>3. served # None /\ served.status = "waiting" /\ served.id = calls[v].id
          BY <4>1, <4>2, LoginTypes DEF Login, Statuses
        <4> QED
          BY <4>1, <4>3 DEF ServerMoves, Active
      <3>2. CASE CancelAnswers(v)
        BY <3>2 DEF CancelAnswers, ServerMoves, serverVars
      <3> QED
        BY <1>6, <3>1, <3>2
    <2> QED
      BY <1>a, <2>1, <2>2
  <1>7. CASE LogoutAnswers(v)
    BY <1>7, <1>a DEF LogoutAnswers, Waiting, ServerMoves
  <1>8. CASE CallFails(v)
    BY <1>8, <1>a DEF CallFails, ServerMoves
  <1> QED
    BY <1>2, <1>3, <1>4, <1>5, <1>6, <1>7, <1>8 DEF Answer

\* The login task of the server moves.
LEMMA LoginTaskKeeps ==
    ASSUME ConsoleInv, LoginTask
    PROVE  ConsoleInv'
  <1>1. ConsoleTypeOK /\ OwnedInv /\ ServerInv
        /\ \A v \in Slots : Truthful(calls[v]) /\ calls[v] \in Requests \cup {None}
    BY DEF ConsoleInv, ConsoleTypeOK
  <1>2. /\ UNCHANGED <<unlocked, shown, data, busy, generation, calls>>
        /\ ServerMoves
    BY DEF LoginTask, CommitSaves, CommitEnds, LoginFails, ServerMoves
  <1>3. ConsoleTypeOK' /\ ServerInv'
    BY <1>1, <1>2, ServerKept DEF ConsoleTypeOK
  <1>4. \A v \in Slots : Truthful(calls[v])'
    BY <1>1, <1>2, TruthKept
  <1>5. OwnedInv'
    BY <1>1, <1>2 DEF OwnedInv, BusyIsOwned
  <1> QED
    BY <1>3, <1>4, <1>5 DEF ConsoleInv

-----------------------------------------------------------------------------
(* The console. *)

\* A step of the console reads nothing at the server.
LEMMA ConsoleReadsNothing ==
    ASSUME ConsoleInv, UNCHANGED serverVars,
           calls' \in [Slots -> Requests \cup {None}],
           \A u \in Slots : \/ calls'[u] = calls[u]
                            \/ calls'[u] = None
                            \/ calls'[u].phase \in {"timer", "sent"}
    PROVE  ServerInv' /\ \A u \in Slots : Truthful(calls[u])'
  <1>1. ConsoleTypeOK /\ ServerInv /\ ServerMoves
    BY DEF ConsoleInv, ServerMoves
  <1>2. ServerInv'
    BY <1>1, ServerKept
  <1>3. ASSUME NEW u \in Slots
        PROVE  Truthful(calls[u])'
    <2>1. PICK c : c = calls'[u]
      OBVIOUS
    <2>2. Truthful(c)'
      <3>1. CASE c = calls[u]
        BY <1>1, <3>1, TruthKept DEF ConsoleInv, ConsoleTypeOK
      <3>2. CASE c = None \/ c.phase \in {"timer", "sent"}
        BY <2>1, <3>2, NothingRead
      <3> QED
        BY <2>1, <3>1, <3>2
    <2> QED
      BY <2>1, <2>2
  <1> QED
    BY <1>2, <1>3

\* The slot of the call and the loop are all that its end changes.
LEMMA DoneKeeps ==
    ASSUME ConsoleInv, NEW v \in Slots \ {0},
           calls' = Done(v) \/ calls' = Effect(Done(v))
    PROVE  /\ calls' \in [Slots -> Requests \cup {None}]
           /\ calls'[v] = None
           /\ \A u \in Slots \ {0, v} : calls'[u] = calls[u]
           /\ calls'[0] \in {calls[0], Timer, None}
  <1>1. /\ Done(v) \in [Slots -> Requests \cup {None}]
        /\ \A u \in Slots : Done(v)[u] = IF u = v THEN None ELSE calls[u]
    BY DEF Done, ConsoleInv, ConsoleTypeOK
  <1> QED
    BY <1>1, EffectChanges, SlotFacts

\* A call that was delivered or dropped leaves its slot.
LEMMA CallEnds ==
    ASSUME ConsoleInv, NEW v \in Slots \ {0}, calls[v] # None,
           calls' = Done(v) \/ calls' = Effect(Done(v)), FreeBusy(v),
           UNCHANGED <<serverVars, unlocked, generation>>,
           shown' \in Logins \cup {None}, data' \in Nat
    PROVE  ConsoleInv'
  <1>1. /\ calls' \in [Slots -> Requests \cup {None}]
        /\ calls'[v] = None
        /\ \A u \in Slots \ {0, v} : calls'[u] = calls[u]
        /\ calls'[0] \in {calls[0], Timer, None}
    BY DoneKeeps
  <1>2. ConsoleTypeOK'
    BY <1>1 DEF ConsoleInv, ConsoleTypeOK, serverVars, FreeBusy
  <1>3. ServerInv' /\ \A u \in Slots : Truthful(calls[u])'
    <2>1. \A u \in Slots : \/ calls'[u] = calls[u]
                           \/ calls'[u] = None
                           \/ calls'[u].phase \in {"timer", "sent"}
      BY <1>1, TimerTypes
    <2> QED
      BY <1>1, <2>1, ConsoleReadsNothing
  <1>4. OwnedInv'
    <2>1. generation \in Slots \ {0} /\ OwnedInv
      BY SlotFacts DEF ConsoleInv, ConsoleTypeOK
    <2>2. BusyIsOwned'
      BY <1>1, <2>1 DEF OwnedInv, BusyIsOwned, FreeBusy
    <2>3. calls'[0] # None => calls'[0].name = "poll"
      BY <1>1, <2>1, TimerTypes DEF OwnedInv
    <2> QED
      BY <1>1, <2>1, <2>2, <2>3, SlotFacts DEF OwnedInv
  <1> QED
    BY <1>2, <1>3, <1>4 DEF ConsoleInv

\* Whose call returns.
LEMMA ReturnsOwn ==
    ASSUME ConsoleInv, NEW v \in Slots, NEW name, NEW ok, Returns(v, name, ok)
    PROVE  /\ calls[v] \in Requests
           /\ name # "poll" => v # 0 /\ v <= generation
           /\ name = "unlock" => v = generation /\ ~unlocked
           /\ name = "poll" => v = 0
  <1>1. v = 0 \/ v \in 1 .. MaxGeneration
    BY ConsoleAssumption DEF Slots, ConsoleAssumption
  <1>2. calls[v] \in Requests /\ calls[v].name = name
    BY DEF Returns, ConsoleInv, ConsoleTypeOK
  <1> QED
    BY <1>1, <1>2 DEF Returns, ConsoleInv, OwnedInv, Names

\* The user or an effect sends a call.
LEMMA BeginKeeps ==
    ASSUME ConsoleInv, NEW name \in Names, NEW path \in Paths, NEW id \in Nat,
           name = "unlock" => ~unlocked, Begin(name, path, id)
    PROVE  ConsoleInv'
  <1>1. PICK r : r = Request(name, path, id)
    OBVIOUS
  <1>2. r \in Requests /\ r.name = name /\ r.phase = "sent" /\ r # None
    BY <1>1, RequestTypes, ConsoleAssumption DEF ConsoleAssumption
  <1>3. /\ generation \in 1 .. MaxGeneration /\ generation \in Slots \ {0}
        /\ ConsoleTypeOK /\ OwnedInv
    BY SlotFacts DEF ConsoleInv, ConsoleTypeOK
  <1>4. /\ calls' = [calls EXCEPT ![generation] = r]
        /\ busy' = name
        /\ UNCHANGED <<serverVars, unlocked, shown, data, generation>>
    BY <1>1 DEF Begin
  <1>5. /\ calls' \in [Slots -> Requests \cup {None}]
        /\ \A u \in Slots : calls'[u] = IF u = generation THEN r ELSE calls[u]
    BY <1>2, <1>3, <1>4 DEF ConsoleTypeOK
  <1>6. ConsoleTypeOK'
    BY <1>3, <1>4, <1>5 DEF ConsoleTypeOK, serverVars
  <1>7. ServerInv' /\ \A u \in Slots : Truthful(calls[u])'
    BY <1>2, <1>4, <1>5, ConsoleReadsNothing
  <1>8. OwnedInv'
    <2>1. BusyIsOwned'
      BY <1>2, <1>3, <1>4, <1>5 DEF BusyIsOwned
    <2> QED
      BY <1>2, <1>3, <1>4, <1>5, <2>1, SlotFacts DEF OwnedInv
  <1> QED
    BY <1>6, <1>7, <1>8 DEF ConsoleInv

\* Every action of the user.
LEMMA UserKeeps ==
    ASSUME ConsoleInv, User
    PROVE  ConsoleInv'
  <1>1. shown # None => shown.id \in Nat
    BY DEF ConsoleInv, ConsoleTypeOK, Logins
  <1>2. CASE Unlock \/ Refresh \/ Start \/ Logout
    BY <1>2, BeginKeeps DEF Unlock, Refresh, Start, Logout, Names, Paths
  <1>3. CASE Submit \/ Cancel
    BY <1>1, <1>3, BeginKeeps DEF Submit, Cancel, Active, Names, Paths
  <1>4. CASE Lock
    <2>1. /\ generation \in 1 .. MaxGeneration /\ generation < MaxGeneration
          /\ generation' = generation + 1 /\ unlocked /\ unlocked' = FALSE
          /\ shown' = None /\ data' = 0 /\ busy' = ""
          /\ calls' = Effect(calls) /\ UNCHANGED serverVars
      BY <1>4 DEF Lock, ConsoleInv, ConsoleTypeOK
    <2>2. /\ ConsoleTypeOK /\ OwnedInv
          /\ calls' \in [Slots -> Requests \cup {None}]
          /\ \A u \in Slots \ {0} : calls'[u] = calls[u]
          /\ calls'[0] \in {calls[0], Timer, None}
      BY <2>1, EffectChanges DEF ConsoleInv, ConsoleTypeOK
    <2>3. /\ generation' \in 1 .. MaxGeneration
          /\ \A v \in 1 .. MaxGeneration :
                 v <= generation => v <= generation' /\ v # generation'
      BY <2>1, NextGeneration
    <2>4. ConsoleTypeOK'
      BY <2>1, <2>2, <2>3 DEF ConsoleTypeOK, serverVars
    <2>5. ServerInv' /\ \A u \in Slots : Truthful(calls[u])'
      <3>1. \A u \in Slots : \/ calls'[u] = calls[u]
                             \/ calls'[u] = None
                             \/ calls'[u].phase \in {"timer", "sent"}
        BY <2>2, TimerTypes
      <3> QED
        BY <2>1, <2>2, <3>1, ConsoleReadsNothing
    <2>6. OwnedInv'
      <3>1. calls'[generation'] = None
        <4>1. calls[generation'] = None
          BY <2>2, <2>3 DEF OwnedInv
        <4> QED
          BY <2>2, <2>3, <4>1, SlotFacts
      <3>2. calls'[0] # None => calls'[0].name = "poll"
        BY <2>2, TimerTypes DEF OwnedInv
      <3>3. \A v \in 1 .. MaxGeneration : calls'[v] # None =>
                v <= generation' /\ calls'[v].name \in Names
                /\ calls'[v].name # "unlock"
        <4> TAKE v \in 1 .. MaxGeneration
        <4>1. calls'[v] = calls[v]
          BY <2>2, SlotFacts
        <4> QED
          BY <2>1, <2>2, <2>3, <4>1 DEF OwnedInv
      <3> QED
        BY <2>1, <3>1, <3>2, <3>3 DEF OwnedInv, BusyIsOwned
    <2> QED
      BY <2>4, <2>5, <2>6 DEF ConsoleInv
  <1> QED
    BY <1>2, <1>3, <1>4 DEF User

\* The answer to the unlock call.
LEMMA UnlockedKeeps ==
    ASSUME ConsoleInv, NEW v \in Slots, Unlocked(v)
    PROVE  ConsoleInv'
  <1>1. /\ v # 0 /\ v = generation /\ calls[v] \in Requests
    BY ReturnsOwn DEF Unlocked
  <1>2. /\ generation \in 1 .. MaxGeneration /\ generation < MaxGeneration
        /\ generation' = generation + 1 /\ unlocked' = TRUE
        /\ shown' \in Logins \cup {None} /\ data' \in Nat /\ busy' = ""
        /\ calls' = Effect(Done(v)) /\ UNCHANGED serverVars
    <2>1. calls[v].login \in Logins \cup {None} /\ calls[v].account \in Nat
      BY <1>1 DEF Requests
    <2> QED
      BY <2>1 DEF Unlocked, ConsoleInv, ConsoleTypeOK
  <1>3. /\ calls' \in [Slots -> Requests \cup {None}]
        /\ calls'[v] = None
        /\ \A u \in Slots \ {0, v} : calls'[u] = calls[u]
        /\ calls'[0] \in {calls[0], Timer, None}
    <2>1. v \in Slots \ {0}
      BY <1>1
    <2> QED
      BY <1>2, <2>1, DoneKeeps
  <1>4. /\ generation' \in 1 .. MaxGeneration
        /\ \A u \in 1 .. MaxGeneration :
               u <= generation => u <= generation' /\ u # generation'
    BY <1>2, NextGeneration
  <1>5. ConsoleTypeOK /\ OwnedInv
    BY DEF ConsoleInv
  <1>6. ConsoleTypeOK'
    BY <1>2, <1>3, <1>4, <1>5 DEF ConsoleTypeOK, serverVars
  <1>7. ServerInv' /\ \A u \in Slots : Truthful(calls[u])'
    <2>1. \A u \in Slots : \/ calls'[u] = calls[u]
                           \/ calls'[u] = None
                           \/ calls'[u].phase \in {"timer", "sent"}
      BY <1>3, TimerTypes
    <2> QED
      BY <1>2, <1>3, <2>1, ConsoleReadsNothing
  <1>8. OwnedInv'
    <2>1. \A u \in 1 .. MaxGeneration : calls'[u] # None =>
              u <= generation /\ calls'[u].name \in Names
              /\ calls'[u].name # "unlock"
      <3> TAKE u \in 1 .. MaxGeneration
      <3>1. u = v \/ calls'[u] = calls[u]
        BY <1>3, SlotFacts
      <3> QED
        BY <1>1, <1>3, <1>5, <3>1 DEF OwnedInv
    <2>2. calls'[generation'] = None
      BY <1>2, <1>4, <2>1
    <2>3. calls'[0] # None => calls'[0].name = "poll"
      BY <1>3, <1>5, TimerTypes DEF OwnedInv
    <2> QED
      BY <1>2, <1>4, <2>1, <2>2, <2>3 DEF OwnedInv, BusyIsOwned
  <1> QED
    BY <1>6, <1>7, <1>8 DEF ConsoleInv

\* logout goes on with a call of its own in the same slot.
LEMMA LoggedOutKeeps ==
    ASSUME ConsoleInv, NEW v \in Slots, LoggedOut(v)
    PROVE  ConsoleInv'
  <1>1. PICK r : r = Request("logout", "status", 0)
    OBVIOUS
  <1>2. r \in Requests /\ r.name = "logout" /\ r.phase = "sent" /\ r # None
    BY <1>1, RequestTypes, ConsoleAssumption DEF ConsoleAssumption, Names, Paths
  <1>3. /\ v # 0 /\ calls[v] # None /\ calls[v].name = "logout"
        /\ calls' = Effect([calls EXCEPT ![v] = r])
        /\ shown' = None
        /\ UNCHANGED <<serverVars, unlocked, data, busy, generation>>
    BY <1>1, ReturnsOwn DEF LoggedOut, Returns
  <1>4. ConsoleTypeOK /\ OwnedInv
    BY DEF ConsoleInv
  <1>5. /\ calls' \in [Slots -> Requests \cup {None}]
        /\ calls'[v] = r
        /\ \A u \in Slots \ {0, v} : calls'[u] = calls[u]
        /\ calls'[0] \in {calls[0], Timer, None}
    <2>1. PICK c : c = [calls EXCEPT ![v] = r]
      OBVIOUS
    <2>2. /\ c \in [Slots -> Requests \cup {None}]
          /\ \A u \in Slots : c[u] = IF u = v THEN r ELSE calls[u]
      BY <1>2, <1>4, <2>1 DEF ConsoleTypeOK
    <2> QED
      BY <1>3, <2>1, <2>2, EffectChanges, SlotFacts
  <1>6. ConsoleTypeOK'
    BY <1>3, <1>4, <1>5 DEF ConsoleTypeOK, serverVars
  <1>7. ServerInv' /\ \A u \in Slots : Truthful(calls[u])'
    <2>1. \A u \in Slots : \/ calls'[u] = calls[u]
                           \/ calls'[u] = None
                           \/ calls'[u].phase \in {"timer", "sent"}
      BY <1>2, <1>5, TimerTypes
    <2> QED
      BY <1>3, <1>5, <2>1, ConsoleReadsNothing
  <1>8. OwnedInv'
    <2>1. generation \in Slots \ {0}
      BY <1>4, SlotFacts DEF ConsoleTypeOK
    <2>2. BusyIsOwned'
      BY <1>2, <1>3, <1>4, <1>5, <2>1 DEF OwnedInv, BusyIsOwned
    <2>3. calls'[0] # None => calls'[0].name = "poll"
      BY <1>4, <1>5, TimerTypes DEF OwnedInv
    <2>4. \A u \in 1 .. MaxGeneration : calls'[u] # None =>
              /\ calls[u] # None /\ calls'[u].name = calls[u].name
      BY <1>2, <1>3, <1>5, SlotFacts
    <2> QED
      BY <1>3, <1>4, <2>2, <2>3, <2>4 DEF OwnedInv
  <1> QED
    BY <1>6, <1>7, <1>8 DEF ConsoleInv

\* Every answer that reaches the page.
LEMMA DeliverKeeps ==
    ASSUME ConsoleInv, NEW v \in Slots, Deliver(v)
    PROVE  ConsoleInv'
  <1>2. shown \in Logins \cup {None} /\ data \in Nat
    BY DEF ConsoleInv, ConsoleTypeOK
  <1>3. CASE Unlocked(v)
    BY <1>3, UnlockedKeeps
  <1>4. CASE LoggedOut(v)
    BY <1>4, LoggedOutKeeps
  <1>5. CASE Refreshed(v)
    <2>1. v # 0 /\ calls[v] \in Requests
      BY <1>5, ReturnsOwn DEF Refreshed, Returns
    <2>2. calls[v].login \in Logins \cup {None} /\ calls[v].account \in Nat
      BY <2>1 DEF Requests
    <2> QED
      BY <1>2, <1>5, <2>1, <2>2, CallEnds DEF Refreshed, Returns
  <1>6. CASE Started(v) \/ Submitted(v) \/ Cancelled(v)
    <2>1. /\ v # 0 /\ calls[v] \in Requests /\ calls[v] # None
      BY <1>6, ReturnsOwn DEF Started, Submitted, Cancelled, Returns
    <2>2. \E login \in Logins \cup {None} : Show(v, login)
      <3>1. calls[v].login \in Logins \cup {None} /\ calls[v].id \in Nat
        BY <2>1 DEF Requests
      <3>2. /\ Login(calls[v].id, "submitting") \in Logins
            /\ Login(calls[v].id, "cancelled") \in Logins
        BY <3>1, LoginTypes DEF Statuses
      <3> QED
        BY <1>6, <3>1, <3>2 DEF Started, Submitted, Cancelled
    <2> QED
      BY <1>2, <2>1, <2>2, CallEnds DEF Show
  <1>7. CASE LogoutShown(v)
    <2>1. v # 0 /\ calls[v] \in Requests
      BY <1>7, ReturnsOwn DEF LogoutShown, Returns
    <2>2. calls[v].account \in Nat
      BY <2>1 DEF Requests
    <2> QED
      BY <1>2, <1>7, <2>1, <2>2, CallEnds DEF LogoutShown, Returns
  <1>8. CASE Failed(v)
    BY <1>2, <1>8, CallEnds DEF Failed, Returns
  <1> QED
    BY <1>3, <1>4, <1>5, <1>6, <1>7, <1>8 DEF Deliver

\* The loop changes its own slot, to a call that has read nothing.
LEMMA PollKeeps ==
    ASSUME ConsoleInv, Poll
    PROVE  ConsoleInv'
  <1>1. ConsoleTypeOK /\ OwnedInv /\ 0 \in Slots
    BY SlotFacts DEF ConsoleInv
  <1>2. PICK asks \in {"oauth", "status"} :
            \E r : /\ r \in {Request("poll", asks, 0), Timer, None}
                   /\ \/ calls' = [calls EXCEPT ![0] = r]
                      \/ calls' = Effect([calls EXCEPT ![0] = r])
    BY DEF Poll, PollSends, Polled, PollEnds, PollFails, Done
  <1>3. PICK r : /\ r \in {Request("poll", asks, 0), Timer, None}
                 /\ \/ calls' = [calls EXCEPT ![0] = r]
                    \/ calls' = Effect([calls EXCEPT ![0] = r])
    BY <1>2
  <1>4. /\ r \in Requests \cup {None}
        /\ r = None \/ (r.name = "poll" /\ r.phase \in {"timer", "sent"})
    BY <1>3, RequestTypes, TimerTypes DEF Paths
  <1>5. PICK c : c = [calls EXCEPT ![0] = r]
    OBVIOUS
  <1>6. /\ c \in [Slots -> Requests \cup {None}]
        /\ c[0] = r /\ \A u \in Slots \ {0} : c[u] = calls[u]
    BY <1>1, <1>4, <1>5 DEF ConsoleTypeOK
  <1>7. /\ calls' \in [Slots -> Requests \cup {None}]
        /\ \A u \in Slots \ {0} : calls'[u] = calls[u]
        /\ calls'[0] \in {r, Timer, None}
    BY <1>3, <1>5, <1>6, EffectChanges
  <1>8. /\ UNCHANGED <<serverVars, unlocked, busy, generation>>
        /\ shown' \in Logins \cup {None} /\ data' \in Nat
    <2>1. /\ shown \in Logins \cup {None} /\ data \in Nat
          /\ calls[0] # None => /\ calls[0].login \in Logins \cup {None}
                                /\ calls[0].account \in Nat
      BY <1>1 DEF ConsoleTypeOK, Requests
    <2> QED
      BY <2>1 DEF Poll, PollSends, Polled, PollEnds, PollFails, Returns
  <1>9. ConsoleTypeOK'
    BY <1>1, <1>7, <1>8 DEF ConsoleTypeOK, serverVars
  <1>10. ServerInv' /\ \A u \in Slots : Truthful(calls[u])'
    <2>1. \A u \in Slots : \/ calls'[u] = calls[u]
                           \/ calls'[u] = None
                           \/ calls'[u].phase \in {"timer", "sent"}
      BY <1>4, <1>7, TimerTypes
    <2> QED
      BY <1>7, <1>8, <2>1, ConsoleReadsNothing
  <1>11. OwnedInv'
    <2>1. generation \in Slots \ {0}
      BY <1>1, SlotFacts DEF ConsoleTypeOK
    <2>2. BusyIsOwned'
      BY <1>1, <1>7, <1>8, <2>1 DEF OwnedInv, BusyIsOwned
    <2>3. calls'[0] # None => calls'[0].name = "poll"
      BY <1>4, <1>7, TimerTypes
    <2> QED
      BY <1>1, <1>7, <1>8, <2>2, <2>3, SlotFacts DEF OwnedInv
  <1> QED
    BY <1>9, <1>10, <1>11 DEF ConsoleInv

-----------------------------------------------------------------------------
(* The inductive invariant. *)

\* The page as it is opened.
LEMMA ConsoleInitially == ConsoleInit => ConsoleInv
  <1> SUFFICES ASSUME ConsoleInit PROVE ConsoleInv
    OBVIOUS
  <1>1. \A v \in Slots : calls[v] = None
    BY DEF ConsoleInit, Slots
  <1>2. 1 \in 1 .. MaxGeneration
    BY ConsoleAssumption DEF ConsoleAssumption
  <1>3. ConsoleTypeOK
    BY <1>2 DEF ConsoleInit, ConsoleTypeOK, Slots
  <1>4. OwnedInv
    BY <1>1, <1>2, SlotFacts DEF ConsoleInit, OwnedInv, BusyIsOwned
  <1>5. ServerInv
    <2>1. IdOf(served) = 0 /\ account = 0 /\ started = 0 /\ committing = FALSE
      BY DEF ConsoleInit, IdOf
    <2> QED
      BY <2>1 DEF ServerInv, Settled
  <1> QED
    BY <1>1, <1>3, <1>4, <1>5 DEF ConsoleInv, Truthful

\* Every step of the page, the network and the server.
LEMMA ConsoleStep == ConsoleInv /\ [ConsoleNext]_consoleVars => ConsoleInv'
  <1> SUFFICES ASSUME ConsoleInv, [ConsoleNext]_consoleVars PROVE ConsoleInv'
    OBVIOUS
  <1>1. CASE \E v \in Slots : Answer(v) \/ CallFails(v) \/ Deliver(v)
    BY <1>1, AnswerKeeps, DeliverKeeps
  <1>2. CASE LoginTask \/ User \/ Poll
    BY <1>2, LoginTaskKeeps, UserKeeps, PollKeeps
  <1>3. CASE UNCHANGED consoleVars
    <2> USE <1>3 DEF consoleVars, serverVars
    <2>1. ConsoleTypeOK' /\ OwnedInv'
      BY DEF ConsoleInv, ConsoleTypeOK, OwnedInv, BusyIsOwned
    <2>2. ServerInv' /\ \A u \in Slots : Truthful(calls[u])'
      BY ConsoleReadsNothing DEF ConsoleInv, ConsoleTypeOK
    <2> QED
      BY <2>1, <2>2 DEF ConsoleInv
  <1> QED
    BY <1>1, <1>2, <1>3 DEF ConsoleNext, Slots

(***************************************************************************)
(* ConsoleInv holds in every state of the console and its server, for any  *)
(* number of logins and sessions.                                          *)
(***************************************************************************)
THEOREM ConsoleInvariant == ConsoleSpec => []ConsoleInv
  BY ConsoleInitially, ConsoleStep, PTL DEF ConsoleSpec

(***************************************************************************)
(* The label on the buttons names the call of this session in flight, and  *)
(* no abandoned call frees it (version in refresh and action of App.tsx).  *)
(***************************************************************************)
THEOREM ButtonsAreOwned == ConsoleSpec => []BusyIsOwned
  <1>1. ConsoleInv => BusyIsOwned
    BY DEF ConsoleInv, OwnedInv
  <1> QED
    BY <1>1, ConsoleInvariant, PTL

(***************************************************************************)
(* No status answer shows an account whose login it shows as running (the  *)
(* order of the two reads in status, admin.rs).                            *)
(***************************************************************************)
THEOREM StatusIsInOrder == ConsoleSpec => []AccountNotAheadOfLogin
  <1>1. ConsoleInv => AccountNotAheadOfLogin
    BY DEF ConsoleInv, ConsoleTypeOK, Truthful, AccountNotAheadOfLogin
  <1> QED
    BY <1>1, ConsoleInvariant, PTL
=============================================================================
