------------------------------ MODULE Console ------------------------------
(***************************************************************************)
(* The web console (src/web/src/App.tsx) against the admin API (admin.rs): *)
(* calls in flight, whose answers are taken at the server at one moment    *)
(* and reach the screen at a later one, the poll loop, locking, and the    *)
(* generation counter that tells calls of a locked session from new ones.  *)
(*                                                                         *)
(* Of the server there is what the console reads: the login, the account   *)
(* in use (named by the login that signed it in, 0 for none), and whether  *)
(* the login task holds the operation mutex over its commit.  Rendering    *)
(* and the texts of errors and notices are left out.                       *)
(***************************************************************************)
EXTENDS Naturals

CONSTANTS
    MaxLogins,     \* bound: logins the server starts
    MaxGeneration, \* bound: times the console is unlocked and locked
    None           \* no login, no call

Statuses == {"waiting", "submitting", "cancelled", "failed", "succeeded"}

Logins == [id : Nat, status : Statuses]

\* name is what busy says of the call, asks the path, id the login it names.
\* phase: "timer" (of a loop), "sent", "halfway" (a status with its account
\* read), "answered".
Names == {"unlock", "refresh", "start", "code", "cancel", "logout"}
Paths == {"status", "oauth", "start", "submit", "cancel", "logout"}

Requests ==
    [name : Names \cup {"poll"}, asks : Paths, id : Nat,
     phase : {"timer", "sent", "halfway", "answered"}, ok : BOOLEAN,
     login : Logins \cup {None}, account : Nat]

ASSUME ConsoleAssumption ==
    /\ MaxLogins \in Nat /\ MaxGeneration \in Nat \ {0}
    /\ None \notin Logins /\ None \notin Requests

VARIABLES
    served,     \* AdminState.operation: the login, or None
    account,    \* the account in the database
    committing, \* the login task holds the operation mutex
    started,    \* logins so far
    unlocked,   \* a token is entered: token of App.tsx
    shown,      \* login
    data,       \* the account in data
    busy,       \* busy
    generation, \* generation
    calls       \* calls in flight: by the generation, 0 for the poll loop

serverVars  == <<served, account, committing, started>>
consoleVars == <<serverVars, unlocked, shown, data, busy, generation, calls>>

Active(login) == login # None /\ login.status \in {"waiting", "submitting"}

Login(id, status) == [id |-> id, status |-> status]

IdOf(login) == IF login = None THEN 0 ELSE login.id

Request(name, path, id) ==
    [name |-> name, asks |-> path, id |-> id, phase |-> "sent", ok |-> TRUE,
     login |-> None, account |-> 0]

Timer == [Request("poll", "oauth", 0) EXCEPT !.phase = "timer"]

ConsoleInit ==
    /\ served = None /\ account = 0 /\ committing = FALSE /\ started = 0
    /\ unlocked = FALSE /\ shown = None /\ data = 0 /\ busy = ""
    /\ generation = 1
    /\ calls = [v \in 0 .. MaxGeneration |-> None]

\* The effect with the dependencies [token, login?.id], after a render: when
\* one of them changes the old loop is stopped, and nothing it still hears
\* counts; a new one starts if there is something to follow.
Effect(c) ==
    IF unlocked' = unlocked /\ IdOf(shown') = IdOf(shown) THEN c
    ELSE [c EXCEPT ![0] = IF unlocked' /\ Active(shown') THEN Timer ELSE None]

\* The finally of refresh and action: only the session that began the call.
FreeBusy(v) == busy' = IF v = generation THEN "" ELSE busy

-----------------------------------------------------------------------------
(* The server. *)

Waiting(v, path) ==
    /\ calls[v] # None
    /\ calls[v].phase = "sent"
    /\ calls[v].asks = path

Answered(v, ok, login) ==
    calls' = [calls EXCEPT ![v].phase = "answered", ![v].ok = ok,
                           ![v].login = login]

\* status: the account without the mutex, then the login under it.
StatusReadsAccount(v) ==
    /\ Waiting(v, "status")
    /\ calls' = [calls EXCEPT ![v].phase = "halfway", ![v].account = account]
    /\ UNCHANGED <<serverVars, unlocked, shown, data, busy, generation>>

\* Mutant: the login is read without the mutex too.
StatusAnswersUnlocked(v) ==
    /\ calls[v] # None
    /\ calls[v].phase = "halfway"
    /\ Answered(v, TRUE, served)
    /\ UNCHANGED <<serverVars, unlocked, shown, data, busy, generation>>

StatusAnswers(v) ==
    /\ calls[v] # None
    /\ calls[v].phase = "halfway"
    /\ ~committing
    /\ Answered(v, TRUE, served)
    /\ UNCHANGED <<serverVars, unlocked, shown, data, busy, generation>>

\* login_status
OauthAnswers(v) ==
    /\ Waiting(v, "oauth")
    /\ ~committing
    /\ Answered(v, TRUE, served)
    /\ UNCHANGED <<serverVars, unlocked, shown, data, busy, generation>>

StartAnswers(v) ==
    /\ Waiting(v, "start")
    /\ ~committing
    /\ ~Active(served)
    /\ started < MaxLogins
    /\ started' = started + 1
    /\ served' = Login(started', "waiting")
    /\ Answered(v, TRUE, served')
    /\ UNCHANGED <<account, committing, unlocked, shown, data, busy, generation>>

SubmitAnswers(v) ==
    /\ Waiting(v, "submit")
    /\ ~committing
    /\ served = Login(calls[v].id, "waiting")
    /\ served' = Login(calls[v].id, "submitting")
    /\ Answered(v, TRUE, None)
    /\ UNCHANGED <<account, committing, started, unlocked, shown, data, busy,
                   generation>>

CancelAnswers(v) ==
    /\ Waiting(v, "cancel")
    /\ ~committing
    /\ IdOf(served) = calls[v].id
    /\ served' = IF Active(served) THEN Login(served.id, "cancelled") ELSE served
    /\ Answered(v, TRUE, None)
    /\ UNCHANGED <<account, committing, started, unlocked, shown, data, busy,
                   generation>>

LogoutAnswers(v) ==
    /\ Waiting(v, "logout")
    /\ ~committing
    /\ ~Active(served)
    /\ account' = 0
    /\ Answered(v, TRUE, None)
    /\ UNCHANGED <<served, committing, started, unlocked, shown, data, busy,
                   generation>>

\* The server refuses, or the call fails or takes more than its 20 seconds; a
\* call that was served by then has had its effect.
CallFails(v) ==
    /\ calls[v] # None
    /\ calls[v].phase # "timer"
    /\ calls[v].ok
    /\ Answered(v, FALSE, None)
    /\ UNCHANGED <<serverVars, unlocked, shown, data, busy, generation>>

\* The login task: the commit under the mutex, then the status.
CommitSaves ==
    /\ ~committing
    /\ served # None /\ served.status = "submitting"
    /\ committing' = TRUE
    /\ account' = served.id
    /\ UNCHANGED <<served, started, unlocked, shown, data, busy, generation,
                   calls>>

CommitEnds ==
    /\ committing
    /\ committing' = FALSE
    /\ served' = Login(served.id, "succeeded")
    /\ UNCHANGED <<account, started, unlocked, shown, data, busy, generation,
                   calls>>

LoginFails ==
    /\ ~committing
    /\ Active(served)
    /\ served' = Login(served.id, "failed")
    /\ UNCHANGED <<account, committing, started, unlocked, shown, data, busy,
                   generation, calls>>

-----------------------------------------------------------------------------
(* The console: what its user does. *)

Begin(name, path, id) ==
    /\ busy = ""
    /\ busy' = name
    /\ calls' = [calls EXCEPT ![generation] = Request(name, path, id)]
    /\ UNCHANGED <<serverVars, unlocked, shown, data, generation>>

Unlock == ~unlocked /\ Begin("unlock", "status", 0)

Refresh == unlocked /\ Begin("refresh", "status", 0)

Start == unlocked /\ ~Active(shown) /\ Begin("start", "start", 0)

Submit ==
    /\ unlocked
    /\ shown # None /\ shown.status = "waiting"
    /\ Begin("code", "submit", shown.id)

Cancel == unlocked /\ Active(shown) /\ Begin("cancel", "cancel", shown.id)

Logout == unlocked /\ data # 0 /\ Begin("logout", "logout", 0)

\* Mutant: a locked session keeps its generation.
LockSameGeneration ==
    /\ unlocked
    /\ unlocked' = FALSE
    /\ shown' = None /\ data' = 0 /\ busy' = ""
    /\ calls' = Effect(calls)
    /\ UNCHANGED <<serverVars, generation>>

Lock ==
    /\ unlocked
    /\ generation < MaxGeneration
    /\ generation' = generation + 1
    /\ unlocked' = FALSE
    /\ shown' = None /\ data' = 0 /\ busy' = ""
    /\ calls' = Effect(calls)
    /\ UNCHANGED serverVars

-----------------------------------------------------------------------------
(* The console: what it makes of an answer. *)

Returns(v, name, ok) ==
    /\ calls[v] # None
    /\ calls[v].phase = "answered"
    /\ calls[v].name = name
    /\ calls[v].ok = ok

Done(v) == [calls EXCEPT ![v] = None]

Unlocked(v) ==
    /\ Returns(v, "unlock", TRUE)
    /\ generation < MaxGeneration
    /\ generation' = generation + 1
    /\ unlocked' = TRUE
    /\ shown' = calls[v].login
    /\ data' = calls[v].account
    /\ busy' = ""
    /\ calls' = Effect(Done(v))
    /\ UNCHANGED serverVars

Refreshed(v) ==
    /\ Returns(v, "refresh", TRUE)
    /\ IF v = generation
       THEN shown' = calls[v].login /\ data' = calls[v].account
       ELSE UNCHANGED <<shown, data>>
    /\ FreeBusy(v)
    /\ UNCHANGED <<serverVars, unlocked, generation>>
    /\ calls' = Effect(Done(v))

\* The rest of the calls is shown whatever session they come from.
Show(v, login) ==
    /\ shown' = login
    /\ FreeBusy(v)
    /\ UNCHANGED <<serverVars, unlocked, data, generation>>
    /\ calls' = Effect(Done(v))

Started(v) == Returns(v, "start", TRUE) /\ Show(v, calls[v].login)

Submitted(v) ==
    /\ Returns(v, "code", TRUE)
    /\ Show(v, Login(calls[v].id, "submitting"))

Cancelled(v) ==
    /\ Returns(v, "cancel", TRUE)
    /\ Show(v, Login(calls[v].id, "cancelled"))

\* logout goes on with a status of its own.
LoggedOut(v) ==
    /\ Returns(v, "logout", TRUE)
    /\ calls[v].asks = "logout"
    /\ shown' = None
    /\ UNCHANGED <<serverVars, unlocked, data, busy, generation>>
    /\ calls' = Effect([calls EXCEPT ![v] = Request("logout", "status", 0)])

LogoutShown(v) ==
    /\ Returns(v, "logout", TRUE)
    /\ calls[v].asks = "status"
    /\ data' = calls[v].account
    /\ FreeBusy(v)
    /\ calls' = Done(v)
    /\ UNCHANGED <<serverVars, unlocked, shown, generation>>

Failed(v) ==
    /\ v # 0
    /\ \E name \in Names :
           Returns(v, name, FALSE)
    /\ FreeBusy(v)
    /\ calls' = Done(v)
    /\ UNCHANGED <<serverVars, unlocked, shown, data, generation>>

-----------------------------------------------------------------------------
(* The poll loop. *)

PollSends ==
    /\ calls[0] # None
    /\ calls[0].phase = "timer"
    /\ calls' = [calls EXCEPT ![0] = Request("poll", "oauth", 0)]
    /\ UNCHANGED <<serverVars, unlocked, shown, data, busy, generation>>

Polled ==
    /\ Returns(0, "poll", TRUE)
    /\ calls[0].asks = "oauth"
    /\ shown' = calls[0].login
    /\ UNCHANGED <<serverVars, unlocked, data, busy, generation>>
    /\ calls' = Effect([calls EXCEPT ![0] =
                    IF Active(calls[0].login) THEN Timer
                                              ELSE Request("poll", "status", 0)])

\* The loop ends with the account that the login left.
PollEnds ==
    /\ Returns(0, "poll", TRUE)
    /\ calls[0].asks = "status"
    /\ data' = calls[0].account
    /\ calls' = Done(0)
    /\ UNCHANGED <<serverVars, unlocked, shown, busy, generation>>

\* Mutant: an error ends the loop.
PollFailsForGood ==
    /\ Returns(0, "poll", FALSE)
    /\ calls' = Done(0)
    /\ UNCHANGED <<serverVars, unlocked, shown, data, busy, generation>>

PollFails ==
    /\ Returns(0, "poll", FALSE)
    /\ calls' = [calls EXCEPT ![0] = Timer]
    /\ UNCHANGED <<serverVars, unlocked, shown, data, busy, generation>>

-----------------------------------------------------------------------------
Answer(v) ==
    \/ StatusReadsAccount(v) \/ StatusAnswers(v) \/ OauthAnswers(v)
    \/ StartAnswers(v) \/ SubmitAnswers(v) \/ CancelAnswers(v)
    \/ LogoutAnswers(v)

LoginTask == CommitSaves \/ CommitEnds \/ LoginFails

User == Unlock \/ Refresh \/ Start \/ Submit \/ Cancel \/ Logout \/ Lock

Deliver(v) ==
    \/ Unlocked(v) \/ Refreshed(v) \/ Started(v) \/ Submitted(v)
    \/ Cancelled(v) \/ LoggedOut(v) \/ LogoutShown(v) \/ Failed(v)

Poll == PollSends \/ Polled \/ PollEnds \/ PollFails

ConsoleNext ==
    \/ \E v \in 0 .. MaxGeneration : Answer(v) \/ CallFails(v) \/ Deliver(v)
    \/ LoginTask \/ User \/ Poll

ConsoleSpec == ConsoleInit /\ [][ConsoleNext]_consoleVars

(***************************************************************************)
(* Fairness: timers fire, the server answers a poll that keeps asking, and *)
(* the commit, which does not wait for a CLI, ends.  Nothing is assumed of *)
(* the user and of the other calls.                                        *)
(***************************************************************************)
ConsoleFairSpec ==
    /\ ConsoleSpec
    /\ WF_consoleVars(PollSends)
    /\ WF_consoleVars(PollFails)
    /\ WF_consoleVars(CommitEnds)
    /\ SF_consoleVars(OauthAnswers(0))
    /\ SF_consoleVars(Polled)

-----------------------------------------------------------------------------
(***************************************************************************)
(* The buttons are disabled exactly while a call of this session is in     *)
(* flight, and the label names it: the end of a call that a lock abandoned *)
(* does not enable them under a call of the next session (the version of   *)
(* refresh and action in App.tsx).                                         *)
(***************************************************************************)
BusyIsOwned ==
    busy = IF calls[generation] = None THEN "" ELSE calls[generation].name

(***************************************************************************)
(* A status answer never shows the account of a login that it shows as     *)
(* still running: the two are read at different moments, but the account   *)
(* first, and the login under the mutex that the commit holds (status of   *)
(* admin.rs).                                                              *)
(***************************************************************************)
AccountNotAheadOfLogin ==
    \A v \in DOMAIN calls :
        LET c == calls[v] IN
        c # None /\ c.asks = "status" /\ c.phase = "answered" /\ c.ok
            /\ c.account # 0
        => \/ c.login = Login(c.account, "succeeded")
           \/ IdOf(c.login) > c.account

(***************************************************************************)
(* While a loop polls, the end of the login reaches the screen, though     *)
(* polls fail now and then (the loop re-arms its timer after an error) and *)
(* other calls start and stop loops meanwhile.                             *)
(***************************************************************************)
EndReachesScreen ==
    calls[0] # None /\ calls[0].asks = "oauth"
        ~> Active(served) \/ ~Active(shown)

(***************************************************************************)
(* "Poll follows the login id; transitions are delivered by this same      *)
(* loop" (App.tsx): an active login on the screen has a loop that follows  *)
(* it.                                                                     *)
(***************************************************************************)
ActiveLoginIsFollowed == unlocked /\ Active(shown) => calls[0] # None
=============================================================================
