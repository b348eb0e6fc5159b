-------------------------- MODULE AccountLifecycle --------------------------
(***************************************************************************)
(* The life of the one service account of a bridge process: sign-in and    *)
(* sign-out from the console (admin.rs), the working copy of the           *)
(* credentials that CLI processes share (oauth.rs), the admission of model *)
(* requests and the task of each (lib.rs, rpc.rs), restart, graceful exit  *)
(* and crash (main.rs).  The database underneath is CredentialStore.       *)
(*                                                                         *)
(* Three things are shared by handlers and background tasks:               *)
(*   - a semaphore of N permits: a model request takes one, a sign-in or   *)
(*     a sign-out takes all N;                                             *)
(*   - the mutex AdminState.operation, held over awaits by start_login,    *)
(*     logout and the commit of a login task;                              *)
(*   - the mutex OAuthClient.cache over the slot that names the working    *)
(*     copy in use.                                                        *)
(* A handler that only takes the operation mutex and awaits nothing under  *)
(* it is one step.  The bridge runs with a credential database configured. *)
(***************************************************************************)
EXTENDS CredentialStore, FiniteSets

CONSTANTS
    Requests,  \* model requests in flight at the same time
    Logins,    \* login sessions (Uuid of start_login); bound on their number
    Admins,    \* console calls in flight at the same time
    Restored,  \* the working copy rebuilt from the database
    N          \* config.concurrency, the number of permits

\* A login authenticates inside a working copy of its own, named like it.
Caches == Logins \cup {Restored}

ASSUME LifecycleAssumption ==
    /\ IsFiniteSet(Requests)
    /\ N \in Nat \ {0}
    /\ None \notin Requests \cup Caches \cup Admins
    /\ Restored \notin Logins
    /\ Admins \cap Logins = {}
    /\ \A c \in LegacyRecords : c.token = 0

VARIABLES
    slot,      \* OAuthClient.cache: the working copy in use, or None
    files,     \* what the CLI wrote in each working copy
    clock,     \* the number of tokens the CLI has obtained so far
    permits,   \* free permits of AppState.permits
    shutdown,  \* AppState.shutdown is cancelled
    opLock,    \* owner of the mutex AdminState.operation
    opId,      \* login the operation record describes
    opStatus,  \* LoginView.status of that record
    adm,       \* console calls in progress
    task,      \* the spawned task of each login
    result,    \* how the task's select ended
    cancel,    \* logins whose own cancel token was triggered
    input,     \* logins with a code waiting in their channel
    acked,     \* logins some DELETE was answered "cancelled" for
    committed, \* logins whose credential was saved (history)
    req,       \* the spawned rpc task of each request
    held,      \* the working copy the task obtained
    conn,      \* requests whose HTTP handler or SSE body still exists
    cacheLock, \* owner of the mutex OAuthClient.cache between two steps
    captured,  \* what the owner of cacheLock read from the working copy
    unsaved    \* the last sync of the slot failed

opVars    == <<opLock, opId, opStatus>>
loginVars == <<task, result, cancel, input, acked, committed>>
reqVars   == <<req, held, conn>>
syncVars  == <<cacheLock, captured, unsaved>>
copyVars  == <<slot, files, clock>>
vars == <<storeVars, copyVars, permits, shutdown, opVars, adm, loginVars,
          reqVars, syncVars>>

-----------------------------------------------------------------------------
AdminStates == {"idle", "startQueued", "authorizing", "loggingOut"}
Working     == {"waitCode", "callback", "wantLock", "holdLock"}
TaskStates  == {"none", "closing", "done"} \cup Working
Outcomes    == {"succeeded", "failed", "cancelled", "expired"}
CliAlive    == {"launching", "serving", "completed"}
Ending      == {"endingOk", "endingErr"}
ReqStates   == {"idle", "spawned", "reporting"} \cup CliAlive \cup Ending

TypeOK ==
    /\ StoreTypeOK
    /\ slot \in Caches \cup {None}
    /\ files \in [Caches -> Credentials \cup {None}]
    /\ clock \in 0 .. MaxToken
    /\ permits \in 0 .. N
    /\ shutdown \in BOOLEAN
    /\ opLock \in Admins \cup Logins \cup {None}
    /\ opId \in Logins \cup {None}
    /\ opStatus \in {"none", "waiting", "submitting"} \cup Outcomes
    /\ adm \in [Admins -> AdminStates]
    /\ task \in [Logins -> TaskStates]
    /\ result \in [Logins -> {"none"} \cup Outcomes]
    /\ cancel \subseteq Logins
    /\ input \subseteq Logins
    /\ acked \subseteq Logins
    /\ committed \subseteq Logins
    /\ req \in [Requests -> ReqStates]
    /\ held \in [Requests -> Caches \cup {None}]
    /\ conn \subseteq Requests
    /\ cacheLock \in Requests \cup {None}
    /\ captured \in Credentials \cup {None}
    /\ unsaved \in BOOLEAN

LifecycleInit ==
    /\ StoreInit
    /\ slot = None
    /\ files = [k \in Caches |-> None]
    /\ clock = 0
    /\ permits = N
    /\ shutdown = FALSE
    /\ opLock = None
    /\ opId = None
    /\ opStatus = "none"
    /\ adm = [a \in Admins |-> "idle"]
    /\ task = [l \in Logins |-> "none"]
    /\ result = [l \in Logins |-> "none"]
    /\ cancel = {}
    /\ input = {}
    /\ acked = {}
    /\ committed = {}
    /\ req = [r \in Requests |-> "idle"]
    /\ held = [r \in Requests |-> None]
    /\ conn = {}
    /\ cacheLock = None
    /\ captured = None
    /\ unsaved = FALSE

OpActive == opStatus \in {"waiting", "submitting"}

Running(l) == task[l] \in Working \cup {"closing"}

\* A working copy is a temporary directory: it is deleted with the last
\* reference to it (Arc<CredentialCache>), from the slot, a request or a login.
DeleteUnused(f) ==
    [k \in Caches |->
        IF \/ k = slot'
           \/ \E r \in Requests : held[r] = k
           \/ k \in Logins /\ task'[k] \in Working \cup {"closing"}
        THEN f[k] ELSE None]

\* Login and request tokens are children of the shutdown token.
LoginCancelRequested(l) == l \in cancel \/ shutdown
RequestCancelled(r) == r \notin conn \/ shutdown

-----------------------------------------------------------------------------
(* Console: start a login, submit the code, cancel, sign out. *)

\* start_login up to the operation mutex: shutdown is checked before waiting.
StartQueue(a) ==
    /\ opened
    /\ adm[a] = "idle"
    /\ ~shutdown
    /\ adm' = [adm EXCEPT ![a] = "startQueued"]
    /\ UNCHANGED <<storeVars, copyVars, permits, shutdown, opVars, loginVars,
                   reqVars, syncVars>>

\* 409: a login is active, or some permit is in use.
StartRefused(a) ==
    /\ adm[a] = "startQueued"
    /\ opLock = None
    /\ OpActive \/ permits # N
    /\ adm' = [adm EXCEPT ![a] = "idle"]
    /\ UNCHANGED <<storeVars, copyVars, permits, shutdown, opVars, loginVars,
                   reqVars, syncVars>>

\* Mutant: a login takes one permit, like a request.
StartAuthorizeOnePermit(a) ==
    /\ adm[a] = "startQueued"
    /\ opLock = None
    /\ ~OpActive
    /\ permits > 0
    /\ permits' = permits - 1
    /\ opLock' = a
    /\ adm' = [adm EXCEPT ![a] = "authorizing"]
    /\ UNCHANGED <<storeVars, copyVars, shutdown, opId, opStatus, loginVars,
                   reqVars, syncVars>>

\* All permits or none: model requests are paused while a login goes on.
StartAuthorize(a) ==
    /\ adm[a] = "startQueued"
    /\ opLock = None
    /\ ~OpActive
    /\ permits = N
    /\ permits' = 0
    /\ opLock' = a
    /\ adm' = [adm EXCEPT ![a] = "authorizing"]
    /\ UNCHANGED <<storeVars, copyVars, shutdown, opId, opStatus, loginVars,
                   reqVars, syncVars>>

\* The caller went away while the handler waited for the mutex.
StartDropped(a) ==
    /\ adm[a] = "startQueued"
    /\ adm' = [adm EXCEPT ![a] = "idle"]
    /\ UNCHANGED <<storeVars, copyVars, permits, shutdown, opVars, loginVars,
                   reqVars, syncVars>>

\* The CLI refused or timed out, or the caller went away: the permits and
\* the mutex go with the handler.
AuthorizeFails(a) ==
    /\ adm[a] = "authorizing"
    /\ permits' = permits + N
    /\ opLock' = None
    /\ adm' = [adm EXCEPT ![a] = "idle"]
    /\ UNCHANGED <<storeVars, copyVars, shutdown, opId, opStatus, loginVars,
                   reqVars, syncVars>>

\* Mutant: the permits are not moved into the spawned task.
AuthorizeOkReleases(a, l) ==
    /\ adm[a] = "authorizing"
    /\ task[l] = "none"
    /\ opId' = l
    /\ opStatus' = "waiting"
    /\ opLock' = None
    /\ adm' = [adm EXCEPT ![a] = "idle"]
    /\ task' = [task EXCEPT ![l] = "waitCode"]
    /\ permits' = N
    /\ UNCHANGED <<storeVars, copyVars, shutdown, result, cancel, acked,
                   committed, input, reqVars, syncVars>>

\* The new operation record; the permits move to the spawned task.  What was
\* known of logins that are over goes with the record it replaces.
AuthorizeOk(a, l) ==
    LET ongoing == {k \in Logins : Running(k)} IN
    /\ adm[a] = "authorizing"
    /\ task[l] = "none"
    /\ opId' = l
    /\ opStatus' = "waiting"
    /\ opLock' = None
    /\ adm' = [adm EXCEPT ![a] = "idle"]
    /\ task' = [task EXCEPT ![l] = "waitCode"]
    /\ result' = [k \in Logins |-> IF k \in ongoing THEN result[k] ELSE "none"]
    /\ cancel' = cancel \cap ongoing
    /\ acked' = acked \cap ongoing
    /\ committed' = committed \cap ongoing
    /\ UNCHANGED <<storeVars, copyVars, permits, shutdown, input, reqVars,
                   syncVars>>

SubmitCode(l) ==
    /\ opId = l
    /\ opLock = None
    /\ opStatus = "waiting"
    /\ l \notin input
    /\ input' = input \cup {l}
    /\ opStatus' = "submitting"
    /\ UNCHANGED <<storeVars, copyVars, permits, shutdown, opLock, opId, adm,
                   task, result, cancel, acked, committed, reqVars, syncVars>>

\* Mutant: a DELETE rewrites the status of a login that is over.
CancelLoginAlways(l) ==
    /\ opId = l
    /\ opLock = None
    /\ acked' = acked \cup {l}
    /\ cancel' = IF OpActive THEN cancel \cup {l} ELSE cancel
    /\ opStatus' = "cancelled"
    /\ UNCHANGED <<storeVars, copyVars, permits, shutdown, opLock, opId, adm,
                   task, result, input, committed, reqVars, syncVars>>

\* DELETE answers {"cancelled":true} whether or not there was something left
\* to cancel.
CancelLogin(l) ==
    /\ opId = l
    /\ opLock = None
    /\ acked' = acked \cup {l}
    /\ cancel' = IF OpActive THEN cancel \cup {l} ELSE cancel
    /\ opStatus' = IF OpActive THEN "cancelled" ELSE opStatus
    /\ UNCHANGED <<storeVars, copyVars, permits, shutdown, opLock, opId, adm,
                   task, result, input, committed, reqVars, syncVars>>

LogoutBegin(a) ==
    /\ opened
    /\ adm[a] = "idle"
    /\ opLock = None
    /\ ~OpActive
    /\ permits = N
    /\ permits' = 0
    /\ opLock' = a
    /\ adm' = [adm EXCEPT ![a] = "loggingOut"]
    /\ UNCHANGED <<storeVars, copyVars, shutdown, opId, opStatus, loginVars,
                   reqVars, syncVars>>

LogoutEnds(a) ==
    /\ adm[a] = "loggingOut"
    /\ permits' = permits + N
    /\ opLock' = None
    /\ adm' = [adm EXCEPT ![a] = "idle"]
    /\ UNCHANGED <<clock, shutdown, opId, opStatus, loginVars, reqVars,
                   cacheLock, captured>>

LogoutFinish(a) ==
    /\ LogoutEnds(a)
    /\ cacheLock = None
    /\ Clear
    /\ slot' = None
    /\ files' = DeleteUnused(files)
    /\ unsaved' = FALSE

\* The database refused the transaction, or the caller went away.
LogoutFails(a) ==
    /\ LogoutEnds(a)
    /\ UNCHANGED <<storeVars, slot, files, unsaved>>

-----------------------------------------------------------------------------
(* The spawned task of a login.  Its select is biased towards the cancel   *)
(* token, but a poll that began before the token was triggered goes on, so *)
(* every step of the work may still happen after a cancellation; only the  *)
(* check under the operation mutex stops it.                               *)

ReceiveCode(l) ==
    /\ task[l] = "waitCode"
    /\ l \in input
    /\ input' = input \ {l}
    /\ task' = [task EXCEPT ![l] = "callback"]
    /\ UNCHANGED <<storeVars, copyVars, permits, shutdown, opVars, adm, result,
                   cancel, acked, committed, reqVars, syncVars>>

\* The CLI exchanged the code and wrote the credential of some account.
CallbackOk(l, c) ==
    /\ task[l] = "callback"
    /\ c.id # None
    /\ clock < MaxToken
    /\ c.token = clock + 1
    /\ clock' = clock + 1
    /\ files' = [files EXCEPT ![l] = c]
    /\ task' = [task EXCEPT ![l] = "wantLock"]
    /\ UNCHANGED <<storeVars, slot, permits, shutdown, opVars, adm, result,
                   cancel, input, acked, committed, reqVars, syncVars>>

\* Mutant: the guard of the operation mutex outlives the commit.
TaskEndsLocked(l, o) ==
    /\ task' = [task EXCEPT ![l] = "closing"]
    /\ result' = [result EXCEPT ![l] = o]
    /\ UNCHANGED <<permits, shutdown, opId, adm, cancel, input, acked, reqVars,
                   cacheLock, captured, clock, opLock>>

\* The end of the select in the login task, with outcome o.
TaskEnds(l, o) ==
    /\ task' = [task EXCEPT ![l] = "closing"]
    /\ result' = [result EXCEPT ![l] = o]
    /\ opLock' = IF opLock = l THEN None ELSE opLock
    /\ UNCHANGED <<permits, shutdown, opId, adm, cancel, input, acked, reqVars,
                   cacheLock, captured, clock>>

LoginUnchanged ==
    UNCHANGED <<storeVars, slot, files, opStatus, committed, unsaved>>

\* The CLI refused the code, or its credential names no account.
CallbackFails(l) ==
    /\ task[l] = "callback"
    /\ TaskEnds(l, "failed")
    /\ LoginUnchanged

\* Mutant: the cancellation is not looked at again under the mutex.
TakeLockUnchecked(l) ==
    /\ task[l] = "wantLock"
    /\ opLock = None
    /\ opLock' = l
    /\ task' = [task EXCEPT ![l] = "holdLock"]
    /\ UNCHANGED <<storeVars, copyVars, permits, shutdown, opId, opStatus, adm,
                   result, cancel, input, acked, committed, reqVars, syncVars>>

TakeLock(l) ==
    /\ task[l] = "wantLock"
    /\ opLock = None
    /\ ~LoginCancelRequested(l)
    /\ opLock' = l
    /\ task' = [task EXCEPT ![l] = "holdLock"]
    /\ UNCHANGED <<storeVars, copyVars, permits, shutdown, opId, opStatus, adm,
                   result, cancel, input, acked, committed, reqVars, syncVars>>

\* The check made once the mutex is held: the login was cancelled meanwhile.
CommitForbidden(l) ==
    /\ task[l] = "wantLock"
    /\ opLock = None
    /\ LoginCancelRequested(l)
    /\ TaskEnds(l, "failed")
    /\ LoginUnchanged

\* What a commit does besides writing the database: the login's own working
\* copy replaces the one in use, and the operation record is updated under the
\* same mutex.
CommitEffects(l) ==
    /\ task[l] = "holdLock"
    /\ cacheLock = None
    /\ slot' = l
    /\ unsaved' = FALSE
    /\ committed' = committed \cup {l}
    /\ opStatus' = IF opId = l THEN "succeeded" ELSE opStatus
    /\ TaskEnds(l, "succeeded")
    /\ files' = DeleteUnused(files)

\* Mutant: the slot is switched although the database refused the account.
CommitSlotFirst(l) ==
    /\ CommitEffects(l)
    /\ Save(files[l]) \/ (~MaySave(files[l]) /\ UNCHANGED storeVars)

\* OAuthClient::commit: the database accepts the credential of the login.
Commit(l) == CommitEffects(l) /\ Save(files[l])

\* The account is not the one this instance is bound to, or the database
\* refused the transaction.
CommitFails(l) ==
    /\ task[l] = "holdLock"
    /\ cacheLock = None
    /\ TaskEnds(l, "failed")
    /\ LoginUnchanged

LoginCancelled(l) ==
    /\ task[l] \in Working
    /\ LoginCancelRequested(l)
    /\ TaskEnds(l, "cancelled")
    /\ LoginUnchanged

\* Mutant: the timeout covers the wait for the code only.
LoginExpiredEarly(l) ==
    /\ task[l] = "waitCode"
    /\ TaskEnds(l, "expired")
    /\ LoginUnchanged

LoginExpired(l) ==
    /\ task[l] \in Working
    /\ TaskEnds(l, "expired")
    /\ LoginUnchanged

\* The CLI is closed; the outcome is published, the permits released, and the
\* channel and the working copy dropped.
FinalStatus(l) ==
    /\ task[l] = "closing"
    /\ opLock = None
    /\ opStatus' = IF opId = l THEN result[l] ELSE opStatus
    /\ task' = [task EXCEPT ![l] = "done"]
    /\ input' = input \ {l}
    /\ permits' = permits + N
    /\ UNCHANGED <<storeVars, slot, clock, shutdown, opLock, opId, adm, result,
                   cancel, acked, committed, reqVars, syncVars>>
    /\ files' = DeleteUnused(files)

-----------------------------------------------------------------------------
(* Model requests: the handler takes a permit and spawns the rpc task. *)

Admit(r) ==
    /\ opened
    /\ req[r] = "idle"
    /\ r \notin conn
    /\ ~shutdown
    /\ permits > 0
    /\ permits' = permits - 1
    /\ req' = [req EXCEPT ![r] = "spawned"]
    /\ conn' = conn \cup {r}
    /\ UNCHANGED <<storeVars, copyVars, shutdown, opVars, adm, loginVars, held,
                   syncVars>>

\* OAuthClient::inference_cache: the working copy in use, or a new one made
\* from the database.
GetCache(r) ==
    /\ req[r] = "spawned"
    /\ cacheLock = None
    /\ slot # None \/ active # None
    /\ IF slot = None
           THEN /\ slot' = Restored
                /\ files' = [files EXCEPT ![Restored] = active]
           ELSE UNCHANGED <<slot, files>>
    /\ held' = [held EXCEPT ![r] = slot']
    /\ req' = [req EXCEPT ![r] = "launching"]
    /\ UNCHANGED <<storeVars, clock, permits, shutdown, opVars, adm, loginVars,
                   conn, syncVars>>

\* Mutant: the early return forgets the permit.
GetCacheFailsLeaks(r) ==
    /\ req[r] = "spawned"
    /\ cacheLock = None
    /\ slot = None
    /\ req' = [req EXCEPT ![r] = "idle"]
    /\ UNCHANGED <<storeVars, copyVars, permits, shutdown, opVars, adm,
                   loginVars, held, conn, syncVars>>

\* Nobody is signed in, or the working copy cannot be made; the error fits
\* in the empty channel and the task returns.
GetCacheFails(r) ==
    /\ req[r] = "spawned"
    /\ cacheLock = None
    /\ slot = None
    /\ req' = [req EXCEPT ![r] = "idle"]
    /\ permits' = permits + 1
    /\ UNCHANGED <<storeVars, copyVars, shutdown, opVars, adm, loginVars, held,
                   conn, syncVars>>

\* A CLI refreshed the token in the working copy; a copy made from an old
\* record may learn its account id at the same time.
Rotate(r, id) ==
    /\ req[r] \in CliAlive
    /\ clock < MaxToken
    /\ files[held[r]].id # None => id = files[held[r]].id
    /\ clock' = clock + 1
    /\ files' = [files EXCEPT ![held[r]] =
                    [@ EXCEPT !.token = clock + 1, !.id = id]]
    /\ UNCHANGED <<storeVars, slot, permits, shutdown, opVars, adm, loginVars,
                   reqVars, syncVars>>

(* OAuthClient::sync.  It runs after the initialize response, before a      *)
(* message_stop is forwarded, and when the work has ended.  It holds the    *)
(* mutex throughout and never awaits, so neither the timeout nor a          *)
(* cancellation can fall inside it; other CLI processes still run.          *)

WantsSync(r) == req[r] \in {"launching", "serving"} \cup Ending

AfterSync(p, ok) ==
    IF ok
    THEN CASE p = "launching" -> "serving"
           [] p = "serving"   -> "completed"
           [] p = "endingOk"  -> "idle"
           [] p = "endingErr" -> "reporting"
    ELSE IF p \in Ending THEN "reporting" ELSE "endingErr"

\* Mutant: the permit is released once more when an error is still to be sent.
SyncReturnsTwice(r, ok) ==
    LET next == AfterSync(req[r], ok) IN
    /\ req' = [req EXCEPT ![r] = next]
    /\ held' = [held EXCEPT ![r] = IF next = "idle" THEN None ELSE @]
    /\ permits' = IF next \in {"idle", "reporting"} THEN permits + 1 ELSE permits
    /\ cacheLock' = None
    /\ captured' = None
    /\ UNCHANGED <<opened, copyVars, shutdown, opVars, adm, loginVars, conn>>

SyncReturns(r, ok) ==
    LET next == AfterSync(req[r], ok) IN
    /\ req' = [req EXCEPT ![r] = next]
    /\ held' = [held EXCEPT ![r] = IF next = "idle" THEN None ELSE @]
    /\ permits' = IF next = "idle" THEN permits + 1 ELSE permits
    /\ cacheLock' = None
    /\ captured' = None
    /\ UNCHANGED <<opened, copyVars, shutdown, opVars, adm, loginVars, conn>>

\* Nothing is saved for a working copy that is no longer in use, nor after
\* a logout.
SyncCapture(r) ==
    /\ WantsSync(r)
    /\ cacheLock = None
    /\ IF slot = held[r] /\ active # None
           THEN /\ cacheLock' = r
                /\ captured' = files[slot]
                /\ UNCHANGED <<storeVars, copyVars, permits, shutdown, opVars,
                               adm, loginVars, reqVars, unsaved>>
           ELSE /\ SyncReturns(r, TRUE)
                /\ UNCHANGED <<active, binding, unsaved>>

SyncSave(r) ==
    /\ cacheLock = r
    /\ Save(captured)
    /\ unsaved' = FALSE
    /\ SyncReturns(r, TRUE)

\* A file could not be read, the account check failed, or the database
\* refused the transaction.
SyncFails(r) ==
    /\ \/ cacheLock = r
       \/ WantsSync(r) /\ cacheLock = None /\ slot = held[r]
    /\ unsaved' = TRUE
    /\ SyncReturns(r, FALSE)
    /\ UNCHANGED <<active, binding>>

\* The work (rpc::run) ended; its CLI is killed with it.
WorkEnds(r, phase) ==
    /\ req[r] \in CliAlive
    /\ cacheLock # r
    /\ req' = [req EXCEPT ![r] = phase]
    /\ UNCHANGED <<storeVars, copyVars, permits, shutdown, opVars, adm,
                   loginVars, held, conn, syncVars>>

\* Mutant: the timeout covers the initialization only.
WorkFailsEarly(r) == req[r] = "launching" /\ WorkEnds(r, "endingErr")

\* An error of the CLI or of its output, or the request timeout.
WorkFails(r) == WorkEnds(r, "endingErr")

\* Mutant: a cancelled request returns without the final sync.
WorkCancelledUnsynced(r) ==
    /\ RequestCancelled(r)
    /\ req[r] \in CliAlive
    /\ cacheLock # r
    /\ req' = [req EXCEPT ![r] = "idle"]
    /\ held' = [held EXCEPT ![r] = None]
    /\ permits' = permits + 1
    /\ UNCHANGED <<storeVars, copyVars, shutdown, opVars, adm, loginVars, conn,
                   syncVars>>

WorkCancelled(r) == RequestCancelled(r) /\ WorkEnds(r, "endingOk")

WorkDone(r) == req[r] = "completed" /\ WorkEnds(r, "endingOk")

TaskReturns(r) ==
    /\ req[r] = "reporting"
    /\ req' = [req EXCEPT ![r] = "idle"]
    /\ held' = [held EXCEPT ![r] = None]
    /\ permits' = permits + 1
    /\ UNCHANGED <<storeVars, copyVars, shutdown, opVars, adm, loginVars, conn,
                   syncVars>>

\* The error enters the channel: the client takes what is queued before it.
ReportSent(r) == r \in conn /\ TaskReturns(r)

ReportDropped(r) == RequestCancelled(r) /\ TaskReturns(r)

\* The client disconnects, or the response is complete: the handler is gone.
Leave(r) ==
    /\ r \in conn
    /\ conn' = conn \ {r}
    /\ UNCHANGED <<storeVars, copyVars, permits, shutdown, opVars, adm,
                   loginVars, req, held, syncVars>>

-----------------------------------------------------------------------------
(* The process: start, SIGTERM, exit, crash. *)

Boot ==
    /\ Open
    /\ shutdown' = FALSE
    /\ UNCHANGED <<copyVars, permits, opVars, adm, loginVars, reqVars, syncVars>>

Shutdown ==
    /\ opened
    /\ ~shutdown
    /\ shutdown' = TRUE
    /\ UNCHANGED <<storeVars, copyVars, permits, opVars, adm, loginVars,
                   reqVars, syncVars>>

\* The server returns once no handler is left; it awaits no spawned task.
MayExit ==
    /\ opened
    /\ shutdown
    /\ conn = {}
    /\ \A a \in Admins : adm[a] = "idle"

ProcessGone ==
    /\ Close
    /\ slot' = None
    /\ files' = [k \in Caches |-> None]
    /\ permits' = N
    /\ opLock' = None
    /\ opId' = None
    /\ opStatus' = "none"
    /\ adm' = [a \in Admins |-> "idle"]
    /\ task' = [l \in Logins |-> IF task[l] = "none" THEN "none" ELSE "done"]
    /\ result' = [l \in Logins |-> "none"]
    /\ cancel' = {}
    /\ input' = {}
    /\ acked' = {}
    /\ committed' = {}
    /\ req' = [r \in Requests |-> "idle"]
    /\ held' = [r \in Requests |-> None]
    /\ conn' = {}
    /\ cacheLock' = None
    /\ captured' = None
    /\ unsaved' = FALSE
    /\ UNCHANGED <<clock, shutdown>>

Exit == MayExit /\ ProcessGone

Crash == opened /\ ProcessGone

-----------------------------------------------------------------------------
AdminNext(a) ==
    \/ StartQueue(a) \/ StartRefused(a) \/ StartAuthorize(a)
    \/ StartDropped(a) \/ AuthorizeFails(a)
    \/ \E l \in Logins : AuthorizeOk(a, l)
    \/ LogoutBegin(a) \/ LogoutFinish(a) \/ LogoutFails(a)

LoginNext(l) ==
    \/ SubmitCode(l) \/ CancelLogin(l) \/ ReceiveCode(l)
    \/ \E c \in Credentials : CallbackOk(l, c)
    \/ CallbackFails(l) \/ TakeLock(l) \/ CommitForbidden(l)
    \/ Commit(l) \/ CommitFails(l)
    \/ LoginCancelled(l) \/ LoginExpired(l) \/ FinalStatus(l)

RequestNext(r) ==
    \/ Admit(r) \/ GetCache(r) \/ GetCacheFails(r)
    \/ \E id \in Accounts \cup {None} : Rotate(r, id)
    \/ SyncCapture(r) \/ SyncSave(r) \/ SyncFails(r)
    \/ WorkFails(r) \/ WorkCancelled(r) \/ WorkDone(r)
    \/ ReportSent(r) \/ ReportDropped(r) \/ Leave(r)

ProcessNext == Boot \/ Shutdown \/ Exit \/ Crash

Next ==
    \/ \E a \in Admins : AdminNext(a)
    \/ \E l \in Logins : LoginNext(l)
    \/ \E r \in Requests : RequestNext(r)
    \/ ProcessNext

Spec == LifecycleInit /\ [][Next]_vars

-----------------------------------------------------------------------------
(* Safety. *)

\* Requests whose task holds a permit, and calls and logins that hold all N.
Busy == {r \in Requests : req[r] # "idle"}

Exclusive == {a \in Admins : adm[a] \in {"authorizing", "loggingOut"}}
             \cup {l \in Logins : Running(l)}

(***************************************************************************)
(* No path through a handler or a task loses or invents a permit, and a    *)
(* change of the account excludes every model request and every other      *)
(* change ("new model requests are paused while a login is authorized":    *)
(* start_login, logout and rpc::start all work on AppState.permits).       *)
(***************************************************************************)
PermitsConserved ==
    permits + Cardinality(Busy) + N * Cardinality(Exclusive) = N

(***************************************************************************)
(* No CLI runs on a working copy that was replaced or thrown away: what a  *)
(* task obtained before its first await is still the slot's when it uses   *)
(* it, through logins, logouts and lazy rebuilds (inference_cache, commit, *)
(* logout of oauth.rs).                                                    *)
(***************************************************************************)
WorkingCopyIsCurrent ==
    \A r \in Requests : held[r] \in {None, slot}

(***************************************************************************)
(* The slot and the database switch account together: a working copy is in *)
(* use only while somebody is signed in, and it is that account's          *)
(* (commit, logout and inference_cache change both under one mutex).       *)
(***************************************************************************)
SlotMatchesStore ==
    slot # None => /\ active # None
                   /\ files[slot] # None
                   /\ active.id \in {None, files[slot].id}

(***************************************************************************)
(* A login whose cancellation was accepted never becomes the account of    *)
(* the instance, however far its code exchange had got ("serialize         *)
(* cancellation with the redb commit", start_login of admin.rs).           *)
(***************************************************************************)
CancelStopsCommit == cancel \cap committed = {}

(***************************************************************************)
(* The console is never told a wrong outcome: "succeeded" exactly when the *)
(* credential was saved, even while the task is still closing its CLI, and *)
(* an accepted cancellation never turns into a success (the two places of  *)
(* start_login that write the status, cancel_login, submit_code).          *)
(***************************************************************************)
ReportedOutcome ==
    opId # None =>
        /\ opStatus = "succeeded" <=> opId \in committed
        /\ task[opId] = "done" => opStatus = result[opId]
        /\ opId \in cancel => opStatus \in {"cancelled", "failed", "expired"}

(***************************************************************************)
(* A token the CLI refreshed is in the database once the requests that     *)
(* could have refreshed it are over, however they ended, unless the sync   *)
(* itself failed (the sync after the select of rpc::start).                *)
(***************************************************************************)
PersistedWhenQuiescent ==
    /\ slot # None
    /\ \A r \in Requests : held[r] = None
    /\ ~unsaved
    => active = files[slot]

(***************************************************************************)
(* Requests that share a working copy never put an older token over a      *)
(* newer one: reading the files and saving them is one critical section    *)
(* (sync of oauth.rs), though CLIs go on writing between the two.          *)
(***************************************************************************)
NoStaleOverwrite ==
    [][active # None /\ active' # None => active'.token >= active.token]_vars

(***************************************************************************)
(* Until a login succeeds the previous credential stays: nothing else      *)
(* writes the database while it is authorized, and a cancelled, expired,   *)
(* failed or mismatched login leaves it alone (README, account management; *)
(* start_login and commit).                                                *)
(***************************************************************************)
LoginKeepsAccount ==
    [][\A l \in Logins :
          Running(l) /\ active' # active =>
              committed' = committed \cup {l} /\ l \notin committed \cup cancel
      ]_vars

(***************************************************************************)
(* What the comment at the commit claims: a DELETE that was answered       *)
(* "cancelled" is about a login that saved nothing.                        *)
(***************************************************************************)
CancelledReplyIsTruthful == acked \cap committed = {}

(***************************************************************************)
(* What docs/oauth-redb.md claims of a normal exit, as opposed to a crash: *)
(* when the server returns, no refreshed token is left unsaved.            *)
(***************************************************************************)
GracefulExitPersists ==
    MayExit /\ slot # None /\ ~unsaved => active = files[slot]

-----------------------------------------------------------------------------
(***************************************************************************)
(* Fairness.  The runtime polls ready tasks and its timers fire: weak      *)
(* fairness on what a task can do alone.  tokio's mutexes are first-in     *)
(* first-out: strong fairness on what waits for one.  The CLI owes nothing *)
(* (its steps carry no fairness); a client eventually reads its response   *)
(* or disconnects.                                                         *)
(***************************************************************************)
AdminFairness(a) ==
    /\ SF_vars(StartRefused(a) \/ StartAuthorize(a))
    /\ WF_vars(AuthorizeFails(a))
    /\ SF_vars(LogoutFinish(a) \/ LogoutFails(a))

LoginFairness(l) ==
    /\ WF_vars(LoginExpired(l) \/ LoginCancelled(l))
    /\ SF_vars(FinalStatus(l))

RequestFairness(r) ==
    /\ SF_vars(GetCache(r) \/ GetCacheFails(r))
    /\ WF_vars(WorkFails(r) \/ WorkCancelled(r))
    /\ SF_vars(req[r] \in Ending /\ (SyncCapture(r) \/ SyncFails(r)))
    /\ WF_vars(cacheLock = r /\ (SyncSave(r) \/ SyncFails(r)))
    /\ WF_vars(ReportDropped(r))
    /\ WF_vars(ReportSent(r) \/ (req[r] \in {"idle", "reporting"} /\ Leave(r)))

Fairness ==
    /\ \A a \in Admins : AdminFairness(a)
    /\ \A l \in Logins : LoginFairness(l)
    /\ \A r \in Requests : RequestFairness(r)

FairSpec == Spec /\ Fairness

(***************************************************************************)
(* Every request gives its permit back, whatever the CLI does              *)
(* (rpc::start; request_timeout bounds the work, not what follows it).     *)
(***************************************************************************)
RequestEnds == \A r \in Requests : req[r] # "idle" ~> req[r] = "idle"

(***************************************************************************)
(* Every login ends and gives all permits back, with or without a code     *)
(* (oauth_timeout, and the close that follows it, in start_login).         *)
(***************************************************************************)
LoginEnds == \A l \in Logins :
    Running(l) ~> task[l] = "done"

(***************************************************************************)
(* Every console call is answered although calls hold the operation mutex  *)
(* across CLI calls: nobody waits for ever on the two mutexes              *)
(* (start_login, logout).                                                  *)
(***************************************************************************)
AdminAnswered == \A a \in Admins : adm[a] # "idle" ~> adm[a] = "idle"
=============================================================================
