----------------------- MODULE AccountLifecycleProofs -----------------------
(***************************************************************************)
(* What AccountLifecycle promises, for every number of requests, logins,   *)
(* console calls and permits.                                              *)
(*                                                                         *)
(* 1. Types, permits and working copies depend on each other: a token      *)
(* written by a CLI has a type only if the copy it is written to still     *)
(* exists; it exists because no login or logout replaces the slot while a  *)
(* request runs; and that follows from the count of permits.  CoreInv is   *)
(* the conjunction that is inductive.                                      *)
(*                                                                         *)
(* 2. Logins: a cancelled one commits nothing, and the console is told how *)
(* each one ended.  The argument is about the mutex AdminState.operation.  *)
(* A task that has checked its cancel token owns the mutex until its       *)
(* commit is over, and DELETE triggers the token under the same mutex; so  *)
(* between the check and the commit no cancellation falls.  LoginInv says  *)
(* that, and that the record's status, the task's result and the database  *)
(* tell the same story at every stage of a task.                           *)
(*                                                                         *)
(* 3. The bridge and its database: whatever handlers and tasks do, the     *)
(* database sees only the operations CredentialStore allows it, so what is *)
(* proved of the database holds of the whole bridge; and while a login is  *)
(* going on nothing but its own commit writes there.                       *)
(*                                                                         *)
(* 4. Tokens: one travels from a CLI to the working copy, from there to    *)
(* the sync that read it, and to the database.  TokenInv says that it only *)
(* gets newer against that direction, so no sync and no commit puts an     *)
(* older one in the database; SavedInv, that while the database is behind, *)
(* some request has its final sync still before it, so a token is not left *)
(* behind when the last request ends.                                      *)
(***************************************************************************)
EXTENDS AccountLifecycle, CredentialStoreProofs, FiniteSetTheorems, TLAPS

-----------------------------------------------------------------------------
(* 1. Types, permits and working copies. *)

\* Either requests share the permits, or one login or console call has all.
PermitInv ==
    \/ Exclusive = {} /\ permits + Cardinality(Busy) = N
    \/ (\E h \in Exclusive : Exclusive = {h}) /\ Busy = {} /\ permits = 0

\* A task holds the working copy of the slot, from inference_cache to its end.
HeldInv == \A r \in Requests :
    /\ held[r] \in {None, slot}
    /\ req[r] \in {"idle", "spawned"} <=> held[r] = None

\* The slot fits the database, and a login's copy enters it only by a commit.
SlotInv ==
    /\ SlotMatchesStore
    /\ slot \in Logins => task[slot] \in {"closing", "done"}

\* A login that may commit has a credential to commit.
LoginCopyInv == \A l \in Logins :
    task[l] \in {"wantLock", "holdLock"} => files[l] # None

\* Between the two halves of a sync the task stays where it is, and what it
\* read is a credential of the account of the slot.
LockInv == cacheLock # None =>
    /\ req[cacheLock] \in {"launching", "serving"} \cup Ending
    /\ captured # None
    /\ captured.id \in {None, files[slot].id}

CoreInv ==
    /\ TypeOK
    /\ PermitInv
    /\ HeldInv
    /\ SlotInv
    /\ LoginCopyInv
    /\ LockInv

-----------------------------------------------------------------------------
(* Types. *)

\* Cleaning up keeps the copy in the slot and those of running logins.
LEMMA UnusedDeleted ==
    ASSUME NEW f \in [Caches -> Credentials \cup {None}]
    PROVE  /\ DeleteUnused(f) \in [Caches -> Credentials \cup {None}]
           /\ slot' \in Caches => DeleteUnused(f)[slot'] = f[slot']
           /\ \A l \in Logins : task'[l] \in Working \cup {"closing"}
                                    => DeleteUnused(f)[l] = f[l]
  BY DEF DeleteUnused, Caches

\* A host that has not started yet is typed.
LEMMA TypeInitially == LifecycleInit => TypeOK
  <1> SUFFICES ASSUME LifecycleInit
               PROVE  TypeOK
    OBVIOUS
  <1>1. StoreTypeOK
    BY StoreInvInitially DEF LifecycleInit, StoreInv
  <1>2. permits \in 0 .. N /\ clock \in 0 .. MaxToken
    BY StoreAssumption, LifecycleAssumption
       DEF LifecycleInit, StoreAssumption, LifecycleAssumption
  <1> QED
    BY <1>1, <1>2 DEF LifecycleInit, TypeOK, AdminStates, TaskStates, ReqStates

\* Console calls keep the types.
LEMMA AdminTypes ==
    ASSUME CoreInv, NEW a \in Admins, AdminNext(a)
    PROVE  TypeOK'
  <1> USE LifecycleAssumption
      DEF CoreInv, TypeOK, StoreTypeOK, LifecycleAssumption, AdminStates,
          TaskStates, Working, Outcomes, storeVars, copyVars, opVars, loginVars,
          reqVars, syncVars
  <1>1. CASE StartQueue(a)
    BY <1>1 DEF StartQueue
  <1>2. CASE StartRefused(a)
    BY <1>2 DEF StartRefused
  <1>3. CASE StartAuthorize(a)
    BY <1>3 DEF StartAuthorize
  <1>4. CASE StartDropped(a)
    BY <1>4 DEF StartDropped
  <1>5. CASE AuthorizeFails(a)
    BY <1>5 DEF AuthorizeFails, PermitInv, Exclusive
  <1>6. ASSUME NEW l \in Logins, AuthorizeOk(a, l)
        PROVE  TypeOK'
    BY <1>6 DEF AuthorizeOk
  <1>7. CASE LogoutBegin(a)
    BY <1>7 DEF LogoutBegin
  <1>8. CASE LogoutFinish(a)
    <2>1. files' \in [Caches -> Credentials \cup {None}]
      BY <1>8, UnusedDeleted DEF LogoutFinish
    <2>2. permits' \in 0 .. N
      BY <1>8 DEF LogoutFinish, LogoutEnds, PermitInv, Exclusive
    <2> QED
      BY <1>8, <2>1, <2>2 DEF LogoutFinish, LogoutEnds, Clear
  <1>9. CASE LogoutFails(a)
    BY <1>9 DEF LogoutFails, LogoutEnds, PermitInv, Exclusive
  <1> QED
    BY <1>1, <1>2, <1>3, <1>4, <1>5, <1>6, <1>7, <1>8, <1>9 DEF AdminNext
\* Login tasks and the calls about them keep the types.
LEMMA LoginTypes ==
    ASSUME CoreInv, NEW l \in Logins, LoginNext(l)
    PROVE  TypeOK'
  <1> USE LifecycleAssumption
      DEF CoreInv, TypeOK, StoreTypeOK, LifecycleAssumption, TaskStates,
          Working, Outcomes, storeVars, copyVars, opVars, loginVars, reqVars,
          syncVars
  <1>1. CASE SubmitCode(l)
    BY <1>1 DEF SubmitCode
  <1>2. CASE CancelLogin(l)
    BY <1>2 DEF CancelLogin
  <1>3. CASE ReceiveCode(l)
    BY <1>3 DEF ReceiveCode
  <1>4. ASSUME NEW c \in Credentials, CallbackOk(l, c)
        PROVE  TypeOK'
    <2>1. clock' \in 0 .. MaxToken
      BY <1>4, StoreAssumption DEF CallbackOk, StoreAssumption
    <2>2. files' \in [Caches -> Credentials \cup {None}]
      BY <1>4 DEF CallbackOk
    <2> QED
      BY <1>4, <2>1, <2>2 DEF CallbackOk
  <1>5. CASE CallbackFails(l)
    BY <1>5 DEF CallbackFails, TaskEnds, LoginUnchanged
  <1>6. CASE TakeLock(l)
    BY <1>6 DEF TakeLock
  <1>7. CASE CommitForbidden(l)
    BY <1>7 DEF CommitForbidden, TaskEnds, LoginUnchanged
  <1>8. CASE Commit(l)
    <2>1. files[l] \in Credentials /\ l \in Caches
      BY <1>8 DEF Commit, CommitEffects, LoginCopyInv, Caches
    <2>2. active' \in Credentials /\ binding' \in Bindings /\ opened' = opened
      BY <1>8, <2>1, BindingOfCredential DEF Commit, CommitEffects, Save
    <2>3. files' \in [Caches -> Credentials \cup {None}]
      BY <1>8, UnusedDeleted DEF Commit, CommitEffects
    <2> QED
      BY <1>8, <2>1, <2>2, <2>3 DEF Commit, CommitEffects, TaskEnds
  <1>9. CASE CommitFails(l)
    BY <1>9 DEF CommitFails, TaskEnds, LoginUnchanged
  <1>10. CASE LoginCancelled(l)
    BY <1>10 DEF LoginCancelled, TaskEnds, LoginUnchanged
  <1>11. CASE LoginExpired(l)
    BY <1>11 DEF LoginExpired, TaskEnds, LoginUnchanged
  <1>12. CASE FinalStatus(l)
    <2>1. files' \in [Caches -> Credentials \cup {None}]
      BY <1>12, UnusedDeleted DEF FinalStatus
    <2>2. permits' \in 0 .. N
      BY <1>12 DEF FinalStatus, PermitInv, Exclusive, Running
    <2>3. opStatus' \in {"none", "waiting", "submitting"} \cup Outcomes
      BY <1>12 DEF FinalStatus
    <2> QED
      BY <1>12, <2>1, <2>2, <2>3 DEF FinalStatus
  <1> QED
    BY <1>1, <1>2, <1>3, <1>4, <1>5, <1>6, <1>7, <1>8, <1>9, <1>10, <1>11,
       <1>12 DEF LoginNext

\* A request that holds a working copy holds the slot's, which exists.
LEMMA HeldCopy ==
    ASSUME CoreInv, NEW r \in Requests, req[r] \notin {"idle", "spawned"}
    PROVE  /\ held[r] = slot /\ slot \in Caches
           /\ files[slot] \in Credentials
           /\ active \in Credentials
  BY DEF CoreInv, TypeOK, StoreTypeOK, HeldInv, SlotInv, SlotMatchesStore

\* A running request leaves room for its permit to come back.
LEMMA RoomForPermit ==
    ASSUME CoreInv, NEW r \in Requests, req[r] # "idle"
    PROVE  permits + 1 \in 0 .. N
  <1>1. r \in Busy /\ Busy \subseteq Requests
    BY DEF Busy
  <1>2. IsFiniteSet(Busy)
    BY <1>1, FS_Subset, LifecycleAssumption DEF LifecycleAssumption
  <1>3. Cardinality(Busy) \in Nat /\ Cardinality(Busy) # 0
    BY <1>1, <1>2, FS_CardinalityType, FS_EmptySet
  <1>4. permits + Cardinality(Busy) = N /\ permits \in Nat
    BY <1>1, LifecycleAssumption
       DEF CoreInv, PermitInv, TypeOK, LifecycleAssumption
  <1> QED
    BY <1>3, <1>4, LifecycleAssumption DEF LifecycleAssumption
\* A sync that returns keeps every type but those of the database and of
\* unsaved, which its outcome decides.
LEMMA SyncReturnTypes ==
    ASSUME CoreInv, NEW r \in Requests, NEW ok \in BOOLEAN,
           WantsSync(r), SyncReturns(r, ok),
           StoreTypeOK', unsaved' \in BOOLEAN
    PROVE  TypeOK'
  <1> USE DEF CoreInv, TypeOK
  <1>1. AfterSync(req[r], ok) \in ReqStates
    BY DEF WantsSync, AfterSync, ReqStates, Ending, CliAlive
  <1>2. permits' \in 0 .. N
    BY RoomForPermit DEF SyncReturns, WantsSync, Ending
  <1>3. req' \in [Requests -> ReqStates] /\ held' \in [Requests -> Caches \cup {None}]
    BY <1>1 DEF SyncReturns
  <1> QED
    BY <1>2, <1>3 DEF SyncReturns, copyVars, opVars, loginVars

\* Requests keep the types.
LEMMA RequestTypes ==
    ASSUME CoreInv, NEW r \in Requests, RequestNext(r)
    PROVE  TypeOK'
  <1> USE LifecycleAssumption
      DEF CoreInv, TypeOK, StoreTypeOK, LifecycleAssumption, storeVars,
          copyVars, opVars, loginVars, reqVars, syncVars
  <1>0. ASSUME WantsSync(r) PROVE req[r] \notin {"idle", "spawned"}
    BY <1>0 DEF WantsSync, Ending
  <1>1. CASE Admit(r)
    BY <1>1 DEF Admit, ReqStates
  <1>2. CASE GetCache(r)
    BY <1>2 DEF GetCache, ReqStates, CliAlive, Caches
  <1>3. CASE GetCacheFails(r)
    BY <1>3, RoomForPermit DEF GetCacheFails, ReqStates
  <1>4. ASSUME NEW id \in Accounts \cup {None}, Rotate(r, id)
        PROVE  TypeOK'
    <2>1. clock' \in 0 .. MaxToken
      BY <1>4, StoreAssumption DEF Rotate, StoreAssumption
    <2>2. held[r] \in Caches /\ files[held[r]] \in Credentials
      BY <1>4, HeldCopy DEF Rotate, CliAlive
    <2>3. [files[held[r]] EXCEPT !.token = clock', !.id = id] \in Credentials
      BY <2>1, <2>2 DEF Credentials
    <2> QED
      BY <1>4, <2>1, <2>2, <2>3 DEF Rotate
  <1>5. CASE SyncCapture(r)
    <2>1. CASE slot = held[r] /\ active # None
      <3>1. files[slot] \in Credentials
        BY <1>5, <1>0, HeldCopy DEF SyncCapture
      <3> QED
        BY <1>5, <2>1, <3>1 DEF SyncCapture
    <2>2. CASE ~(slot = held[r] /\ active # None)
      <3>1. SyncReturns(r, TRUE) /\ WantsSync(r)
        BY <1>5, <2>2 DEF SyncCapture
      <3> QED
        <4>1. StoreTypeOK' /\ unsaved' \in BOOLEAN
          BY <1>5, <2>2, <3>1 DEF SyncCapture, SyncReturns
        <4> HIDE DEF CoreInv, TypeOK, StoreTypeOK
        <4> QED
          BY <3>1, <4>1, SyncReturnTypes
    <2> QED
      BY <2>1, <2>2
  <1>6. CASE SyncSave(r)
    <2>1. WantsSync(r) /\ captured \in Credentials /\ SyncReturns(r, TRUE)
      BY <1>6 DEF SyncSave, LockInv, WantsSync
    <2>2. active' \in Credentials /\ binding' \in Bindings /\ opened' = opened
      BY <1>6, <2>1, BindingOfCredential DEF SyncSave, Save
    <2> QED
      <3>1. StoreTypeOK' /\ unsaved' \in BOOLEAN
        BY <1>6, <2>2 DEF SyncSave
      <3> HIDE DEF CoreInv, TypeOK, StoreTypeOK
      <3> QED
        BY <2>1, <3>1, SyncReturnTypes
  <1>7. CASE SyncFails(r)
    <2>1. WantsSync(r) /\ SyncReturns(r, FALSE)
      BY <1>7 DEF SyncFails, LockInv, WantsSync
    <2> QED
      <3>1. StoreTypeOK' /\ unsaved' \in BOOLEAN
        BY <1>7, <2>1 DEF SyncFails, SyncReturns
      <3> HIDE DEF CoreInv, TypeOK, StoreTypeOK
      <3> QED
        BY <2>1, <3>1, SyncReturnTypes
  <1>8. CASE WorkFails(r)
    BY <1>8 DEF WorkFails, WorkEnds, ReqStates, Ending
  <1>9. CASE WorkCancelled(r)
    BY <1>9 DEF WorkCancelled, WorkEnds, ReqStates, Ending
  <1>10. CASE WorkDone(r)
    BY <1>10 DEF WorkDone, WorkEnds, ReqStates, Ending
  <1>11. CASE ReportSent(r) \/ ReportDropped(r)
    BY <1>11, RoomForPermit DEF ReportSent, ReportDropped, TaskReturns, ReqStates
  <1>12. CASE Leave(r)
    BY <1>12 DEF Leave
  <1> QED
    BY <1>1, <1>2, <1>3, <1>4, <1>5, <1>6, <1>7, <1>8, <1>9, <1>10, <1>11,
       <1>12 DEF RequestNext

\* Starts, stops and crashes keep the types.
LEMMA ProcessTypes ==
    ASSUME CoreInv, ProcessNext
    PROVE  TypeOK'
  <1> USE LifecycleAssumption
      DEF CoreInv, TypeOK, StoreTypeOK, LifecycleAssumption, storeVars,
          copyVars, opVars, loginVars, reqVars, syncVars
  <1>1. CASE Boot
    BY <1>1, BindingOfCredential DEF Boot, Open
  <1>2. CASE Shutdown
    BY <1>2 DEF Shutdown
  <1>3. CASE ProcessGone
    <2>1. task' \in [Logins -> TaskStates] /\ result' \in [Logins -> {"none"} \cup Outcomes]
      BY <1>3 DEF ProcessGone, TaskStates
    <2>2. req' \in [Requests -> ReqStates] /\ held' \in [Requests -> Caches \cup {None}]
      BY <1>3 DEF ProcessGone, ReqStates
    <2>3. adm' \in [Admins -> AdminStates] /\ files' \in [Caches -> Credentials \cup {None}]
      BY <1>3 DEF ProcessGone, AdminStates
    <2>4. StoreTypeOK'
      BY <1>3 DEF ProcessGone, Close
    <2>5. /\ slot' = None /\ clock' = clock /\ shutdown' = shutdown
          /\ opLock' = None /\ opId' = None /\ opStatus' = "none"
          /\ cancel' = {} /\ input' = {} /\ acked' = {} /\ committed' = {}
          /\ conn' = {} /\ cacheLock' = None /\ captured' = None
          /\ unsaved' = FALSE
      BY <1>3 DEF ProcessGone
    <2>6. permits' = N /\ N \in 0 .. N
      BY <1>3 DEF ProcessGone
    <2>7. clock' \in 0 .. MaxToken /\ shutdown' \in BOOLEAN
      BY <2>5
    <2> HIDE DEF CoreInv
    <2> QED
      BY <2>1, <2>2, <2>3, <2>4, <2>5, <2>6, <2>7
  <1> QED
    BY <1>1, <1>2, <1>3 DEF ProcessNext, Exit, Crash

\* Every step keeps the types.
LEMMA TypeStep ==
    ASSUME CoreInv, [Next]_vars
    PROVE  TypeOK'
  <1>1. CASE UNCHANGED vars
    BY <1>1 DEF vars, CoreInv, TypeOK, StoreTypeOK, storeVars, copyVars, opVars,
                loginVars, reqVars, syncVars
  <1> QED
    BY <1>1, AdminTypes, LoginTypes, RequestTypes, ProcessTypes DEF Next
-----------------------------------------------------------------------------
(* Permits. *)

\* The busy requests are finitely many, so they can be counted.
LEMMA BusyFinite == IsFiniteSet(Busy) /\ Cardinality(Busy) \in Nat
  <1>1. Busy \subseteq Requests
    BY DEF Busy
  <1>2. IsFiniteSet(Busy)
    BY <1>1, FS_Subset, LifecycleAssumption DEF LifecycleAssumption
  <1> QED
    BY <1>2, FS_CardinalityType

\* Whoever holds all permits is alone.
LEMMA HolderIsAlone ==
    ASSUME PermitInv, NEW h \in Exclusive
    PROVE  Exclusive = {h} /\ Busy = {} /\ permits = 0
  BY DEF PermitInv

\* While a permit is free or a request runs, nobody holds all permits.
LEMMA NobodyHoldsAll ==
    ASSUME PermitInv, permits # 0 \/ Busy # {}
    PROVE  Exclusive = {} /\ permits + Cardinality(Busy) = N
  BY DEF PermitInv

\* N free permits: nobody is busy and nobody holds them all.
LEMMA AllPermitsFree ==
    ASSUME TypeOK, PermitInv, permits = N
    PROVE  Exclusive = {} /\ Busy = {}
  <1>1. N \in Nat /\ N # 0
    BY LifecycleAssumption DEF LifecycleAssumption
  <1>2. Exclusive = {} /\ permits + Cardinality(Busy) = N
    BY <1>1, NobodyHoldsAll
  <1>3. Cardinality(Busy) = 0
    BY <1>1, <1>2, BusyFinite
  <1> QED
    BY <1>2, <1>3, BusyFinite, FS_EmptySet

\* A step that moves no permit.
LEMMA PermitsKept ==
    ASSUME PermitInv, Exclusive' = Exclusive, Busy' = Busy, permits' = permits
    PROVE  PermitInv'
  BY DEF PermitInv

\* A request takes one permit.
LEMMA PermitTaken ==
    ASSUME TypeOK, PermitInv, permits > 0, permits' = permits - 1,
           Exclusive' = Exclusive,
           NEW r \in Requests, r \notin Busy, Busy' = Busy \cup {r}
    PROVE  PermitInv'
  <1>1. Exclusive = {} /\ permits + Cardinality(Busy) = N /\ permits \in Nat
    BY NobodyHoldsAll, LifecycleAssumption DEF TypeOK, LifecycleAssumption
  <1>2. Cardinality(Busy') = Cardinality(Busy) + 1
    BY BusyFinite, FS_AddElement
  <1> QED
    BY <1>1, <1>2, BusyFinite, LifecycleAssumption
       DEF PermitInv, LifecycleAssumption

\* A request returns its permit.
LEMMA PermitReturned ==
    ASSUME TypeOK, PermitInv, permits' = permits + 1, Exclusive' = Exclusive,
           NEW r \in Busy, Busy' = Busy \ {r}
    PROVE  PermitInv'
  <1>1. Exclusive = {} /\ permits + Cardinality(Busy) = N /\ permits \in Nat
    BY NobodyHoldsAll, LifecycleAssumption DEF TypeOK, LifecycleAssumption
  <1>2. Cardinality(Busy') = Cardinality(Busy) - 1
    BY BusyFinite, FS_RemoveElement
  <1> QED
    BY <1>1, <1>2, BusyFinite, LifecycleAssumption
       DEF PermitInv, LifecycleAssumption

\* A call takes all permits.
LEMMA AllPermitsTaken ==
    ASSUME permits' = 0, Busy' = {}, NEW h, Exclusive' = {h}
    PROVE  PermitInv'
  BY DEF PermitInv

\* A call or login returns all permits.
LEMMA AllPermitsReturned ==
    ASSUME permits' = N, Busy' = {}, Exclusive' = {}
    PROVE  PermitInv'
  BY FS_EmptySet, LifecycleAssumption DEF PermitInv, LifecycleAssumption

\* Console calls conserve permits.
LEMMA AdminPermits ==
    ASSUME CoreInv, NEW a \in Admins, AdminNext(a)
    PROVE  PermitInv'
  <1>0. adm \in [Admins -> AdminStates] /\ task \in [Logins -> TaskStates]
        /\ TypeOK /\ PermitInv /\ a \notin Logins
    BY LifecycleAssumption DEF CoreInv, TypeOK, LifecycleAssumption
  <1>1. CASE StartQueue(a) \/ StartRefused(a) \/ StartDropped(a)
    <2>1. Exclusive' = Exclusive /\ Busy' = Busy /\ permits' = permits
      BY <1>0, <1>1 DEF StartQueue, StartRefused, StartDropped, Exclusive,
                        Running, Busy, loginVars, reqVars
    <2> QED
      BY <1>0, <2>1, PermitsKept
  <1>2. CASE StartAuthorize(a) \/ LogoutBegin(a)
    <2>1. Exclusive = {} /\ Busy = {}
      BY <1>0, <1>2, AllPermitsFree DEF StartAuthorize, LogoutBegin
    <2>2. Busy' = {} /\ permits' = 0
      BY <1>2, <2>1 DEF StartAuthorize, LogoutBegin, Busy, reqVars
    <2>3. Exclusive' = {a}
      BY <1>0, <1>2, <2>1 DEF StartAuthorize, LogoutBegin, Exclusive, Running,
                              loginVars
    <2> QED
      BY <2>2, <2>3, AllPermitsTaken
  <1>3. CASE AuthorizeFails(a) \/ LogoutFinish(a) \/ LogoutFails(a)
    <2>1. a \in Exclusive
      BY <1>3 DEF AuthorizeFails, LogoutFinish, LogoutFails, LogoutEnds, Exclusive
    <2>2. Exclusive = {a} /\ Busy = {} /\ permits = 0
      BY <1>0, <2>1, HolderIsAlone
    <2>3. Exclusive' = {}
      BY <1>0, <1>3, <2>2 DEF AuthorizeFails, LogoutFinish, LogoutFails,
                              LogoutEnds, Exclusive, Running, loginVars
    <2>4. Busy' = {} /\ permits' = N
      BY <1>3, <2>2, LifecycleAssumption
         DEF AuthorizeFails, LogoutFinish, LogoutFails, LogoutEnds, Busy,
             reqVars, LifecycleAssumption
    <2> QED
      BY <2>3, <2>4, AllPermitsReturned
  <1>4. ASSUME NEW l \in Logins, AuthorizeOk(a, l)
        PROVE  PermitInv'
    <2>1. a \in Exclusive
      BY <1>4 DEF AuthorizeOk, Exclusive
    <2>2. Exclusive = {a} /\ Busy = {} /\ permits = 0
      BY <1>0, <2>1, HolderIsAlone
    <2>3. Exclusive' = {l}
      BY <1>0, <1>4, <2>2 DEF AuthorizeOk, Exclusive, Running, Working
    <2>4. Busy' = {} /\ permits' = 0
      BY <1>4, <2>2 DEF AuthorizeOk, Busy, reqVars
    <2> QED
      BY <2>3, <2>4, AllPermitsTaken
  <1> QED
    BY <1>1, <1>2, <1>3, <1>4 DEF AdminNext

\* The steps of a login between its start and its last keep all permits.
LEMMA LoginPermits ==
    ASSUME CoreInv, NEW l \in Logins, LoginNext(l)
    PROVE  PermitInv'
  <1>0. task \in [Logins -> TaskStates] /\ PermitInv
    BY DEF CoreInv, TypeOK
  <1>1. CASE SubmitCode(l) \/ CancelLogin(l)
    <2>1. Exclusive' = Exclusive /\ Busy' = Busy /\ permits' = permits
      BY <1>1 DEF SubmitCode, CancelLogin, Exclusive, Running, Busy, reqVars
    <2> QED
      BY <1>0, <2>1, PermitsKept
  <1>2. ASSUME l \in Exclusive, task' = [task EXCEPT ![l] = task'[l]],
               Running(l)', adm' = adm, req' = req, permits' = permits
        PROVE  PermitInv'
    <2>1. Exclusive' = Exclusive /\ Busy' = Busy
      BY <1>0, <1>2 DEF Exclusive, Running, Busy
    <2> QED
      BY <1>0, <1>2, <2>1, PermitsKept
  <1>3. CASE ReceiveCode(l) \/ TakeLock(l) \/ \E c \in Credentials : CallbackOk(l, c)
    BY <1>0, <1>2, <1>3 DEF ReceiveCode, TakeLock, CallbackOk, Exclusive,
                            Running, Working, reqVars
  <1>4. ASSUME NEW o, TaskEnds(l, o), task[l] \in Working
        PROVE  PermitInv'
    BY <1>0, <1>2, <1>4 DEF TaskEnds, Exclusive, Running, reqVars
  <1>5. CASE \/ CallbackFails(l) \/ CommitForbidden(l) \/ Commit(l)
             \/ CommitFails(l) \/ LoginCancelled(l) \/ LoginExpired(l)
    BY <1>4, <1>5 DEF CallbackFails, CommitForbidden, Commit, CommitEffects, CommitFails,
                      LoginCancelled, LoginExpired, Working
  <1>6. CASE FinalStatus(l)
    <2>1. Exclusive = {l} /\ Busy = {} /\ permits = 0
      BY <1>0, <1>6, HolderIsAlone DEF FinalStatus, Exclusive, Running
    <2>2. Exclusive' = {}
      BY <1>0, <1>6, <2>1, LifecycleAssumption
         DEF FinalStatus, Exclusive, Running, Working, LifecycleAssumption
    <2>3. Busy' = {} /\ permits' = N
      BY <1>6, <2>1, LifecycleAssumption
         DEF FinalStatus, Busy, reqVars, LifecycleAssumption
    <2> QED
      BY <2>2, <2>3, AllPermitsReturned
  <1> QED
    BY <1>1, <1>3, <1>5, <1>6 DEF LoginNext
\* Requests conserve permits.
LEMMA RequestPermits ==
    ASSUME CoreInv, NEW r \in Requests, RequestNext(r)
    PROVE  PermitInv'
  <1>0. TypeOK /\ PermitInv /\ req \in [Requests -> ReqStates]
    BY DEF CoreInv, TypeOK
  <1>1. ASSUME adm' = adm, task' = task
        PROVE  Exclusive' = Exclusive
    BY <1>1 DEF Exclusive, Running
  <1>2. ASSUME NEW p, p # "idle", req[r] # "idle",
               req' = [req EXCEPT ![r] = p], permits' = permits,
               adm' = adm, task' = task
        PROVE  PermitInv'
    <2>1. Busy' = Busy
      BY <1>0, <1>2 DEF Busy
    <2> QED
      BY <1>0, <1>1, <1>2, <2>1, PermitsKept
  <1>3. ASSUME req[r] # "idle", req' = [req EXCEPT ![r] = "idle"],
               permits' = permits + 1, adm' = adm, task' = task
        PROVE  PermitInv'
    <2>1. r \in Busy /\ Busy' = Busy \ {r}
      BY <1>0, <1>3 DEF Busy
    <2> QED
      BY <1>0, <1>1, <1>3, <2>1, PermitReturned
  <1>4. CASE Admit(r)
    <2>1. r \notin Busy /\ Busy' = Busy \cup {r}
      BY <1>0, <1>4 DEF Admit, Busy
    <2>2. Exclusive' = Exclusive
      BY <1>1, <1>4 DEF Admit, loginVars
    <2> QED
      BY <1>0, <1>4, <2>1, <2>2, PermitTaken DEF Admit
  <1>5. CASE GetCache(r)
    BY <1>2, <1>5 DEF GetCache, loginVars
  <1>6. CASE GetCacheFails(r)
    BY <1>3, <1>6 DEF GetCacheFails, loginVars
  <1>7. ASSUME UNCHANGED <<permits, adm, loginVars, req>>
        PROVE  PermitInv'
    <2>1. Busy' = Busy /\ Exclusive' = Exclusive
      BY <1>1, <1>7 DEF Busy, loginVars
    <2> QED
      BY <1>0, <1>7, <2>1, PermitsKept
  <1>8. CASE (\E id \in Accounts \cup {None} : Rotate(r, id)) \/ Leave(r)
    BY <1>7, <1>8 DEF Rotate, Leave, reqVars
  <1>9. ASSUME NEW ok \in BOOLEAN, WantsSync(r), SyncReturns(r, ok)
        PROVE  PermitInv'
    <2>1. req[r] # "idle" /\ adm' = adm /\ task' = task
      BY <1>9 DEF WantsSync, Ending, SyncReturns, loginVars
    <2>2. CASE AfterSync(req[r], ok) = "idle"
      BY <1>3, <1>9, <2>1, <2>2 DEF SyncReturns
    <2>3. CASE AfterSync(req[r], ok) # "idle"
      BY <1>2, <1>9, <2>1, <2>3 DEF SyncReturns
    <2> QED
      BY <2>2, <2>3
  <1>10. CASE SyncCapture(r)
    <2>1. CASE slot = held[r] /\ active # None
      BY <1>7, <1>10, <2>1 DEF SyncCapture, reqVars
    <2>2. CASE ~(slot = held[r] /\ active # None)
      <3>1. WantsSync(r) /\ SyncReturns(r, TRUE)
        BY <1>10, <2>2 DEF SyncCapture
      <3> QED
        BY <1>9, <3>1
    <2> QED
      BY <2>1, <2>2
  <1>11. CASE SyncSave(r)
    <2>1. WantsSync(r) /\ SyncReturns(r, TRUE)
      BY <1>11, LifecycleAssumption
         DEF SyncSave, CoreInv, LockInv, WantsSync, LifecycleAssumption
    <2> QED
      BY <1>9, <2>1
  <1>12. CASE SyncFails(r)
    <2>1. WantsSync(r) /\ SyncReturns(r, FALSE)
      BY <1>12, LifecycleAssumption
         DEF SyncFails, CoreInv, LockInv, WantsSync, LifecycleAssumption
    <2> QED
      BY <1>9, <2>1
  <1>13. CASE WorkFails(r) \/ WorkCancelled(r) \/ WorkDone(r)
    BY <1>2, <1>13 DEF WorkFails, WorkCancelled, WorkDone, WorkEnds, CliAlive,
                       loginVars
  <1>14. CASE ReportSent(r) \/ ReportDropped(r)
    BY <1>3, <1>14 DEF ReportSent, ReportDropped, TaskReturns, loginVars
  <1> QED
    BY <1>4, <1>5, <1>6, <1>8, <1>10, <1>11, <1>12, <1>13, <1>14 DEF RequestNext

\* Starts and stops conserve permits: a stop ends their holders.
LEMMA ProcessPermits ==
    ASSUME CoreInv, ProcessNext
    PROVE  PermitInv'
  <1>1. CASE Boot \/ Shutdown
    <2>1. Exclusive' = Exclusive /\ Busy' = Busy /\ permits' = permits
      BY <1>1 DEF Boot, Shutdown, Exclusive, Running, Busy, loginVars, reqVars
    <2> QED
      BY <2>1, PermitsKept DEF CoreInv
  <1>2. CASE ProcessGone
    <2>1. Busy' = {} /\ permits' = N
      BY <1>2 DEF ProcessGone, Busy
    <2>2. Exclusive' = {}
      BY <1>2 DEF ProcessGone, Exclusive, Running, Working
    <2> QED
      BY <2>1, <2>2, AllPermitsReturned
  <1> QED
    BY <1>1, <1>2 DEF ProcessNext, Exit, Crash

\* Every step conserves permits.
LEMMA PermitStep ==
    ASSUME CoreInv, [Next]_vars
    PROVE  PermitInv'
  <1>1. CASE UNCHANGED vars
    <2>1. Exclusive' = Exclusive /\ Busy' = Busy /\ permits' = permits
      BY <1>1 DEF vars, Exclusive, Running, Busy, loginVars, reqVars
    <2> QED
      BY <2>1, PermitsKept DEF CoreInv
  <1> QED
    BY <1>1, AdminPermits, LoginPermits, RequestPermits, ProcessPermits DEF Next
-----------------------------------------------------------------------------
(* Working copies. *)

CopyInv == HeldInv /\ SlotInv /\ LoginCopyInv /\ LockInv

\* Steps that leave working copies and requests alone; a login may move on,
\* but not to a commit without a credential, nor out of its end.
LEMMA CopiesKept ==
    ASSUME CoreInv,
           UNCHANGED <<active, slot, files, req, held, cacheLock, captured>>,
           \A l \in Logins : task'[l] \in {"wantLock", "holdLock"}
                                => task[l] \in {"wantLock", "holdLock"},
           \A l \in Logins : task[l] \in {"closing", "done"}
                                => task'[l] \in {"closing", "done"}
    PROVE  CopyInv'
  BY DEF CopyInv, CoreInv, HeldInv, SlotInv, SlotMatchesStore, LoginCopyInv,
         LockInv

\* While one login or console call has all permits, no request has a copy.
LEMMA NoRequestNoCopy ==
    ASSUME CoreInv, Busy = {}
    PROVE  /\ \A r \in Requests : req[r] = "idle" /\ held[r] = None
           /\ cacheLock = None
  <1>1. \A r \in Requests : req[r] = "idle" /\ held[r] = None
    BY DEF CoreInv, Busy, HeldInv
  <1>2. cacheLock = None
    BY <1>1 DEF CoreInv, TypeOK, LockInv, Ending
  <1> QED
    BY <1>1, <1>2

\* Steps made while no request runs need to care for the slot only.
LEMMA CopiesWithoutRequests ==
    ASSUME CoreInv, Busy = {}, UNCHANGED <<req, held, cacheLock>>,
           SlotInv', LoginCopyInv'
    PROVE  CopyInv'
  <1>1. HeldInv'
    BY NoRequestNoCopy DEF HeldInv
  <1>2. LockInv'
    BY NoRequestNoCopy DEF LockInv
  <1> QED
    BY <1>1, <1>2 DEF CopyInv

\* Console calls keep every copy in use current.
LEMMA AdminCopies ==
    ASSUME CoreInv, NEW a \in Admins, AdminNext(a)
    PROVE  CopyInv'
  <1>0. PermitInv /\ task \in [Logins -> TaskStates]
    BY DEF CoreInv, TypeOK
  <1>1. CASE \/ StartQueue(a) \/ StartRefused(a) \/ StartAuthorize(a)
             \/ StartDropped(a) \/ AuthorizeFails(a) \/ LogoutBegin(a)
             \/ LogoutFails(a)
    <2>1. UNCHANGED <<active, slot, files, req, held, cacheLock, captured, task>>
      BY <1>1 DEF StartQueue, StartRefused, StartAuthorize, StartDropped,
                  AuthorizeFails, LogoutBegin, LogoutFails, LogoutEnds,
                  storeVars, copyVars, reqVars, syncVars, loginVars
    <2> QED
      BY <2>1, CopiesKept
  <1>2. ASSUME NEW l \in Logins, AuthorizeOk(a, l)
        PROVE  CopyInv'
    <2>1. UNCHANGED <<active, slot, files, req, held, cacheLock, captured>>
      BY <1>2 DEF AuthorizeOk, storeVars, copyVars, reqVars, syncVars
    <2>2. task[l] = "none" /\ task' = [task EXCEPT ![l] = "waitCode"]
      BY <1>2 DEF AuthorizeOk
    <2> QED
      BY <1>0, <2>1, <2>2, CopiesKept
  <1>3. CASE LogoutFinish(a)
    <2>1. Busy = {}
      BY <1>0, <1>3, HolderIsAlone DEF LogoutFinish, LogoutEnds, Exclusive
    <2>2. UNCHANGED <<req, held, cacheLock, task>> /\ slot' = None
      BY <1>3 DEF LogoutFinish, LogoutEnds, reqVars, loginVars
    <2>3. SlotInv'
      BY <2>2, LifecycleAssumption
         DEF SlotInv, SlotMatchesStore, LifecycleAssumption, Caches
    <2>4. LoginCopyInv'
      <3>1. \A l \in Logins : task'[l] \in Working \cup {"closing"}
                                  => files'[l] = files[l]
        BY <1>3, UnusedDeleted DEF LogoutFinish, CoreInv, TypeOK
      <3> QED
        BY <2>2, <3>1 DEF CoreInv, LoginCopyInv, Working
    <2> QED
      BY <2>1, <2>2, <2>3, <2>4, CopiesWithoutRequests
  <1> QED
    BY <1>1, <1>2, <1>3 DEF AdminNext

\* So do login tasks, the commit included.
LEMMA LoginCopies ==
    ASSUME CoreInv, NEW l \in Logins, LoginNext(l)
    PROVE  CopyInv'
  <1>0. PermitInv /\ task \in [Logins -> TaskStates] /\ l \in Caches
        /\ files \in [Caches -> Credentials \cup {None}]
    BY DEF CoreInv, TypeOK, Caches
  <1>1. ASSUME UNCHANGED <<active, slot, files, req, held, cacheLock, captured>>,
               \/ task' = task
               \/ \E s \in {"callback", "closing"} : task' = [task EXCEPT ![l] = s]
               \/ /\ task[l] = "wantLock"
                  /\ task' = [task EXCEPT ![l] = "holdLock"],
               task' # task => task[l] \in Working
        PROVE  CopyInv'
    <2>1. \A k \in Logins : /\ task'[k] \in {"wantLock", "holdLock"}
                                  => task[k] \in {"wantLock", "holdLock"}
                            /\ task[k] \in {"closing", "done"}
                                  => task'[k] \in {"closing", "done"}
      BY <1>0, <1>1 DEF Working
    <2> QED
      BY <1>1, <2>1, CopiesKept
  <1>2. CASE SubmitCode(l) \/ CancelLogin(l) \/ ReceiveCode(l) \/ TakeLock(l)
    BY <1>1, <1>2 DEF SubmitCode, CancelLogin, ReceiveCode, TakeLock, Working,
                      storeVars, copyVars, reqVars, syncVars
  <1>3. CASE \/ CallbackFails(l) \/ CommitForbidden(l) \/ CommitFails(l)
             \/ LoginCancelled(l) \/ LoginExpired(l)
    <2>1. UNCHANGED <<active, slot, files, req, held, cacheLock, captured>>
      BY <1>3 DEF CallbackFails, CommitForbidden, CommitFails, LoginCancelled,
                  LoginExpired, TaskEnds, LoginUnchanged, storeVars, reqVars
    <2>2. task' = [task EXCEPT ![l] = "closing"] /\ task[l] \in Working
      BY <1>3 DEF CallbackFails, CommitForbidden, CommitFails, LoginCancelled,
                  LoginExpired, TaskEnds, Working
    <2> QED
      BY <1>1, <2>1, <2>2
  <1>4. ASSUME Running(l)
        PROVE  Busy = {}
    BY <1>0, <1>4, HolderIsAlone DEF Exclusive
  <1>5. ASSUME NEW c \in Credentials, CallbackOk(l, c)
        PROVE  CopyInv'
    <2>1. Busy = {} /\ UNCHANGED <<req, held, cacheLock>>
      BY <1>4, <1>5 DEF CallbackOk, Running, Working, reqVars, syncVars
    <2>2. slot # l
      BY <1>5 DEF CallbackOk, CoreInv, SlotInv
    <2>3. SlotInv'
      BY <1>0, <1>5, <2>2
         DEF CallbackOk, CoreInv, TypeOK, SlotInv, SlotMatchesStore, storeVars
    <2>4. LoginCopyInv'
      BY <1>0, <1>5, StoreAssumption
         DEF CallbackOk, CoreInv, LoginCopyInv, StoreAssumption, Caches
    <2> QED
      BY <2>1, <2>3, <2>4, CopiesWithoutRequests
  <1>6. ASSUME files' = DeleteUnused(files)
        PROVE  /\ slot' \in Caches => files'[slot'] = files[slot']
               /\ \A k \in Logins : task'[k] \in Working \cup {"closing"}
                                        => files'[k] = files[k]
    BY <1>0, <1>6, UnusedDeleted
  <1>7. CASE Commit(l)
    <2>1. Busy = {} /\ UNCHANGED <<req, held, cacheLock>>
      BY <1>4, <1>7 DEF Commit, CommitEffects, TaskEnds, Running, Working, reqVars
    <2>2. /\ files[l] \in Credentials /\ active' = files[l] /\ slot' = l
          /\ task' = [task EXCEPT ![l] = "closing"]
      BY <1>0, <1>7 DEF Commit, CommitEffects, Save, TaskEnds, CoreInv, LoginCopyInv
    <2>3. files' = DeleteUnused(files)
      BY <1>7 DEF Commit, CommitEffects
    <2>4. SlotInv'
      BY <1>0, <1>6, <2>2, <2>3, StoreAssumption
         DEF SlotInv, SlotMatchesStore, StoreAssumption
    <2>5. LoginCopyInv'
      BY <1>0, <1>6, <2>2, <2>3 DEF CoreInv, LoginCopyInv, Working
    <2> QED
      BY <2>1, <2>4, <2>5, CopiesWithoutRequests
  <1>8. CASE FinalStatus(l)
    <2>1. Busy = {} /\ UNCHANGED <<req, held, cacheLock>>
      BY <1>4, <1>8 DEF FinalStatus, Running, Working, reqVars, syncVars
    <2>2. /\ task' = [task EXCEPT ![l] = "done"]
          /\ active' = active /\ slot' = slot /\ files' = DeleteUnused(files)
      BY <1>8 DEF FinalStatus, storeVars
    <2>3. SlotInv'
      BY <1>0, <1>6, <2>2
         DEF CoreInv, TypeOK, SlotInv, SlotMatchesStore
    <2>4. LoginCopyInv'
      BY <1>0, <1>6, <2>2 DEF CoreInv, LoginCopyInv, Working
    <2> QED
      BY <2>1, <2>3, <2>4, CopiesWithoutRequests
  <1> QED
    BY <1>2, <1>3, <1>5, <1>7, <1>8 DEF LoginNext
\* A step of one request that keeps every working copy, the slot and the lock.
LEMMA RequestMoves ==
    ASSUME CoreInv, NEW r \in Requests, NEW p \in ReqStates,
           UNCHANGED <<active, slot, files, task, cacheLock, captured>>,
           cacheLock # r,
           req' = [req EXCEPT ![r] = p],
           \/ p \in {"idle", "spawned"} /\ held' = [held EXCEPT ![r] = None]
           \/ p \notin {"idle", "spawned"} /\ held' = held
                                           /\ held[r] # None
    PROVE  CopyInv'
  <1>0. req \in [Requests -> ReqStates] /\ held \in [Requests -> Caches \cup {None}]
        /\ cacheLock \in Requests \cup {None}
    BY DEF CoreInv, TypeOK
  <1>1. HeldInv'
    BY <1>0 DEF CoreInv, HeldInv
  <1>2. SlotInv' /\ LoginCopyInv'
    BY DEF CoreInv, SlotInv, SlotMatchesStore, LoginCopyInv
  <1>3. LockInv'
    BY <1>0 DEF CoreInv, LockInv
  <1> QED
    BY <1>1, <1>2, <1>3 DEF CopyInv

\* The end of a sync: the lock is released and the task goes on.
LEMMA SyncCopies ==
    ASSUME CoreInv, NEW r \in Requests, NEW ok \in BOOLEAN,
           WantsSync(r), SyncReturns(r, ok), SlotInv'
    PROVE  CopyInv'
  <1>0. req \in [Requests -> ReqStates] /\ held \in [Requests -> Caches \cup {None}]
        /\ held[r] # None
    BY DEF CoreInv, TypeOK, HeldInv, WantsSync, Ending
  <1>1. AfterSync(req[r], ok) # "spawned"
    BY DEF AfterSync, WantsSync, Ending
  <1>2. HeldInv'
    <2>1. CASE AfterSync(req[r], ok) = "idle"
      BY <1>0, <2>1 DEF CoreInv, HeldInv, SyncReturns, copyVars
    <2>2. CASE AfterSync(req[r], ok) # "idle"
      BY <1>0, <1>1, <2>2 DEF CoreInv, HeldInv, SyncReturns, copyVars
    <2> QED
      BY <2>1, <2>2
  <1>3. LoginCopyInv' /\ LockInv'
    BY DEF CoreInv, LoginCopyInv, LockInv, SyncReturns, copyVars, loginVars
  <1> QED
    BY <1>2, <1>3 DEF CopyInv

\* So do requests.
LEMMA RequestCopies ==
    ASSUME CoreInv, NEW r \in Requests, RequestNext(r)
    PROVE  CopyInv'
  <1>0. /\ req \in [Requests -> ReqStates]
        /\ held \in [Requests -> Caches \cup {None}]
        /\ files \in [Caches -> Credentials \cup {None}]
        /\ active \in Credentials \cup {None}
        /\ cacheLock \in Requests \cup {None}
        /\ None \notin Requests \cup Caches /\ None \notin Credentials
    BY StoreAssumption, LifecycleAssumption
       DEF CoreInv, TypeOK, StoreTypeOK, StoreAssumption, LifecycleAssumption
  <1>1. ASSUME req[r] \in {"idle", "spawned", "reporting"}
        PROVE  cacheLock # r
    BY <1>1, <1>0 DEF CoreInv, LockInv, Ending
  <1>2. CASE Admit(r) \/ GetCacheFails(r)
    <2>1. cacheLock # r /\ held[r] = None
      BY <1>1, <1>2 DEF Admit, GetCacheFails, CoreInv, HeldInv
    <2>2. held' = [held EXCEPT ![r] = None]
      BY <1>0, <1>2, <2>1 DEF Admit, GetCacheFails, reqVars
    <2> QED
      BY <1>2, <2>1, <2>2, RequestMoves
         DEF Admit, GetCacheFails, ReqStates, storeVars, copyVars, loginVars,
             syncVars
  <1>3. CASE GetCache(r)
    <2>1. CASE slot = None
      <3>1. /\ slot' = Restored /\ Restored \in Caches /\ active # None
            /\ files' = [files EXCEPT ![Restored] = active]
            /\ active' = active /\ task' = task
        BY <1>3, <2>1 DEF GetCache, Caches, storeVars, loginVars
      <3>2. SlotInv'
        BY <1>0, <3>1, LifecycleAssumption
           DEF SlotInv, SlotMatchesStore, LifecycleAssumption
      <3>3. \A q \in Requests : held[q] = None
        BY <2>1 DEF CoreInv, HeldInv
      <3>4. HeldInv'
        BY <1>0, <1>3, <3>1, <3>3 DEF GetCache, CoreInv, HeldInv
      <3>5. LoginCopyInv' /\ LockInv'
        BY <1>0, <1>3, <3>1
           DEF GetCache, CoreInv, LoginCopyInv, LockInv, syncVars
      <3> QED
        BY <3>2, <3>4, <3>5 DEF CopyInv
    <2>2. CASE slot # None
      <3>1. UNCHANGED <<active, slot, files, task, cacheLock>>
        BY <1>3, <2>2 DEF GetCache, storeVars, loginVars, syncVars
      <3>2. HeldInv'
        BY <1>0, <1>3, <2>2, <3>1 DEF GetCache, CoreInv, HeldInv
      <3>3. SlotInv' /\ LoginCopyInv' /\ LockInv'
        BY <1>3, <3>1
           DEF GetCache, CoreInv, SlotInv, SlotMatchesStore, LoginCopyInv, LockInv
      <3> QED
        BY <3>2, <3>3 DEF CopyInv
    <2> QED
      BY <2>1, <2>2
  <1>4. ASSUME NEW id \in Accounts \cup {None}, Rotate(r, id)
        PROVE  CopyInv'
    <2>1. /\ held[r] = slot /\ slot \in Caches /\ files[slot] \in Credentials
      BY <1>4, HeldCopy DEF Rotate, CliAlive
    <2>2. /\ UNCHANGED <<active, slot, task, req, held, cacheLock, captured>>
          /\ files' = [files EXCEPT ![slot] =
                          [files[slot] EXCEPT !.token = clock + 1, !.id = id]]
          /\ files[slot].id # None => id = files[slot].id
      BY <1>4, <2>1 DEF Rotate, storeVars, loginVars, reqVars, syncVars
    <2>3. /\ files'[slot] = [files[slot] EXCEPT !.token = clock + 1, !.id = id]
          /\ \A k \in Caches : k # slot => files'[k] = files[k]
      BY <1>0, <2>1, <2>2
    <2>4. files'[slot] # None /\ files'[slot].id = id
      <3>1. files'[slot] \in Credentials
        BY <2>1, <2>2, <2>3, <1>4, TypeStep, StoreAssumption
           DEF Next, RequestNext, TypeOK, StoreAssumption, Rotate, Credentials
      <3> QED
        BY <1>0, <2>1, <2>3, <3>1 DEF Credentials
    <2>5. HeldInv'
      BY <2>2 DEF CoreInv, HeldInv
    <2>6. SlotInv'
      BY <2>1, <2>2, <2>4 DEF CoreInv, SlotInv, SlotMatchesStore
    <2>7. LoginCopyInv'
      BY <2>2, <2>3, <2>4 DEF CoreInv, LoginCopyInv, Caches
    <2>8. LockInv'
      BY <2>2, <2>4 DEF CoreInv, LockInv
    <2> QED
      BY <2>5, <2>6, <2>7, <2>8 DEF CopyInv
  <1>5. ASSUME WantsSync(r)
        PROVE  req[r] \notin {"idle", "spawned"}
    BY <1>5 DEF WantsSync, Ending
  <1>6. CASE SyncCapture(r)
    <2>1. held[r] = slot /\ files[slot] \in Credentials /\ active \in Credentials
      BY <1>5, <1>6, HeldCopy DEF SyncCapture
    <2>2. /\ UNCHANGED <<active, slot, files, task, req, held>>
          /\ cacheLock' = r /\ captured' = files[slot]
      BY <1>0, <1>6, <2>1
         DEF SyncCapture, storeVars, copyVars, loginVars, reqVars
    <2>3. HeldInv' /\ SlotInv' /\ LoginCopyInv'
      BY <2>2 DEF CoreInv, HeldInv, SlotInv, SlotMatchesStore, LoginCopyInv
    <2>4. LockInv'
      BY <1>0, <1>6, <2>1, <2>2 DEF LockInv, SyncCapture, WantsSync
    <2> QED
      BY <2>3, <2>4 DEF CopyInv
  <1>7. CASE SyncSave(r)
    <2>1. WantsSync(r) /\ SyncReturns(r, TRUE)
      BY <1>0, <1>7 DEF SyncSave, CoreInv, LockInv, WantsSync
    <2>2. SlotInv'
      <3>1. active' = captured /\ UNCHANGED <<slot, files, task>>
        BY <1>7, <2>1 DEF SyncSave, Save, SyncReturns, copyVars, loginVars
      <3> QED
        BY <1>0, <1>7, <3>1
           DEF SyncSave, CoreInv, LockInv, SlotInv, SlotMatchesStore
    <2> QED
      BY <2>1, <2>2, SyncCopies
  <1>8. CASE SyncFails(r)
    <2>1. WantsSync(r) /\ SyncReturns(r, FALSE)
      BY <1>0, <1>8 DEF SyncFails, CoreInv, LockInv, WantsSync
    <2>2. SlotInv'
      BY <1>8, <2>1
         DEF SyncFails, SyncReturns, copyVars, loginVars, CoreInv, SlotInv,
             SlotMatchesStore
    <2> QED
      BY <2>1, <2>2, SyncCopies
  <1>9. CASE WorkFails(r) \/ WorkCancelled(r) \/ WorkDone(r)
    <2>1. PICK p \in Ending : WorkEnds(r, p)
      BY <1>9 DEF WorkFails, WorkCancelled, WorkDone, Ending
    <2>2. held[r] # None
      BY <2>1 DEF WorkEnds, CliAlive, CoreInv, HeldInv
    <2>3. p \in ReqStates /\ p \notin {"idle", "spawned"}
      BY DEF Ending, ReqStates
    <2>4. UNCHANGED <<active, slot, files, task, cacheLock, captured, held>>
      BY <2>1 DEF WorkEnds, storeVars, copyVars, loginVars, syncVars
    <2> QED
      BY <2>1, <2>2, <2>3, <2>4, RequestMoves DEF WorkEnds
  <1>10. CASE ReportSent(r) \/ ReportDropped(r)
    BY <1>1, <1>10, RequestMoves
       DEF ReportSent, ReportDropped, TaskReturns, ReqStates, storeVars,
           copyVars, loginVars, syncVars
  <1>11. CASE Leave(r)
    BY <1>11, CopiesKept DEF Leave, storeVars, copyVars, loginVars, syncVars
  <1> QED
    BY <1>2, <1>3, <1>4, <1>6, <1>7, <1>8, <1>9, <1>10, <1>11 DEF RequestNext

\* So does the process.
LEMMA ProcessCopies ==
    ASSUME CoreInv, ProcessNext
    PROVE  CopyInv'
  <1>1. CASE Boot \/ Shutdown
    <2>1. UNCHANGED <<active, slot, files, req, held, cacheLock, captured, task>>
      BY <1>1 DEF Boot, Open, Shutdown, storeVars, copyVars, reqVars, syncVars,
                  loginVars
    <2> QED
      BY <2>1, CopiesKept
  <1>2. CASE ProcessGone
    <2>1. HeldInv' /\ LockInv'
      BY <1>2 DEF ProcessGone, HeldInv, LockInv
    <2>2. SlotInv' /\ LoginCopyInv'
      BY <1>2, LifecycleAssumption
         DEF ProcessGone, SlotInv, SlotMatchesStore, LoginCopyInv,
             LifecycleAssumption, Caches
    <2> QED
      BY <2>1, <2>2 DEF CopyInv
  <1> QED
    BY <1>1, <1>2 DEF ProcessNext, Exit, Crash

\* So does every step.
LEMMA CopyStep ==
    ASSUME CoreInv, [Next]_vars
    PROVE  CopyInv'
  <1>1. CASE UNCHANGED vars
    BY <1>1, CopiesKept DEF vars, storeVars, copyVars, reqVars, syncVars, loginVars
  <1> QED
    BY <1>1, AdminCopies, LoginCopies, RequestCopies, ProcessCopies DEF Next

-----------------------------------------------------------------------------
(* The theorems. *)

\* The whole invariant holds at the start.
LEMMA CoreInitially == LifecycleInit => CoreInv
  <1> SUFFICES ASSUME LifecycleInit
               PROVE  CoreInv
    OBVIOUS
  <1>1. TypeOK
    BY TypeInitially
  <1>2. PermitInv
    <2>1. Busy = {} /\ Exclusive = {}
      BY DEF LifecycleInit, Busy, Exclusive, Running, Working
    <2> QED
      BY <2>1, FS_EmptySet, LifecycleAssumption
         DEF LifecycleInit, PermitInv, LifecycleAssumption
  <1>3. HeldInv /\ SlotInv /\ LoginCopyInv /\ LockInv
    BY LifecycleAssumption
       DEF LifecycleInit, HeldInv, SlotInv, SlotMatchesStore, LoginCopyInv,
           LockInv, LifecycleAssumption, Caches
  <1> QED
    BY <1>1, <1>2, <1>3 DEF CoreInv

\* Types, permits and working copies stay consistent in every behaviour.
THEOREM CoreInvariant == Spec => []CoreInv
  <1>1. CoreInv /\ [Next]_vars => CoreInv'
    BY TypeStep, PermitStep, CopyStep DEF CoreInv, CopyInv
  <1> QED
    BY <1>1, CoreInitially, PTL DEF Spec

\* Every variable of the bridge keeps its type (admin.rs, oauth.rs, rpc.rs).
THEOREM TypeCorrect == Spec => []TypeOK
  <1>1. CoreInv => TypeOK
    BY DEF CoreInv
  <1> QED
    BY <1>1, CoreInvariant, PTL

\* No path of a handler or a task loses a permit, and a change of account
\* excludes every request and every other change (AppState.permits).
THEOREM PermitsAreConserved == Spec => []PermitsConserved
  <1>1. CoreInv => PermitsConserved
    <2> SUFFICES ASSUME CoreInv
                 PROVE  PermitsConserved
      OBVIOUS
    <2>0. N \in Nat /\ permits \in Nat
      BY LifecycleAssumption DEF LifecycleAssumption, CoreInv, TypeOK
    <2>1. CASE Exclusive = {} /\ permits + Cardinality(Busy) = N
      BY <2>0, <2>1, BusyFinite, FS_EmptySet DEF PermitsConserved
    <2>2. ASSUME NEW h, Exclusive = {h}, Busy = {}, permits = 0
          PROVE  PermitsConserved
      <3>1. Cardinality(Exclusive) = 1
        BY <2>2, FS_Singleton
      <3>2. Cardinality(Busy) = 0
        BY <2>2, FS_EmptySet
      <3> QED
        BY <2>0, <2>2, <3>1, <3>2 DEF PermitsConserved
    <2> QED
      BY <2>1, <2>2 DEF CoreInv, PermitInv
  <1> QED
    BY <1>1, CoreInvariant, PTL

\* The copy a request obtained is the slot's for as long as the request runs:
\* no login, logout or rebuild replaces it underneath (oauth.rs).
THEOREM CopiesStayCurrent == Spec => []WorkingCopyIsCurrent
  <1>1. CoreInv => WorkingCopyIsCurrent
    BY DEF CoreInv, HeldInv, WorkingCopyIsCurrent
  <1> QED
    BY <1>1, CoreInvariant, PTL

\* The copy in use belongs to the account that is signed in (oauth.rs).
THEOREM SlotAlwaysMatches == Spec => []SlotMatchesStore
  <1>1. CoreInv => SlotMatchesStore
    BY DEF CoreInv, SlotInv
  <1> QED
    BY <1>1, CoreInvariant, PTL

-----------------------------------------------------------------------------
(* 2. Logins. *)

\* Who owns the operation mutex between two steps.
OwnerInv ==
    /\ \A a \in Admins : adm[a] \in {"authorizing", "loggingOut"} => opLock = a
    /\ \A l \in Logins : task[l] = "holdLock" => opLock = l /\ l \notin cancel

\* A login has committed just when its select ended with success.
StageInv == \A l \in Logins :
    /\ task[l] \in Working \cup {"none"} => l \notin committed
    /\ task[l] = "closing" => /\ result[l] \in Outcomes
                              /\ result[l] = "succeeded" <=> l \in committed
    /\ ~(l \in cancel /\ l \in committed)

\* The record of the latest login.
RecordInv == opId # None =>
    /\ opStatus = "succeeded" <=> opId \in committed
    /\ task[opId] = "done" => opStatus = result[opId] /\ opStatus \in Outcomes
    /\ opId \in cancel => opStatus \in {"cancelled", "failed", "expired"}

LoginInv == OwnerInv /\ StageInv /\ RecordInv

-----------------------------------------------------------------------------
\* What requests and most steps of the process do: nothing to logins.
LEMMA LoginInvKept ==
    ASSUME LoginInv, UNCHANGED <<opVars, loginVars, adm>>
    PROVE  LoginInv'
  BY DEF LoginInv, OwnerInv, StageInv, RecordInv, opVars, loginVars

\* Console calls keep the story consistent.
LEMMA AdminOutcomes ==
    ASSUME TypeOK, LoginInv, NEW a \in Admins, AdminNext(a)
    PROVE  LoginInv'
  <1> USE LifecycleAssumption
      DEF LoginInv, TypeOK, LifecycleAssumption, Caches, opVars, loginVars
  <1>1. CASE \/ StartQueue(a) \/ StartRefused(a) \/ StartDropped(a)
             \/ StartAuthorize(a) \/ LogoutBegin(a)
    <2>1. StageInv' /\ RecordInv'
      BY <1>1 DEF StartQueue, StartRefused, StartDropped, StartAuthorize,
                  LogoutBegin, StageInv, RecordInv
    <2>2. OwnerInv'
      BY <1>1 DEF StartQueue, StartRefused, StartDropped, StartAuthorize,
                  LogoutBegin, OwnerInv
    <2> QED
      BY <2>1, <2>2
  <1>2. CASE AuthorizeFails(a) \/ LogoutFinish(a) \/ LogoutFails(a)
    <2>1. StageInv' /\ RecordInv'
      BY <1>2 DEF AuthorizeFails, LogoutFinish, LogoutFails, LogoutEnds,
                  StageInv, RecordInv
    <2>2. OwnerInv'
      BY <1>2 DEF AuthorizeFails, LogoutFinish, LogoutFails, LogoutEnds, OwnerInv
    <2> QED
      BY <2>1, <2>2
  <1>3. ASSUME NEW l \in Logins, AuthorizeOk(a, l)
        PROVE  LoginInv'
    <2>1. OwnerInv'
      BY <1>3 DEF AuthorizeOk, OwnerInv
    <2>2. StageInv'
      BY <1>3 DEF AuthorizeOk, StageInv, Running, Working
    <2>3. RecordInv'
      BY <1>3 DEF AuthorizeOk, RecordInv, Running, Working
    <2> QED
      BY <2>1, <2>2, <2>3
  <1> QED
    BY <1>1, <1>2, <1>3 DEF AdminNext

\* The end of a select that committed nothing.
LEMMA UncommittedEnd ==
    ASSUME TypeOK, LoginInv, NEW l \in Logins, task[l] \in Working,
           NEW o \in {"failed", "cancelled", "expired"},
           TaskEnds(l, o), LoginUnchanged
    PROVE  LoginInv'
  <1> USE DEF LoginInv, TypeOK, TaskEnds, LoginUnchanged
  <1>1. OwnerInv'
    BY LifecycleAssumption DEF OwnerInv, LifecycleAssumption
  <1>2. StageInv'
    BY DEF StageInv, Working, Outcomes
  <1>3. RecordInv'
    BY DEF RecordInv, StageInv, Working
  <1> QED
    BY <1>1, <1>2, <1>3

\* So do the steps of login tasks and the calls about them.
LEMMA LoginOutcomes ==
    ASSUME TypeOK, LoginInv, NEW l \in Logins, LoginNext(l)
    PROVE  LoginInv'
  <1> USE LifecycleAssumption
      DEF LoginInv, TypeOK, LifecycleAssumption, Caches, opVars, loginVars
  <1>1. CASE SubmitCode(l)
    BY <1>1 DEF SubmitCode, OwnerInv, StageInv, RecordInv, Outcomes
  <1>2. CASE CancelLogin(l)
    <2>1. OwnerInv'
      BY <1>2 DEF CancelLogin, OwnerInv
    <2>2. StageInv'
      BY <1>2 DEF CancelLogin, StageInv, RecordInv, OpActive
    <2>3. RecordInv'
      BY <1>2 DEF CancelLogin, RecordInv, OpActive, Outcomes
    <2> QED
      BY <2>1, <2>2, <2>3
  <1>3. CASE ReceiveCode(l) \/ (\E c \in Credentials : CallbackOk(l, c))
    BY <1>3 DEF ReceiveCode, CallbackOk, OwnerInv, StageInv, RecordInv, Working
  <1>4. CASE TakeLock(l)
    BY <1>4 DEF TakeLock, LoginCancelRequested, OwnerInv, StageInv, RecordInv, Working
  <1>5. CASE Commit(l)
    <2>1. task[l] = "holdLock" /\ TaskEnds(l, "succeeded")
          /\ committed' = committed \cup {l}
          /\ opStatus' = IF opId = l THEN "succeeded" ELSE opStatus
      BY <1>5 DEF Commit, CommitEffects
    <2>2. OwnerInv'
      BY <2>1 DEF TaskEnds, OwnerInv
    <2>3. StageInv'
      BY <2>1 DEF TaskEnds, StageInv, OwnerInv, Working, Outcomes
    <2>4. RecordInv'
      BY <2>1 DEF TaskEnds, RecordInv, OwnerInv
    <2> QED
      BY <2>2, <2>3, <2>4
  <1>6. CASE \/ CallbackFails(l) \/ CommitForbidden(l) \/ CommitFails(l)
             \/ LoginCancelled(l) \/ LoginExpired(l)
    BY <1>6, UncommittedEnd DEF CallbackFails, CommitForbidden, CommitFails,
                                LoginCancelled, LoginExpired, Working
  <1>7. CASE FinalStatus(l)
    <2>1. OwnerInv'
      BY <1>7 DEF FinalStatus, OwnerInv
    <2>2. StageInv'
      BY <1>7 DEF FinalStatus, StageInv, Working
    <2>3. RecordInv'
      BY <1>7 DEF FinalStatus, RecordInv, StageInv, Outcomes
    <2> QED
      BY <2>1, <2>2, <2>3
  <1> QED
    BY <1>1, <1>2, <1>3, <1>4, <1>5, <1>6, <1>7 DEF LoginNext

\* Requests touch no login.
LEMMA RequestOutcomes ==
    ASSUME LoginInv, NEW r \in Requests, RequestNext(r)
    PROVE  LoginInv'
  <1>1. UNCHANGED <<opVars, loginVars, adm>>
    BY DEF RequestNext, Admit, GetCache, GetCacheFails, Rotate, SyncCapture,
           SyncSave, SyncFails, SyncReturns, WorkFails, WorkCancelled, WorkDone,
           WorkEnds, ReportSent, ReportDropped, TaskReturns, Leave
  <1> QED
    BY <1>1, LoginInvKept

\* A stop ends every login; a start begins with none.
LEMMA ProcessOutcomes ==
    ASSUME TypeOK, LoginInv, ProcessNext
    PROVE  LoginInv'
  <1>1. CASE Boot \/ Shutdown
    BY <1>1, LoginInvKept DEF Boot, Shutdown
  <1>2. CASE ProcessGone
    BY <1>2 DEF ProcessGone, LoginInv, OwnerInv, StageInv, RecordInv, Working
  <1> QED
    BY <1>1, <1>2 DEF ProcessNext, Exit, Crash

\* Before the first start there is no login.
LEMMA OutcomesInitially == LifecycleInit => LoginInv
  BY LifecycleAssumption
     DEF LifecycleInit, LoginInv, OwnerInv, StageInv, RecordInv

-----------------------------------------------------------------------------
\* Mutex, tasks and record of the logins agree in every behaviour.
THEOREM LoginInvariant == Spec => []LoginInv
  <1>1. TypeOK /\ LoginInv /\ [Next]_vars => LoginInv'
    <2> SUFFICES ASSUME TypeOK, LoginInv, [Next]_vars
                 PROVE  LoginInv'
      OBVIOUS
    <2>1. CASE UNCHANGED vars
      BY <2>1, LoginInvKept DEF vars
    <2> QED
      BY <2>1, AdminOutcomes, LoginOutcomes, RequestOutcomes, ProcessOutcomes
         DEF Next
  <1> QED
    BY <1>1, OutcomesInitially, TypeCorrect, PTL DEF Spec

\* A login whose cancellation was accepted never becomes the account of the
\* instance (start_login and cancel_login of admin.rs).
THEOREM CancelledNeverCommits == Spec => []CancelStopsCommit
  <1>1. TypeOK /\ LoginInv => CancelStopsCommit
    BY DEF TypeOK, LoginInv, StageInv, CancelStopsCommit
  <1> QED
    BY <1>1, LoginInvariant, TypeCorrect, PTL

\* The status the console shows is how the login really ended (start_login,
\* cancel_login and submit_code of admin.rs).
THEOREM OutcomeIsReported == Spec => []ReportedOutcome
  <1>1. LoginInv => ReportedOutcome
    BY DEF LoginInv, RecordInv, ReportedOutcome
  <1> QED
    BY <1>1, LoginInvariant, PTL

-----------------------------------------------------------------------------
(* 3. The bridge and its database. *)

\* Steps that touch neither record of the database.
LEMMA AdminKeepsStore ==
    ASSUME NEW a \in Admins, AdminNext(a), ~LogoutFinish(a)
    PROVE  UNCHANGED storeVars
  BY DEF AdminNext, StartQueue, StartRefused, StartAuthorize, StartDropped,
         AuthorizeFails, AuthorizeOk, LogoutBegin, LogoutFails

\* Of a login's steps only the commit writes to the database.
LEMMA LoginKeepsStore ==
    ASSUME NEW l \in Logins, LoginNext(l), ~Commit(l)
    PROVE  UNCHANGED storeVars
  BY DEF LoginNext, SubmitCode, CancelLogin, ReceiveCode, CallbackOk,
         CallbackFails, TakeLock, CommitForbidden, CommitFails, LoginCancelled,
         LoginExpired, FinalStatus, LoginUnchanged

\* Of a request's steps only the save of a sync does.
LEMMA RequestKeepsStore ==
    ASSUME NEW r \in Requests, RequestNext(r), ~SyncSave(r)
    PROVE  UNCHANGED storeVars
  BY DEF RequestNext, Admit, GetCache, GetCacheFails, Rotate, SyncCapture,
         SyncFails, SyncReturns, WorkFails, WorkCancelled, WorkDone, WorkEnds,
         ReportSent, ReportDropped, TaskReturns, Leave, storeVars

\* What a commit and a sync save has the type of a credential.
LEMMA SavedIsCredential ==
    ASSUME CoreInv
    PROVE  /\ \A l \in Logins : Commit(l) => files[l] \in Credentials
           /\ \A r \in Requests : SyncSave(r) => captured \in Credentials
  <1>1. ASSUME NEW l \in Logins, Commit(l)
        PROVE  files[l] \in Credentials
    BY <1>1 DEF CoreInv, TypeOK, LoginCopyInv, Commit, CommitEffects, Caches
  <1>2. ASSUME NEW r \in Requests, SyncSave(r)
        PROVE  captured \in Credentials
    BY <1>2, LifecycleAssumption
       DEF CoreInv, TypeOK, LockInv, SyncSave, LifecycleAssumption
  <1> QED
    BY <1>1, <1>2

\* Every step of the bridge is one transaction or leaves the database alone.
LEMMA BridgeStepIsStoreStep ==
    ASSUME CoreInv, [Next]_vars
    PROVE  [StoreNext]_storeVars
  <1>1. CASE UNCHANGED vars
    BY <1>1 DEF vars
  <1>2. ASSUME NEW a \in Admins, AdminNext(a)
        PROVE  [StoreNext]_storeVars
    BY <1>2, AdminKeepsStore DEF LogoutFinish, StoreNext
  <1>3. ASSUME NEW l \in Logins, LoginNext(l)
        PROVE  [StoreNext]_storeVars
    BY <1>3, LoginKeepsStore, SavedIsCredential DEF Commit, StoreNext
  <1>4. ASSUME NEW r \in Requests, RequestNext(r)
        PROVE  [StoreNext]_storeVars
    BY <1>4, RequestKeepsStore, SavedIsCredential DEF SyncSave, StoreNext
  <1>5. CASE ProcessNext
    BY <1>5 DEF ProcessNext, Boot, Shutdown, Exit, Crash, ProcessGone, StoreNext
  <1> QED
    BY <1>1, <1>2, <1>3, <1>4, <1>5 DEF Next

\* What the bridge does to the database is a behaviour of CredentialStore.
LEMMA BridgeRunsStore == Spec => StoreSpec
  <1>1. LifecycleInit => StoreInit
    BY DEF LifecycleInit
  <1>2. CoreInv /\ [Next]_vars => [StoreNext]_storeVars
    BY BridgeStepIsStoreStep
  <1> QED
    BY <1>1, <1>2, CoreInvariant, PTL DEF Spec, StoreSpec

\* The bridge as a whole serves one account for life: its steps map to those
\* of OneAccount, through any interleaving of logins, refreshes, logouts,
\* restarts and crashes.
THEOREM BridgeServesOneAccount == Spec => OneAccountForLife /\ BindingPermanent
  BY BridgeRunsStore, StoreImplementsOneAccount, BindingIsPermanent, PTL

-----------------------------------------------------------------------------
\* While a login runs, a change of the credential is its own commit.
LEMMA OnlyOwnCommitWrites ==
    ASSUME CoreInv, LoginInv, [Next]_vars,
           NEW l \in Logins, Running(l), active' # active
    PROVE  committed' = committed \cup {l} /\ l \notin committed \cup cancel
  <1>1. PermitInv /\ l \in Exclusive
    BY DEF CoreInv, Exclusive
  <1>2. Exclusive = {l} /\ Busy = {}
    BY <1>1, HolderIsAlone
  <1>3. ~UNCHANGED vars
    BY DEF vars, storeVars
  <1>4. ASSUME NEW a \in Admins, AdminNext(a)
        PROVE  FALSE
    <2>1. LogoutFinish(a)
      BY <1>4, AdminKeepsStore DEF storeVars
    <2>2. a \in Exclusive
      BY <2>1 DEF LogoutFinish, LogoutEnds, Exclusive
    <2> QED
      BY <1>2, <2>2, LifecycleAssumption DEF LifecycleAssumption
  <1>5. ASSUME NEW k \in Logins, LoginNext(k)
        PROVE  committed' = committed \cup {l} /\ l \notin committed \cup cancel
    <2>1. Commit(k)
      BY <1>5, LoginKeepsStore DEF storeVars
    <2>2. task[k] = "holdLock" /\ committed' = committed \cup {k}
      BY <2>1 DEF Commit, CommitEffects
    <2>3. k = l
      BY <1>2, <2>2 DEF Exclusive, Running, Working
    <2> QED
      BY <2>2, <2>3 DEF LoginInv, OwnerInv, StageInv, Working
  <1>6. ASSUME NEW r \in Requests, RequestNext(r)
        PROVE  FALSE
    <2>1. SyncSave(r)
      BY <1>6, RequestKeepsStore DEF storeVars
    <2>2. r \in Busy
      BY <2>1, LifecycleAssumption
         DEF SyncSave, CoreInv, LockInv, Busy, Ending, LifecycleAssumption
    <2> QED
      BY <1>2, <2>2
  <1>7. ~ProcessNext
    BY DEF ProcessNext, Boot, Open, Shutdown, Exit, Crash, ProcessGone, Close,
           storeVars
  <1> QED
    BY <1>3, <1>4, <1>5, <1>6, <1>7 DEF Next

\* Until a login succeeds the previous credential stays, and only a login that
\* was not cancelled replaces it (start_login, commit).
THEOREM LoginsKeepAccount == Spec => LoginKeepsAccount
  <1> DEFINE A == \A l \in Logins :
                      Running(l) /\ active' # active =>
                          committed' = committed \cup {l}
                          /\ l \notin committed \cup cancel
  <1>1. CoreInv /\ LoginInv /\ [Next]_vars => [A]_vars
    BY OnlyOwnCommitWrites
  <1> QED
    BY <1>1, CoreInvariant, LoginInvariant, PTL DEF Spec, LoginKeepsAccount

-----------------------------------------------------------------------------
(* 4. Tokens. *)

Unfinished == {r \in Requests : req[r] \in CliAlive \cup Ending}

MayCommit(l) == task[l] \in {"wantLock", "holdLock"}

TokenInv ==
    /\ active # None => active.token <= clock
    /\ \A k \in Caches : files[k] # None => files[k].token <= clock
    /\ slot # None => active.token <= files[slot].token
    /\ cacheLock # None => /\ active.token <= captured.token
                           /\ captured.token <= files[slot].token
    /\ \A l \in Logins :
           MayCommit(l) /\ active # None => active.token <= files[l].token

\* The second part is about tokens obtained while a sync is half done.
SavedInv ==
    /\ slot # None /\ ~unsaved /\ active # files[slot] => Unfinished # {}
    /\ cacheLock # None /\ captured # files[slot] =>
           \E r \in Unfinished : r = cacheLock => req[r] \in CliAlive

FreshInv == TokenInv /\ SavedInv

-----------------------------------------------------------------------------
(* What CoreInv says of the tokens. *)

\* Tokens are numbers wherever a credential is.
LEMMA TokenTypes ==
    ASSUME CoreInv
    PROVE  /\ clock \in Nat
           /\ active # None => active.token \in Nat
           /\ \A k \in Caches : files[k] # None => files[k].token \in Nat
           /\ captured # None => captured.token \in Nat
           /\ Logins \subseteq Caches /\ None \notin Caches
           /\ None \notin Requests
           /\ \A c \in Credentials : c.token \in Nat
  <1>1. \A c \in Credentials : c.token \in Nat
    BY StoreAssumption DEF StoreAssumption, Credentials
  <1>2. clock \in Nat /\ active \in Credentials \cup {None}
        /\ captured \in Credentials \cup {None}
        /\ files \in [Caches -> Credentials \cup {None}]
    BY StoreAssumption DEF CoreInv, TypeOK, StoreTypeOK, StoreAssumption
  <1> QED
    BY <1>1, <1>2, LifecycleAssumption DEF LifecycleAssumption, Caches

\* The slot names a copy with a credential while somebody is signed in; the
\* owner of the lock works on it, and no login can commit meanwhile.
LEMMA SlotFacts ==
    ASSUME CoreInv
    PROVE  /\ slot # None => slot \in Caches /\ active # None /\ files[slot] # None
           /\ cacheLock # None => /\ slot # None /\ captured # None
                                  /\ cacheLock \in Unfinished
           /\ \A r \in Requests : req[r] \in CliAlive \cup Ending
                                      => held[r] = slot /\ slot # None
           /\ Busy # {} => \A l \in Logins : ~Running(l)
           /\ \A l \in Logins : task[l] \in Working => slot # l
  <1>1. slot # None => slot \in Caches /\ active # None /\ files[slot] # None
    BY DEF CoreInv, TypeOK, SlotInv, SlotMatchesStore
  <1>2. \A r \in Requests : req[r] \in CliAlive \cup Ending
                                => held[r] = slot /\ slot # None
    BY DEF CoreInv, HeldInv, CliAlive, Ending
  <1>3. cacheLock # None => /\ captured # None
                            /\ cacheLock \in Unfinished
    BY DEF CoreInv, TypeOK, LockInv, Unfinished, CliAlive
  <1>4. Busy # {} => \A l \in Logins : ~Running(l)
    BY NobodyHoldsAll DEF CoreInv, Exclusive
  <1>5. \A l \in Logins : task[l] \in Working => slot # l
    BY DEF CoreInv, SlotInv, Working
  <1> QED
    BY <1>1, <1>2, <1>3, <1>4, <1>5 DEF Unfinished

\* Steps that move no token.
LEMMA TokensKept ==
    ASSUME TokenInv, UNCHANGED <<active, copyVars, cacheLock, captured>>,
           \A l \in Logins : MayCommit(l)' => MayCommit(l)
    PROVE  TokenInv'
  BY DEF TokenInv, copyVars

\* A step that touches neither tokens nor requests keeps SavedInv.
LEMMA SavedKept ==
    ASSUME SavedInv, UNCHANGED <<active, slot, files, cacheLock, captured, unsaved, req>>
    PROVE  SavedInv'
  BY DEF SavedInv, Unfinished

\* A request moves on, its sync apart.
LEMMA SavedMoves ==
    ASSUME CoreInv, SavedInv, NEW r \in Requests, NEW p \in ReqStates,
           UNCHANGED <<active, slot, files, syncVars>>,
           req' = [req EXCEPT ![r] = p],
           \/ req[r] \notin CliAlive \cup Ending
           \/ cacheLock # r /\ p \in CliAlive \cup Ending
    PROVE  SavedInv'
  <1>1. req \in [Requests -> ReqStates]
    BY DEF CoreInv, TypeOK
  <1>2. Unfinished \subseteq Unfinished'
    BY <1>1 DEF Unfinished
  <1>3. \A q \in Requests :
            (q = cacheLock => req[q] \in CliAlive) /\ q \in Unfinished
                => (q = cacheLock => req'[q] \in CliAlive)
    BY <1>1 DEF Unfinished
  <1> QED
    BY <1>2, <1>3 DEF SavedInv, syncVars, Unfinished

-----------------------------------------------------------------------------
\* Console calls keep the order of tokens.
LEMMA AdminFresh ==
    ASSUME CoreInv, FreshInv, NEW a \in Admins, AdminNext(a)
    PROVE  FreshInv'
  <1>1. CASE LogoutFinish(a)
    <2>1. /\ active' = None /\ slot' = None /\ cacheLock' = None
          /\ clock' = clock /\ files' = DeleteUnused(files)
      BY <1>1 DEF LogoutFinish, LogoutEnds, Clear
    <2>2. \A k \in Caches : files'[k] \in {files[k], None}
      BY <2>1 DEF DeleteUnused
    <2> QED
      BY <2>1, <2>2 DEF FreshInv, TokenInv, SavedInv
  <1>2. CASE ~LogoutFinish(a)
    <2>1. UNCHANGED <<active, copyVars, syncVars, req>>
      BY <1>2, AdminKeepsStore
         DEF AdminNext, StartQueue, StartRefused, StartAuthorize, StartDropped,
             AuthorizeFails, AuthorizeOk, LogoutBegin, LogoutFails, LogoutEnds,
             storeVars, copyVars, reqVars, syncVars
    <2>2. \A l \in Logins : MayCommit(l)' => MayCommit(l)
      BY <1>2 DEF AdminNext, StartQueue, StartRefused, StartAuthorize,
                  StartDropped, AuthorizeFails, AuthorizeOk, LogoutBegin,
                  LogoutFails, LogoutEnds, loginVars, MayCommit, CoreInv, TypeOK
    <2> QED
      BY <2>1, <2>2, TokensKept, SavedKept DEF FreshInv, copyVars, syncVars
  <1> QED
    BY <1>1, <1>2

\* So do login tasks; a commit brings a token newer than any saved one.
LEMMA LoginFresh ==
    ASSUME CoreInv, FreshInv, NEW l \in Logins, LoginNext(l)
    PROVE  FreshInv'
  <1>0. task \in [Logins -> TaskStates] /\ l \in Caches
        /\ files \in [Caches -> Credentials \cup {None}]
    BY DEF CoreInv, TypeOK, Caches
  <1>1. ASSUME NEW c \in Credentials, CallbackOk(l, c)
        PROVE  FreshInv'
    <2>1. /\ c.token = clock + 1 /\ clock' = clock + 1
          /\ files' = [files EXCEPT ![l] = c]
          /\ UNCHANGED <<active, slot, cacheLock, captured, unsaved, req>>
          /\ task' = [task EXCEPT ![l] = "wantLock"]
          /\ slot # l
      BY <1>1, SlotFacts DEF CallbackOk, storeVars, syncVars, reqVars, Working
    <2>2. slot # None => files'[slot] = files[slot]
      BY <1>0, <2>1, SlotFacts
    <2>3. SavedInv'
      BY <2>1, <2>2, SlotFacts DEF FreshInv, SavedInv, Unfinished
    <2>4. TokenInv'
      BY <1>0, <2>1, <2>2, TokenTypes, SlotFacts DEF FreshInv, TokenInv, MayCommit
    <2> QED
      BY <2>3, <2>4 DEF FreshInv
  <1>2. CASE Commit(l)
    <2>1. /\ active' = files[l] /\ slot' = l /\ clock' = clock
          /\ cacheLock = None /\ cacheLock' = None
          /\ files' = DeleteUnused(files)
          /\ task[l] = "holdLock" /\ task' = [task EXCEPT ![l] = "closing"]
      BY <1>2 DEF Commit, CommitEffects, TaskEnds, Save
    <2>2. files'[l] = files[l] /\ \A k \in Caches : files'[k] \in {files[k], None}
      BY <1>0, <2>1 DEF DeleteUnused
    <2>3. files[l] # None /\ None \notin Caches
      BY <2>1, TokenTypes DEF CoreInv, LoginCopyInv
    <2>4. \A k \in Logins : ~MayCommit(k)'
      <3>1. Exclusive = {l}
        BY <2>1, HolderIsAlone DEF CoreInv, Exclusive, Running, Working
      <3> QED
        BY <1>0, <2>1, <3>1 DEF MayCommit, Exclusive, Running, Working
    <2>5. TokenInv'
      BY <1>0, <2>1, <2>2, <2>3, <2>4, TokenTypes DEF FreshInv, TokenInv
    <2> QED
      BY <2>1, <2>2, <2>5 DEF FreshInv, SavedInv
  <1>3. CASE FinalStatus(l)
    <2>1. /\ UNCHANGED <<active, slot, clock, cacheLock, captured, unsaved, req>>
          /\ files' = DeleteUnused(files)
          /\ task' = [task EXCEPT ![l] = "done"]
      BY <1>3 DEF FinalStatus, storeVars, syncVars, reqVars
    <2>2. /\ slot # None => files'[slot] = files[slot]
          /\ \A k \in Caches : files'[k] \in {files[k], None}
          /\ \A k \in Logins : MayCommit(k)' => MayCommit(k) /\ files'[k] = files[k]
      BY <1>0, <2>1, SlotFacts DEF DeleteUnused, MayCommit, Caches, Working
    <2>3. SavedInv'
      BY <2>1, <2>2, SlotFacts DEF FreshInv, SavedInv, Unfinished
    <2>4. TokenInv'
      BY <2>1, <2>2, SlotFacts DEF FreshInv, TokenInv
    <2> QED
      BY <2>3, <2>4 DEF FreshInv
  <1>4. CASE \/ SubmitCode(l) \/ CancelLogin(l) \/ ReceiveCode(l) \/ TakeLock(l)
             \/ CallbackFails(l) \/ CommitForbidden(l) \/ CommitFails(l)
             \/ LoginCancelled(l) \/ LoginExpired(l)
    <2>1. UNCHANGED <<active, copyVars, syncVars, req>>
      BY <1>4 DEF SubmitCode, CancelLogin, ReceiveCode, TakeLock, CallbackFails,
                  CommitForbidden, CommitFails, LoginCancelled, LoginExpired,
                  TaskEnds, LoginUnchanged, storeVars, copyVars, reqVars, syncVars
    <2>2. \A k \in Logins : MayCommit(k)' => MayCommit(k)
      BY <1>0, <1>4
         DEF SubmitCode, CancelLogin, ReceiveCode, TakeLock, CallbackFails,
             CommitForbidden, CommitFails, LoginCancelled, LoginExpired,
             TaskEnds, LoginUnchanged, MayCommit
    <2> QED
      BY <2>1, <2>2, TokensKept, SavedKept DEF FreshInv, copyVars, syncVars
  <1> QED
    BY <1>1, <1>2, <1>3, <1>4 DEF LoginNext
\* So do requests, syncs and refreshes.
LEMMA RequestFresh ==
    ASSUME CoreInv, FreshInv, NEW r \in Requests, RequestNext(r)
    PROVE  FreshInv'
  <1>0. /\ req \in [Requests -> ReqStates]
        /\ files \in [Caches -> Credentials \cup {None}]
        /\ None \notin Caches /\ Restored \in Caches /\ Restored \notin Logins
    BY LifecycleAssumption, TokenTypes
       DEF CoreInv, TypeOK, Caches, LifecycleAssumption
  <1>1. CASE Admit(r) \/ GetCacheFails(r) \/ ReportSent(r) \/ ReportDropped(r)
    <2>1. PICK p \in {"idle", "spawned"} :
              /\ req[r] \in {"idle", "spawned", "reporting"}
              /\ req' = [req EXCEPT ![r] = p]
              /\ UNCHANGED <<active, copyVars, syncVars, task>>
      BY <1>1 DEF Admit, GetCacheFails, ReportSent, ReportDropped, TaskReturns,
                  storeVars, loginVars
    <2> QED
      BY <2>1, TokensKept, SavedMoves
         DEF FreshInv, MayCommit, CliAlive, Ending, ReqStates, copyVars, syncVars
  <1>2. CASE Leave(r)
    BY <1>2, TokensKept, SavedKept
       DEF Leave, FreshInv, MayCommit, storeVars, copyVars, syncVars, loginVars
  <1>3. CASE WorkFails(r) \/ WorkCancelled(r) \/ WorkDone(r)
    <2>1. PICK p \in Ending : WorkEnds(r, p)
      BY <1>3 DEF WorkFails, WorkCancelled, WorkDone, Ending
    <2> QED
      BY <2>1, TokensKept, SavedMoves
         DEF WorkEnds, FreshInv, MayCommit, CliAlive, Ending, ReqStates,
             storeVars, copyVars, syncVars, loginVars
  <1>4. CASE GetCache(r)
    <2>1. /\ cacheLock = None /\ req[r] = "spawned"
          /\ req' = [req EXCEPT ![r] = "launching"]
          /\ UNCHANGED <<active, clock, task, syncVars>>
      BY <1>4 DEF GetCache, storeVars, loginVars
    <2>2. CASE slot = None
      <3>1. /\ active # None /\ slot' = Restored
            /\ files' = [files EXCEPT ![Restored] = active]
        BY <1>4, <2>2 DEF GetCache
      <3>2. files'[Restored] = active /\ \A l \in Logins : files'[l] = files[l]
        BY <1>0, <3>1 DEF Caches
      <3>3. SavedInv'
        BY <1>0, <2>1, <3>1, <3>2 DEF SavedInv, syncVars
      <3>4. TokenInv'
        BY <1>0, <2>1, <3>1, <3>2, TokenTypes
           DEF FreshInv, TokenInv, MayCommit, syncVars
      <3> QED
        BY <3>3, <3>4 DEF FreshInv
    <2>3. CASE slot # None
      <3>1. UNCHANGED <<slot, files>>
        BY <1>4, <2>3 DEF GetCache
      <3> QED
        BY <2>1, <3>1, TokensKept, SavedMoves
           DEF FreshInv, MayCommit, CliAlive, Ending, ReqStates, copyVars, syncVars
    <2> QED
      BY <2>2, <2>3
  <1>5. ASSUME NEW id \in Accounts \cup {None}, Rotate(r, id)
        PROVE  FreshInv'
    <2>1. /\ req[r] \in CliAlive /\ held[r] = slot /\ slot # None /\ slot \in Caches
          /\ files[slot] # None
      BY <1>5, SlotFacts DEF Rotate
    <2>2. /\ clock' = clock + 1
          /\ files' = [files EXCEPT ![slot] = [@ EXCEPT !.token = clock + 1, !.id = id]]
          /\ UNCHANGED <<active, slot, task, cacheLock, captured, unsaved, req>>
      BY <1>5, <2>1 DEF Rotate, storeVars, loginVars, reqVars, syncVars
    <2>3. files'[slot].token = clock + 1
      <3>1. files[slot] \in Credentials
        BY <1>0, <2>1
      <3> QED
        BY <1>0, <2>1, <2>2, <3>1 DEF Credentials
    <2>4. \A k \in Caches : k # slot => files'[k] = files[k]
      BY <1>0, <2>2
    <2>5. SavedInv'
      BY <2>1, <2>2 DEF SavedInv, Unfinished
    <2>6. \A l \in Logins : MayCommit(l)' => MayCommit(l) /\ files'[l] = files[l]
      BY <2>2, <2>4, SlotFacts, TokenTypes DEF MayCommit, Working
    <2>7. TokenInv'
      BY <2>1, <2>2, <2>3, <2>4, <2>6, TokenTypes, SlotFacts DEF FreshInv, TokenInv
    <2> QED
      BY <2>5, <2>7 DEF FreshInv
  <1>6. CASE SyncCapture(r)
    <2>1. /\ cacheLock' = r /\ captured' = files[slot]
          /\ slot # None /\ r # None
          /\ UNCHANGED <<active, copyVars, task, unsaved, req>>
      BY <1>6, SlotFacts, TokenTypes
         DEF SyncCapture, WantsSync, CliAlive, storeVars, loginVars, reqVars
    <2>2. SavedInv'
      BY <2>1 DEF FreshInv, SavedInv, Unfinished, copyVars
    <2>3. TokenInv'
      BY <2>1, TokenTypes, SlotFacts DEF FreshInv, TokenInv, MayCommit, copyVars
    <2> QED
      BY <2>2, <2>3 DEF FreshInv
  <1>7. CASE SyncSave(r)
    <2>1. /\ cacheLock = r /\ cacheLock' = None
          /\ active' = captured /\ UNCHANGED <<copyVars, task>>
          /\ req' = [req EXCEPT ![r] = AfterSync(req[r], TRUE)]
          /\ r # None
      BY <1>7, TokenTypes DEF SyncSave, SyncReturns, Save, loginVars
    <2>2. slot # None /\ captured # None /\ r \in Busy
      BY <2>1, SlotFacts DEF Unfinished, Busy, CliAlive, Ending
    <2>3. \A l \in Logins : ~MayCommit(l)'
      BY <2>1, <2>2, SlotFacts DEF MayCommit, Running, Working
    <2>4. TokenInv'
      BY <2>1, <2>2, <2>3, TokenTypes, SlotFacts DEF FreshInv, TokenInv, copyVars
    <2>5. captured # files[slot] => Unfinished' # {}
      <3>1. SUFFICES ASSUME captured # files[slot]
                     PROVE  Unfinished' # {}
        OBVIOUS
      <3>2. PICK q \in Unfinished : q = r => req[r] \in CliAlive
        BY <2>1, <3>1 DEF FreshInv, SavedInv
      <3>3. CASE q # r
        BY <1>0, <2>1, <3>2, <3>3 DEF Unfinished
      <3>4. CASE q = r
        <4>1. req[r] \in {"launching", "serving"}
          BY <2>1, <3>2, <3>4 DEF CoreInv, LockInv, CliAlive, Ending
        <4>2. req'[r] \in CliAlive
          BY <1>0, <2>1, <4>1 DEF AfterSync, CliAlive
        <4> QED
          BY <4>2 DEF Unfinished
      <3> QED
        BY <3>3, <3>4
    <2> QED
      BY <2>1, <2>4, <2>5 DEF FreshInv, SavedInv, copyVars
  <1>8. CASE SyncFails(r)
    <2>1. /\ UNCHANGED <<active, copyVars, task>>
          /\ cacheLock' = None /\ unsaved' = TRUE
      BY <1>8 DEF SyncFails, SyncReturns, loginVars
    <2> QED
      BY <2>1 DEF FreshInv, TokenInv, SavedInv, MayCommit, copyVars
  <1> QED
    BY <1>1, <1>2, <1>3, <1>4, <1>5, <1>6, <1>7, <1>8 DEF RequestNext

\* So do starts and stops, which leave no working copy.
LEMMA ProcessFresh ==
    ASSUME CoreInv, FreshInv, ProcessNext
    PROVE  FreshInv'
  <1>1. CASE Boot \/ Shutdown
    BY <1>1, TokensKept, SavedKept
       DEF Boot, Open, Shutdown, FreshInv, MayCommit, storeVars, copyVars,
           syncVars, loginVars, reqVars
  <1>2. CASE ProcessGone
    <2>1. /\ UNCHANGED <<active, clock>> /\ slot' = None /\ cacheLock' = None
          /\ \A k \in Caches : files'[k] = None
          /\ \A l \in Logins : ~MayCommit(l)'
      BY <1>2 DEF ProcessGone, Close, MayCommit
    <2> QED
      BY <2>1 DEF FreshInv, TokenInv, SavedInv
  <1> QED
    BY <1>1, <1>2 DEF ProcessNext, Exit, Crash

\* At the start there is no working copy.
LEMMA FreshInitially == LifecycleInit => FreshInv
  <1> SUFFICES ASSUME LifecycleInit
               PROVE  FreshInv
    OBVIOUS
  <1>1. active # None => active.token = 0
    BY LifecycleAssumption DEF LifecycleInit, StoreInit, LifecycleAssumption
  <1> QED
    BY <1>1 DEF LifecycleInit, FreshInv, TokenInv, SavedInv, MayCommit

\* The newest token is never behind the database nor left behind by it.
THEOREM FreshInvariant == Spec => []FreshInv
  <1>1. CoreInv /\ FreshInv /\ [Next]_vars => FreshInv'
    <2> SUFFICES ASSUME CoreInv, FreshInv, [Next]_vars
                 PROVE  FreshInv'
      OBVIOUS
    <2>1. CASE UNCHANGED vars
      BY <2>1, TokensKept, SavedKept
         DEF vars, FreshInv, MayCommit, storeVars, copyVars, syncVars,
             loginVars, reqVars
    <2> QED
      BY <2>1, AdminFresh, LoginFresh, RequestFresh, ProcessFresh DEF Next
  <1> QED
    BY <1>1, FreshInitially, CoreInvariant, PTL DEF Spec

-----------------------------------------------------------------------------
\* A step that replaces a credential brings a token at least as new.
LEMMA TokensAdvance ==
    ASSUME CoreInv, FreshInv, [Next]_vars, active # None, active' # None
    PROVE  active'.token >= active.token
  <1>0. active.token \in Nat
    BY TokenTypes
  <1>1. CASE active' = active
    BY <1>0, <1>1
  <1>2. ASSUME NEW l \in Logins, Commit(l)
        PROVE  active'.token >= active.token
    <2>1. active' = files[l] /\ MayCommit(l) /\ l \in Caches
      BY <1>2, TokenTypes DEF Commit, CommitEffects, Save, MayCommit
    <2>2. files[l].token \in Nat
      BY <2>1, TokenTypes
    <2> QED
      BY <1>0, <2>1, <2>2 DEF FreshInv, TokenInv
  <1>3. ASSUME NEW r \in Requests, SyncSave(r)
        PROVE  active'.token >= active.token
    <2>1. active' = captured /\ cacheLock # None
      BY <1>3, TokenTypes DEF SyncSave, Save
    <2>2. captured.token \in Nat
      BY <2>1, TokenTypes
    <2> QED
      BY <1>0, <2>1, <2>2 DEF FreshInv, TokenInv
  <1>4. ASSUME NEW a \in Admins, LogoutFinish(a)
        PROVE  FALSE
    BY <1>4 DEF LogoutFinish, Clear
  <1>5. CASE ProcessNext \/ UNCHANGED vars
    BY <1>1, <1>5 DEF ProcessNext, Boot, Open, Shutdown, Exit, Crash, ProcessGone,
                      Close, vars, storeVars
  <1>6. CASE \/ \E a \in Admins : AdminNext(a)
             \/ \E l \in Logins : LoginNext(l)
             \/ \E r \in Requests : RequestNext(r)
    BY <1>1, <1>2, <1>3, <1>4, <1>6, AdminKeepsStore, LoginKeepsStore,
       RequestKeepsStore DEF storeVars
  <1> QED
    BY <1>5, <1>6 DEF Next

\* No sync and no commit puts an older token over a newer one (sync, commit).
THEOREM TokensNeverGoBack == Spec => NoStaleOverwrite
  <1> DEFINE A == active # None /\ active' # None => active'.token >= active.token
  <1>1. CoreInv /\ FreshInv /\ [Next]_vars => [A]_vars
    BY TokensAdvance
  <1> QED
    BY <1>1, CoreInvariant, FreshInvariant, PTL DEF Spec, NoStaleOverwrite

\* Once no request holds the working copy, what a CLI refreshed in it is in
\* the database, unless the sync itself failed (rpc::start).
THEOREM RefreshesArePersisted == Spec => []PersistedWhenQuiescent
  <1>1. CoreInv /\ FreshInv => PersistedWhenQuiescent
    <2> SUFFICES ASSUME CoreInv, FreshInv, slot # None, ~unsaved,
                        \A r \in Requests : held[r] = None
                 PROVE  active = files[slot]
      BY DEF PersistedWhenQuiescent
    <2>1. Unfinished = {}
      BY SlotFacts DEF Unfinished
    <2> QED
      BY <2>1 DEF FreshInv, SavedInv
  <1> QED
    BY <1>1, CoreInvariant, FreshInvariant, PTL
=============================================================================
