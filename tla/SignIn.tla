------------------------------- MODULE SignIn -------------------------------
(***************************************************************************)
(* Signing in and staying signed in, with the contents of files and        *)
(* records (src/src/oauth.rs): a login drives the control RPC of a CLI     *)
(* that works in an empty copy, captures what that CLI stored and commits  *)
(* it; a request uses a copy made from the record, in which its CLI        *)
(* refreshes the tokens, and syncs it back; a restart makes a new copy     *)
(* from the record.                                                        *)
(*                                                                         *)
(* AccountLifecycle has the interleavings of several requests, logins and  *)
(* console calls; it shows that a login excludes requests (the permits)    *)
(* and that syncs come one at a time (the cache mutex).  Here a login and  *)
(* a request exclude each other, and several requests are one.             *)
(***************************************************************************)
EXTENDS WorkingCopy, ControlRpc

CONSTANTS
    Platforms,  \* of "linux" and "macos"
    Identities, \* accounts that sign in, as the CLI names them
    OldRecords  \* records an older release may have left behind

\* No record and no CLI mixes what belongs to two accounts.
OfOneAccount(c) ==
    LET whose == SecretOf(c).owner IN
    /\ {c.oauth, c.key, c.native} \ {None, Null} \subseteq
           [owner : {whose}, gen : 0 .. MaxToken, full : BOOLEAN]
    /\ c.profile.id \in {None, whose}
    /\ c.org \in {None, whose}

\* The columns of a record repeat what its native data say.  A release that had
\* no native data stored tokens or a key (new treats such a record with a key
\* as one without tokens); a mailbox in the profile is that of the record.
Consistent(c) ==
    /\ IF c.native = Null
       THEN None \in {c.oauth, c.key} /\ c.oauth = Column(c.oauth)
       ELSE c.oauth = Column(c.native)
    /\ c.profile.email \in {None, c.email}

\* The CLI names one mailbox for an account, wherever it names one.
OneMailbox(who) ==
    None \in {who.profile.email, who.metadata.email}
        \/ who.profile.email = who.metadata.email

ASSUME SignInAssumption ==
    /\ Platforms \subseteq {"linux", "macos"}
    /\ Identities \subseteq
           [account : Accounts, profile : Profiles, metadata : Metadata]
    /\ \A who \in Identities : /\ who.profile.id \in {None, who.account}
                               /\ who.metadata.org \in {None, who.account}
                               /\ OneMailbox(who)
    /\ OldRecords \subseteq Records
    /\ \A c \in OldRecords : OfOneAccount(c) /\ Consistent(c)
    /\ {View(c) : c \in OldRecords} \subseteq LegacyRecords

VARIABLES
    platform,   \* where the bridge runs
    record,     \* the whole "active" record; active is what the store sees
    cache,      \* the files of the working copy in use
    using,      \* a request holds the working copy
    behind,     \* a CLI stored tokens in it since the last sync
    newest,     \* the tokens it stored last
    login,      \* where the login is
    copy,       \* the files of the login
    profile,    \* what its CLI learned of the account
    flow,       \* where the CLI is in its OAuth flow
    credential, \* what the login captured
    obtained    \* the number of tokens that CLIs obtained

recordVars == <<storeVars, record>>
cacheVars  == <<cache, using, behind, newest>>
flowVars   == <<copy, profile, flow, obtained>>
loginVars  == <<login, credential, flowVars, rpcVars>>
signInVars == <<recordVars, platform, cacheVars, loginVars>>

\* The phases in which a call of the control RPC reads frames.
Calling == {"initializing", "authorizing", "completing"}

SignInTypeOK ==
    /\ StoreTypeOK /\ RpcTypeCorrect
    /\ platform \in Platforms
    /\ record \in Records \cup {None}
    /\ active = (IF record = None THEN None ELSE View(record))
    /\ cache \in Files \cup {None} /\ copy \in Files \cup {None}
    /\ using \in BOOLEAN /\ behind \in BOOLEAN
    /\ newest \in Secrets \cup {None}
    /\ login \in Calling \cup {"none", "waiting", "captured"}
    /\ (login = "none") = (copy = None)
    /\ profile \in Identities \cup {None}
    /\ flow \in {"idle", "exchanged", "profiled", "approved", "refused"}
    /\ credential \in Records \cup {None}
    /\ obtained \in 0 .. MaxToken

SignInInit ==
    /\ platform \in Platforms
    /\ record \in OldRecords \cup {None}
    /\ active = IF record = None THEN None ELSE View(record)
    /\ binding = None /\ opened = FALSE
    /\ cache = None /\ using = FALSE /\ behind = FALSE /\ newest = None
    /\ login = "none" /\ copy = None /\ credential = None
    /\ profile = None /\ flow = "idle" /\ obtained = 0
    /\ RpcClosed

NoLogin ==
    /\ login' = "none" /\ copy' = None /\ credential' = None
    /\ profile' = None /\ flow' = "idle"
    /\ UNCHANGED obtained
    /\ RpcClose

-----------------------------------------------------------------------------
(* The login: start_login's authorize, and the login task. *)

Authorize ==
    /\ opened /\ ~using
    /\ login = "none"
    /\ login' = "initializing"
    /\ copy' = EmptyCopy
    /\ RpcCall
    /\ UNCHANGED <<recordVars, platform, cacheVars, profile, flow, obtained,
                   credential>>

\* The call in the phase `from` returned successfully.
Returned(from) ==
    /\ login = from
    /\ OwnResponse
    /\ Head(out).ok

Initialized ==
    /\ Returned("initializing")
    /\ login' = "authorizing"
    /\ out' = Tail(out) /\ calls' = calls + 1
    /\ UNCHANGED <<recordVars, platform, cacheVars, flowVars, credential,
                   answered, waits, repeats, callbacks>>

\* The response to claude_authenticate, the second call, has a sound URL.
Authorized ==
    /\ Returned("authorizing")
    /\ Head(out).id = 2
    /\ login' = "waiting"
    /\ RpcRead
    /\ UNCHANGED <<recordVars, platform, cacheVars, flowVars, credential>>

\* complete(): the code has arrived.
Complete ==
    /\ login = "waiting"
    /\ login' = "completing"
    /\ RpcCall
    /\ UNCHANGED <<recordVars, platform, cacheVars, flowVars, credential>>

PassOver ==
    /\ login \in Calling
    /\ ReadOther
    /\ UNCHANGED <<recordVars, platform, cacheVars, login, credential,
                   flowVars>>

\* "account" of the response, which only the oauth callback, the third, has.
Told == IF Head(out).id = 3 THEN profile.metadata ELSE NoMetadata

\* Mutant: what the CLI does not say of an account is taken from the record.
CompletedOverRecord ==
    /\ Returned("completing")
    /\ CanCapture(copy)
    /\ credential' = Capture(copy, record, Told)
    /\ credential'.profile.id # None
    /\ login' = "captured"
    /\ RpcRead
    /\ UNCHANGED <<recordVars, platform, cacheVars, flowVars>>

Completed ==
    /\ Returned("completing")
    /\ CanCapture(copy)
    /\ credential' = Capture(copy, None, Told)
    /\ credential'.profile.id # None
    /\ login' = "captured"
    /\ RpcRead
    /\ UNCHANGED <<recordVars, platform, cacheVars, flowVars>>

Commit ==
    /\ login = "captured"
    /\ Save(View(credential))
    /\ record' = credential
    /\ cache' = copy
    /\ behind' = FALSE
    /\ newest' = SecretOf(credential)
    /\ NoLogin
    /\ UNCHANGED <<platform, using>>

\* A call was refused, returned nothing usable or timed out, the CLI is gone
\* or wrote too much, the login was cancelled or expired, there is nothing to
\* capture, no identity, or the database refuses the account.
LoginFails ==
    /\ login # "none"
    /\ NoLogin
    /\ UNCHANGED <<recordVars, platform, cacheVars>>

-----------------------------------------------------------------------------
(* The CLI of a login. *)

Responds(ok) ==
    /\ login \in Calling
    /\ CliResponds(ok)
    /\ IF calls = 3
       THEN IF ok THEN flow = "profiled" /\ flow' = "approved"
                  ELSE flow' = "refused"
       ELSE UNCHANGED flow
    /\ UNCHANGED <<recordVars, platform, cacheVars, login, credential, copy,
                   profile, obtained>>

Repeats ==
    /\ login # "none"
    /\ CliRepeats
    /\ UNCHANGED <<recordVars, platform, cacheVars, login, credential,
                   flowVars>>

Asks ==
    /\ login \in Calling
    /\ \E kind \in Kinds : CliAsks(kind)
    /\ UNCHANGED <<recordVars, platform, cacheVars, login, credential,
                   flowVars>>

\* It exchanges the code and stores what it got: tokens, or a Console key.
Exchanges(who, console) ==
    /\ login = "completing" /\ flow = "idle"
    /\ answered < calls /\ ~waits
    /\ obtained < MaxToken
    /\ obtained' = obtained + 1
    /\ profile' = who
    /\ LET s == [owner |-> who.account, gen |-> obtained + 1, full |-> ~console]
       IN copy' = IF console THEN StoreKey(copy, s, platform)
                             ELSE StoreTokens(copy, s, platform)
    /\ flow' = "exchanged"
    /\ UNCHANGED <<recordVars, platform, cacheVars, login, credential, rpcVars>>

\* It writes oauthAccount; its policy checks come after that.
WritesProfile ==
    /\ flow = "exchanged"
    /\ copy' = [copy EXCEPT !.profile = profile.profile]
    /\ flow' = "profiled"
    /\ UNCHANGED <<recordVars, platform, cacheVars, login, credential, profile,
                   obtained, rpcVars>>

-----------------------------------------------------------------------------
(* A request: inference_cache, the CLI that runs on the copy, sync. *)

UseCache ==
    /\ opened /\ ~using
    /\ login = "none"
    /\ record # None
    /\ using' = TRUE
    /\ cache' = IF cache = None THEN NewCopy(record) ELSE cache
    /\ newest' = IF cache = None THEN SecretOf(record) ELSE newest
    /\ UNCHANGED <<recordVars, platform, behind, loginVars>>

\* The CLI refreshes its tokens.
Refresh ==
    /\ using
    /\ Tokens(cache) # None
    /\ obtained < MaxToken
    /\ obtained' = obtained + 1
    /\ newest' = [Tokens(cache) EXCEPT !.gen = obtained + 1]
    /\ cache' = StoreTokens(cache, newest', platform)
    /\ behind' = TRUE
    /\ UNCHANGED <<recordVars, platform, using, login, credential, copy,
                   profile, flow, rpcVars>>

\* On macOS the CLI deletes the plain file once its tokens are in the store.
DropFallback ==
    /\ using
    /\ platform = "macos"
    /\ cache.keychain # None /\ cache.fallback # None
    /\ cache' = [cache EXCEPT !.fallback = None]
    /\ UNCHANGED <<recordVars, platform, using, behind, newest, loginVars>>

\* The CLI learns the account of its tokens, or its mailbox anew.
LearnProfile(email) ==
    /\ using
    /\ Tokens(cache) # None
    /\ cache' = [cache EXCEPT !.profile =
                     [id |-> Tokens(cache).owner, email |-> email]]
    /\ UNCHANGED <<recordVars, platform, using, behind, newest, loginVars>>

\* sync(); one that fails changes nothing.
Sync ==
    /\ using
    /\ record # None
    /\ CanCapture(cache)
    /\ LET c == Capture(cache, record, NoMetadata) IN
       /\ Save(View(c))
       /\ record' = c
    /\ behind' = FALSE
    /\ UNCHANGED <<platform, cache, using, newest, loginVars>>

\* The request is over, its final sync done or failed.
Leave ==
    /\ using
    /\ using' = FALSE
    /\ UNCHANGED <<recordVars, platform, cache, behind, newest, loginVars>>

Logout ==
    /\ ~using
    /\ login = "none"
    /\ Clear
    /\ record' = None
    /\ cache' = None /\ behind' = FALSE /\ newest' = None
    /\ UNCHANGED <<platform, using, loginVars>>

-----------------------------------------------------------------------------
Start ==
    /\ Open
    /\ UNCHANGED <<record, platform, cacheVars, loginVars>>

\* An exit or a crash: the copies are gone, the database stays.
Stop ==
    /\ Close
    /\ cache' = None /\ using' = FALSE /\ behind' = FALSE /\ newest' = None
    /\ NoLogin
    /\ UNCHANGED <<record, platform>>

SignInNext ==
    \/ Authorize \/ Initialized \/ Authorized \/ Complete \/ PassOver
    \/ Completed \/ Commit \/ LoginFails
    \/ \E ok \in BOOLEAN : Responds(ok)
    \/ Repeats \/ Asks
    \/ \E who \in Identities, console \in BOOLEAN : Exchanges(who, console)
    \/ WritesProfile
    \/ UseCache \/ Refresh \/ DropFallback
    \/ \E e \in Mailboxes : LearnProfile(e)
    \/ Sync \/ Leave \/ Logout
    \/ Start \/ Stop

SignInSpec == SignInInit /\ [][SignInNext]_signInVars
-----------------------------------------------------------------------------
(***************************************************************************)
(* A restart costs nothing: of whatever record, a copy made from it and    *)
(* captured again is that record, with the fields only the CLI knows, the  *)
(* mailbox and the organization ("new fields keep ... so that a refresh    *)
(* does not lose fields the CLI needs", docs/oauth-redb.md section 4).     *)
(***************************************************************************)
Restored(c) == Capture(NewCopy(c), c, NoMetadata)

RestartKeepsCredential ==
    record # None =>
        Restored(record) =
            [record EXCEPT !.native = IF @ = Null THEN record.oauth ELSE @]

(***************************************************************************)
(* The tokens, the identity and the organization of a record are always    *)
(* those of one account, also when a login takes over a record that only   *)
(* knew a mailbox (capture(None, ..) of complete in oauth.rs, against      *)
(* capture(Some(previous), ..) of sync).                                   *)
(***************************************************************************)
RecordOfOneAccount == record # None => OfOneAccount(record)

(***************************************************************************)
(* After a sync or a login the database has the tokens the CLI stored      *)
(* last, wherever it stores them on this platform and whatever older file  *)
(* is still there (capture of credential_cache.rs).                        *)
(***************************************************************************)
SyncKeepsNewest ==
    cache # None /\ ~behind => record # None /\ SecretOf(record) = newest

(***************************************************************************)
(* What a login is about to save has passed the CLI's policy checks and    *)
(* belongs to the account that signed in: no other response is taken for   *)
(* that of the callback, which "awaits the CLI's flow, including token     *)
(* storage and policy checks" (complete of oauth.rs).                      *)
(***************************************************************************)
SavedAfterPolicy ==
    login = "captured" =>
        /\ flow = "approved"
        /\ credential.profile.id = profile.account
        /\ SecretOf(credential).owner = profile.account
=============================================================================
