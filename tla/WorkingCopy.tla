---------------------------- MODULE WorkingCopy ----------------------------
(***************************************************************************)
(* The files the bridge shares with the Claude Code CLI, one private       *)
(* directory per working copy (src/src/credential_cache.rs): NewCopy       *)
(* writes them from a database record, Capture makes a record of what the  *)
(* CLI left in them.  The CLI stores its tokens in a file of its own, on   *)
(* macOS through the `security` adapter (src/scripts/credential-store.py)  *)
(* in another one, which it prefers to the first.                          *)
(*                                                                         *)
(* Operators only; SignIn has the variables.                               *)
(***************************************************************************)
EXTENDS CredentialStore

CONSTANTS
    Null,  \* a column that a record of an older release does not have
    Blank  \* the empty mailbox: an answer, but no account's name

(***************************************************************************)
(* Token material: an OAuth token or a Console key, numbered in the order  *)
(* the CLI obtained them.  full: with the fields only the CLI knows        *)
(* (clientId, rateLimitTier), which the columns of a record do not have.   *)
(***************************************************************************)
Secrets == [owner : Accounts, gen : 0 .. MaxToken, full : BOOLEAN]

Column(s) == IF s = None THEN None ELSE [s EXCEPT !.full = FALSE]

Mailboxes == Emails \cup {Blank}

\* The oauthAccount entry of .claude.json.
Profiles == [id : Accounts \cup {None}, email : Mailboxes \cup {None}]

NoProfile == [id |-> None, email |-> None]

\* A whole database record: native is native_credentials, profile is what
\* native_config says of the account, org names whose organization it is.
Records == [oauth   : Secrets \cup {None},
            key     : Secrets \cup {None},
            native  : Secrets \cup {None, Null},
            profile : Profiles,
            email   : Mailboxes \cup {None},
            org     : Accounts \cup {None}]

\* What the CLI says of the account when a login succeeds.
Metadata == [email : Mailboxes \cup {None}, org : Accounts \cup {None}]

NoMetadata == [email |-> None, org |-> None]

\* fallback is .credentials.json, keychain .keychain-credentials.json; None is
\* no file.  primary is config.primaryApiKey.  An assumption on the CLI: it
\* removes a token file, or leaves its tokens in it; capture chooses between the
\* two by which of them exists, and never looks into the other.
Files == [fallback : Secrets \cup {None}, keychain : Secrets \cup {None},
          consoleKey : Secrets \cup {None}, primary : Secrets \cup {None},
          profile : Profiles]

ASSUME CopyAssumption ==
    /\ Null # None
    /\ Blank \notin Emails \cup {None}
    /\ {None, Null} \cap (Secrets \cup Records \cup Files) = {}

First(a, b) == IF a # None THEN a ELSE b

-----------------------------------------------------------------------------
EmptyCopy == [fallback |-> None, keychain |-> None, consoleKey |-> None,
              primary |-> None, profile |-> NoProfile]

\* Mutant: the tokens are always rebuilt from the columns.
NewCopyFromColumns(c) ==
    [EmptyCopy EXCEPT !.fallback = c.oauth, !.consoleKey = c.key,
                      !.primary = c.key, !.profile = c.profile]

\* CredentialCache::new(Some(c)); a login starts from EmptyCopy.
NewCopy(c) ==
    [EmptyCopy EXCEPT
        !.fallback   = IF c.native # Null THEN c.native
                       ELSE IF c.key # None THEN None ELSE c.oauth,
        !.consoleKey = c.key,
        !.primary    = c.key,
        !.profile    = c.profile]

\* Mutant: the plain file wins.
TokensFallbackFirst(f) == First(f.fallback, f.keychain)

Tokens(f) == First(f.keychain, f.fallback)

Key(f) == First(f.consoleKey, f.primary)

CanCapture(f) == Tokens(f) # None \/ Key(f) # None

\* CredentialCache::capture, when CanCapture(f); a baseline of None is a login.
Capture(f, baseline, metadata) ==
    [oauth   |-> Column(Tokens(f)),
     key     |-> Key(f),
     native  |-> Tokens(f),
     profile |-> f.profile,
     email   |-> First(First(metadata.email, f.profile.email),
                       IF baseline = None THEN None ELSE baseline.email),
     org     |-> First(metadata.org,
                       IF baseline = None THEN None ELSE baseline.org)]

\* The token material of a record, as complete as the record has it.
SecretOf(c) == IF c.native \notin {None, Null} THEN c.native
               ELSE First(c.oauth, c.key)

\* What CredentialStore sees of a record: a binding has no blank mailbox.
View(c) == [id |-> c.profile.id,
            email |-> IF c.email = Blank THEN None ELSE c.email,
            token |-> SecretOf(c).gen]

-----------------------------------------------------------------------------
(* What the CLI does to the files; platform is "linux" or "macos". *)

StoreTokens(f, s, platform) ==
    IF platform = "macos" THEN [f EXCEPT !.keychain = s]
                          ELSE [f EXCEPT !.fallback = s]

StoreKey(f, s, platform) ==
    IF platform = "macos" THEN [f EXCEPT !.consoleKey = s]
                          ELSE [f EXCEPT !.primary = s]
=============================================================================
