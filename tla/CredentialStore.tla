-------------------------- MODULE CredentialStore --------------------------
(***************************************************************************)
(* The credential database of the bridge, src/src/store.rs: one redb table *)
(* with two records, "active" (the credential in use, removed by a logout) *)
(* and "binding" (the account this database belongs to, never removed).    *)
(*                                                                         *)
(* Every operation is one redb write transaction, so it is one step here;  *)
(* an operation that fails leaves the table as it was and is a stuttering  *)
(* step.  Databases of releases without the binding record are covered:    *)
(* Init allows an active record with no binding, which open() migrates.    *)
(***************************************************************************)
EXTENDS Naturals

CONSTANTS
    Accounts,      \* oauthAccount.accountUuid values
    Emails,        \* mailbox names
    MaxToken,      \* bound: the number of token generations
    LegacyRecords, \* active records an older release may have left behind
    None           \* an absent id, e-mail or record

(***************************************************************************)
(* A credential.  A blank id or e-mail counts as absent in the code; token *)
(* stands for the token material and numbers it in the order the CLI       *)
(* obtained it.                                                            *)
(***************************************************************************)
Credentials == [id    : Accounts \cup {None},
                email : Emails \cup {None},
                token : 0 .. MaxToken]

Bindings == [id : Accounts \cup {None}, email : Emails \cup {None}]

ASSUME StoreAssumption ==
    /\ MaxToken \in Nat
    /\ LegacyRecords \subseteq Credentials
    /\ None \notin Accounts \cup Emails \cup Credentials \cup Bindings

VARIABLES
    active,   \* the "active" record
    binding,  \* the "binding" record
    opened    \* a process has the database open

storeVars == <<active, binding, opened>>

StoreTypeOK ==
    /\ active \in Credentials \cup {None}
    /\ binding \in Bindings \cup {None}
    /\ opened \in BOOLEAN

-----------------------------------------------------------------------------
\* Mutant: the binding stores the whole credential.
FromCredentialWhole(c) == c

FromCredential(c) == [id |-> c.id, email |-> c.email]

\* Mutant: a known mailbox is accepted even when the account id differs.
AcceptsMailbox(b, c) ==
    c.id = b.id \/ (b.email # None /\ c.email = b.email)

Accepts(b, c) ==
    IF b.id # None THEN c.id = b.id
                   ELSE b.email # None /\ c.email = b.email

\* The account check of save(): a database that is not yet bound takes any
\* account, but only one that can be identified.
MaySave(c) == IF binding = None THEN c.id # None ELSE Accepts(binding, c)

StoreInit ==
    /\ active \in LegacyRecords \cup {None}
    /\ binding = None
    /\ opened = FALSE

\* open(): bind a database that an older release left without a binding.
Open ==
    /\ ~opened
    /\ opened' = TRUE
    /\ binding' = IF binding = None /\ active # None
                    THEN FromCredential(active)
                    ELSE binding
    /\ UNCHANGED active

\* Mutant: the binding is written only once.
SaveBindsOnce(c) ==
    /\ opened
    /\ MaySave(c)
    /\ binding' = IF binding = None THEN FromCredential(c) ELSE binding
    /\ active' = c
    /\ UNCHANGED opened

Save(c) ==
    /\ opened
    /\ MaySave(c)
    /\ binding' = FromCredential(c)
    /\ active' = c
    /\ UNCHANGED opened

\* Mutant: a logout forgets the binding too.
ClearBinding ==
    /\ opened
    /\ active' = None
    /\ binding' = None
    /\ UNCHANGED opened

Clear ==
    /\ opened
    /\ active' = None
    /\ UNCHANGED <<binding, opened>>

\* The process ends, by an exit or a crash; redb keeps what was committed.
Close ==
    /\ opened
    /\ opened' = FALSE
    /\ UNCHANGED <<active, binding>>

StoreNext ==
    \/ Open
    \/ \E c \in Credentials : Save(c)
    \/ Clear
    \/ Close

StoreSpec == StoreInit /\ [][StoreNext]_storeVars

-----------------------------------------------------------------------------
(***************************************************************************)
(* The record in use is always one the binding was made from: no order of  *)
(* migrations, logins, refreshes and logouts leaves a token of one account *)
(* next to the binding of another (store.rs, save and open).               *)
(***************************************************************************)
ActiveMatchesBinding ==
    opened /\ active # None => binding = FromCredential(active)

(***************************************************************************)
(* A database that knows its account id keeps it for ever; one that only   *)
(* knows a mailbox keeps the mailbox until an id is learned under that     *)
(* same mailbox; one that knows neither stays as it is.  "Missing identity *)
(* never makes an existing instance unbound" (store.rs, accepts).          *)
(***************************************************************************)
BindingKept ==
    binding # None =>
        /\ binding' # None
        /\ IF binding.id # None THEN binding'.id = binding.id
                                ELSE binding'.email = binding.email
        /\ binding.id = None /\ binding.email = None => binding' = binding

BindingPermanent == [][BindingKept]_storeVars

(***************************************************************************)
(* The identity the instance has: its binding, or, in a database that was  *)
(* not opened since the upgrade, the account of the record it holds.       *)
(***************************************************************************)
owner == IF binding # None THEN binding
         ELSE IF active # None THEN FromCredential(active) ELSE None

Promise == INSTANCE OneAccount WITH
    identity <- IF owner = None THEN None
                ELSE [id |-> owner.id,
                      email |-> IF owner.id = None THEN owner.email ELSE None],
    session <- active

(***************************************************************************)
(* The database implements the one-account promise: migration, restart and *)
(* crash are invisible, every save is a sign-in of the same account.       *)
(***************************************************************************)
OneAccountForLife == Promise!Spec
=============================================================================
