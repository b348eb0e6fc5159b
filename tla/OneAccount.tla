----------------------------- MODULE OneAccount -----------------------------
(***************************************************************************)
(* What the credential database promises its user: an instance belongs to  *)
(* one account for its whole life.  Signing out, restarting, crashing and  *)
(* upgrading the database change who is signed in, never who may sign in.  *)
(*                                                                         *)
(* This is the abstract specification that CredentialStore implements.     *)
(***************************************************************************)
CONSTANTS
    Credentials,   \* every credential, a record with at least id and email
    LegacyRecords, \* what a database of an older release may already hold
    None

VARIABLES
    identity,      \* whom the instance belongs to, None while it is unclaimed
    session        \* the credential in use, None when signed out

(***************************************************************************)
(* An account is known by its id; only an instance that never learned an   *)
(* id is known by its mailbox.                                             *)
(***************************************************************************)
IdentityOf(x) == [id |-> x.id, email |-> IF x.id = None THEN x.email ELSE None]

Belongs(c) ==
    IF identity = None THEN c.id # None
    ELSE IF identity.id # None THEN c.id = identity.id
    ELSE identity.email # None /\ c.email = identity.email

Init ==
    /\ session \in LegacyRecords \cup {None}
    /\ identity = IF session = None THEN None ELSE IdentityOf(session)

SignIn(c) ==
    /\ Belongs(c)
    /\ identity' = IdentityOf(c)
    /\ session' = c

SignOut ==
    /\ session' = None
    /\ UNCHANGED identity

Next == (\E c \in Credentials : SignIn(c)) \/ SignOut

Spec == Init /\ [][Next]_<<identity, session>>
=============================================================================
