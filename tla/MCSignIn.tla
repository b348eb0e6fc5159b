------------------------------ MODULE MCSignIn ------------------------------
(* Two accounts that may have the same mailbox sign in, in every order, on a *)
(* database that is new or holds a record of an older release.               *)
EXTENDS SignIn, TLC

CONSTANTS a1, a2, e1, e2

MCAccounts == {a1, a2}
MCEmails == {e1, e2}

MCLegacyRecords == [id : {a1, None}, email : {e1, None}, token : {0}]

\* An account is named in full, only by its id, by a mailbox in one place, by a
\* blank one, or without its id.
MCNamed(a, i, p, m, o) ==
    [account |-> a, profile |-> [id |-> i, email |-> p],
     metadata |-> [email |-> m, org |-> o]]

MCIdentities ==
    UNION {{MCNamed(a, a, e1, e1, a), MCNamed(a, a, None, e2, a),
            MCNamed(a, a, e1, None, None), MCNamed(a, a, None, None, None),
            MCNamed(a, a, None, Blank, None),
            MCNamed(a, None, e1, e1, None)} : a \in Accounts}

MCToken(full) == [owner |-> a1, gen |-> 0, full |-> full]

\* Before the columns for native data there was no id; a mailbox was optional.
MCOldRecords ==
    [oauth : {MCToken(FALSE)}, key : {None}, native : {Null},
     profile : {NoProfile}, email : {e1, None}, org : {a1}]
    \cup
    [oauth : {None}, key : {MCToken(FALSE)}, native : {Null},
     profile : {NoProfile}, email : {e1, None}, org : {a1}]
    \cup
    [oauth : {MCToken(FALSE)}, key : {None}, native : {MCToken(TRUE)},
     profile : {[id |-> a1, email |-> None]}, email : {e1, None}, org : {a1}]
=============================================================================
