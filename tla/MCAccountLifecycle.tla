------------------------- MODULE MCAccountLifecycle -------------------------
(* Small instances of AccountLifecycle; each cfg picks its sets. *)
EXTENDS AccountLifecycle, TLC

CONSTANTS a1, a2, e1, r1, r2, l1, l2, x, y

\* One account this instance may have served before the binding existed.
KnownRecord == {[id |-> a1, email |-> e1, token |-> 0]}

\* A record of an older release that names a mailbox and no account.
MailboxRecord == {[id |-> None, email |-> e1, token |-> 0]}

OneAccountSet == {a1}
TwoAccounts == {a1, a2}
OneEmail == {e1}
NoRequests == {}
OneRequest == {r1}
TwoRequests == {r1, r2}
NoLogins == {}
OneLogin == {l1}
TwoLogins == {l1, l2}
OneAdmin == {x}
TwoAdmins == {x, y}

RequestSymmetry == Permutations({r1, r2})
=============================================================================
