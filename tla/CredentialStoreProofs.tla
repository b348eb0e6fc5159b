----------------------- MODULE CredentialStoreProofs -----------------------
(***************************************************************************)
(* What CredentialStore promises, for every set of accounts, mailboxes,    *)
(* token generations and legacy records.                                   *)
(***************************************************************************)
EXTENDS CredentialStore, TLAPS

(***************************************************************************)
(* ActiveMatchesBinding is not inductive: a closed database may hold an    *)
(* unbound record (one that was never opened since the upgrade), and Open  *)
(* must not find a bound record of another account.                        *)
(***************************************************************************)
StoreInv ==
    /\ StoreTypeOK
    /\ opened /\ active # None => binding # None
    /\ binding # None /\ active # None => binding = FromCredential(active)

-----------------------------------------------------------------------------
\* A binding made from a credential is a binding, and never the absent one.
LEMMA BindingOfCredential ==
    ASSUME NEW c \in Credentials
    PROVE  /\ FromCredential(c) \in Bindings
           /\ FromCredential(c) # None
  BY StoreAssumption DEF StoreAssumption, Credentials, Bindings, FromCredential

\* Migration, saves and logouts keep the two records of the table consistent
\* (open, save and clear of store.rs).
LEMMA StoreInvInductive ==
    ASSUME StoreInv, [StoreNext]_storeVars
    PROVE  StoreInv'
  <1> USE DEF StoreInv, StoreTypeOK
  <1>1. CASE Open
    BY <1>1, BindingOfCredential DEF Open
  <1>2. ASSUME NEW c \in Credentials, Save(c)
        PROVE  StoreInv'
    BY <1>2, BindingOfCredential DEF Save
  <1>3. CASE Clear
    BY <1>3 DEF Clear
  <1>4. CASE Close
    BY <1>4 DEF Close
  <1>5. CASE UNCHANGED storeVars
    BY <1>5 DEF storeVars, FromCredential
  <1> QED
    BY <1>1, <1>2, <1>3, <1>4, <1>5 DEF StoreNext

\* Any records an older release may have left satisfy the invariant.
LEMMA StoreInvInitially == StoreInit => StoreInv
  BY StoreAssumption DEF StoreAssumption, StoreInit, StoreInv, StoreTypeOK

\* The two records of the table are always consistent (store.rs).
THEOREM StoreInvariant == StoreSpec => []StoreInv
  BY StoreInvInitially, StoreInvInductive, PTL DEF StoreSpec

-----------------------------------------------------------------------------
\* The variables of the database keep their types (struct Credential and
\* AccountBinding of store.rs).
THEOREM StoreTypeCorrect == StoreSpec => []StoreTypeOK
  BY StoreInvariant, PTL DEF StoreInv

\* The credential in use is always the one the binding was made from (save
\* writes both records in one transaction, open migrates an unbound one).
THEOREM ActiveAlwaysMatches == StoreSpec => []ActiveMatchesBinding
  <1>1. StoreInv => ActiveMatchesBinding
    BY DEF StoreInv, ActiveMatchesBinding
  <1> QED
    BY <1>1, StoreInvariant, PTL

-----------------------------------------------------------------------------
\* A binding, once there, is not changed by any transaction.
LEMMA StepKeepsBinding ==
    ASSUME StoreInv, [StoreNext]_storeVars
    PROVE  BindingKept
  <1> USE DEF BindingKept
  <1>1. CASE Open
    BY <1>1 DEF Open
  <1>2. ASSUME NEW c \in Credentials, Save(c), binding # None
        PROVE  BindingKept
    <2>1. Accepts(binding, c) /\ binding' = FromCredential(c)
      BY <1>2 DEF Save, MaySave
    <2>2. binding \in Bindings /\ binding' # None
      BY <1>2, <2>1, BindingOfCredential DEF StoreInv, StoreTypeOK
    <2> QED
      BY <2>1, <2>2 DEF Accepts, FromCredential, Bindings
  <1>3. CASE Clear
    BY <1>3 DEF Clear
  <1>4. CASE Close
    BY <1>4 DEF Close
  <1>5. CASE UNCHANGED storeVars
    BY <1>5 DEF storeVars
  <1> QED
    BY <1>1, <1>2, <1>3, <1>4, <1>5 DEF StoreNext

\* No step of the program, a restart and a migration included, hands the
\* instance to another account or makes it unbound (accepts of store.rs).
THEOREM BindingIsPermanent == StoreSpec => BindingPermanent
  <1>1. StoreInv /\ [StoreNext]_storeVars => [BindingKept]_storeVars
    BY StepKeepsBinding
  <1> QED
    BY <1>1, StoreInvariant, PTL DEF StoreSpec, BindingPermanent

-----------------------------------------------------------------------------
\* The instance a database presents to its users, in the abstract state.
Identity == IF owner = None THEN None
            ELSE [id |-> owner.id,
                  email |-> IF owner.id = None THEN owner.email ELSE None]

\* Initial databases map to initial states of the promise.
LEMMA PromiseInitially == StoreInit => Promise!Init
  <1> SUFFICES ASSUME StoreInit
               PROVE  Promise!Init
    OBVIOUS
  <1>1. CASE active = None
    BY <1>1 DEF StoreInit, Promise!Init, owner
  <1>2. CASE active # None
    <2>1. active \in Credentials /\ active \in LegacyRecords
      BY <1>2, StoreAssumption DEF StoreAssumption, StoreInit
    <2>2. owner = FromCredential(active) /\ owner # None
      BY <1>2, <2>1, BindingOfCredential DEF owner, StoreInit
    <2> QED
      BY <1>2, <2>1, <2>2 DEF StoreInit, Promise!Init, Promise!IdentityOf,
                              FromCredential
  <1> QED
    BY <1>1, <1>2

\* Transactions map to steps of the promise or to stuttering.
LEMMA PromiseStep ==
    ASSUME StoreInv, [StoreNext]_storeVars
    PROVE  [Promise!Next]_<<Identity, active>>
  <1> USE DEF Identity
  <1>0. StoreInv'
    BY StoreInvInductive
  <1>1. CASE Open
    <2>1. owner' = owner
      <3>1. CASE binding = None /\ active # None
        <4>1. binding' # None
          BY <1>0, <1>1, <3>1 DEF StoreInv, Open
        <4> QED
          BY <1>1, <3>1, <4>1 DEF Open, owner
      <3>2. CASE ~(binding = None /\ active # None)
        BY <1>1, <3>2 DEF Open, owner, FromCredential
      <3> QED
        BY <3>1, <3>2
    <2> QED
      BY <1>1, <2>1 DEF Open
  <1>2. ASSUME NEW c \in Credentials, Save(c)
        PROVE  Promise!SignIn(c)
    <2>1. binding' = FromCredential(c) /\ active' = c /\ MaySave(c)
      BY <1>2 DEF Save
    <2>2. owner' = FromCredential(c) /\ owner' # None
      BY <2>1, BindingOfCredential DEF owner
    <2>3. Identity' = Promise!IdentityOf(c)
      BY <2>2 DEF Promise!IdentityOf, FromCredential
    <2>4. Promise!Belongs(c)
      <3>1. CASE binding = None
        <4>1. owner = None
          BY <1>2, <3>1 DEF Save, StoreInv, owner
        <4> QED
          BY <2>1, <3>1, <4>1 DEF MaySave, Promise!Belongs
      <3>2. CASE binding # None
        <4>1. owner = binding /\ binding \in Bindings
          BY <3>2 DEF owner, StoreInv, StoreTypeOK
        <4>2. Identity # None
          BY <3>2, <4>1, StoreAssumption DEF StoreAssumption, Bindings
        <4> QED
          BY <2>1, <3>2, <4>1, <4>2
             DEF MaySave, Accepts, Promise!Belongs, Bindings
      <3> QED
        BY <3>1, <3>2
    <2> QED
      BY <2>1, <2>3, <2>4 DEF Promise!SignIn
  <1>3. CASE Clear
    <2>1. owner' = owner
      BY <1>3 DEF Clear, StoreInv, owner
    <2> QED
      BY <1>3, <2>1 DEF Clear, Promise!Next, Promise!SignOut
  <1>4. CASE Close
    BY <1>4 DEF Close, owner, FromCredential
  <1>5. CASE UNCHANGED storeVars
    BY <1>5 DEF storeVars, owner, FromCredential
  <1> QED
    BY <1>1, <1>2, <1>3, <1>4, <1>5 DEF StoreNext, Promise!Next

\* The database implements the abstract promise: an instance belongs to one
\* account for its whole life (the whole of store.rs).
THEOREM StoreImplementsOneAccount == StoreSpec => OneAccountForLife
  <1>1. StoreInv /\ [StoreNext]_storeVars => [Promise!Next]_<<Identity, active>>
    BY PromiseStep
  <1> QED
    BY <1>1, PromiseInitially, StoreInvariant, PTL
       DEF StoreSpec, OneAccountForLife, Promise!Spec, Identity
=============================================================================
