---------------------------- MODULE SignInProofs ----------------------------
(***************************************************************************)
(* What a login saves and what a record holds, for any accounts, CLI       *)
(* answers and number of tokens: no callback is left without an answer, a  *)
(* login is captured only after the CLI approved of it, and a record is of *)
(* one account.                                                            *)
(***************************************************************************)
EXTENDS SignIn, CredentialStoreProofs

Frames == Responses \cup Requests

\* The calls of the phase a login is in.
CallsOf == [none |-> 0, initializing |-> 1, authorizing |-> 2, waiting |-> 2,
            completing |-> 3, captured |-> 3]

PipeTypeOK ==
    /\ calls \in 0 .. 3 /\ answered \in 0 .. calls
    /\ out \in Seq(Frames)
    /\ waits \in BOOLEAN
    /\ login \in DOMAIN CallsOf /\ calls = CallsOf[login]

\* The p-th frame tells whether the CLI completed the login.
Approval(p) ==
    out[p].type = "control_response" /\ out[p].id = 3 /\ out[p].ok = TRUE

Refusal(p) ==
    out[p].type = "control_response" /\ out[p].id = 3 /\ out[p].ok = FALSE

\* The CLI responds once it has decided: unless it approved, its refusal is in
\* the pipe before every repetition, and stops the login.
FramesInv ==
    /\ \A p \in DOMAIN out :
           out[p].type = "control_response" => out[p].id <= answered
    /\ flow # "approved" /\ answered = 3 => \E p \in DOMAIN out : Refusal(p)
    /\ flow # "approved" =>
           \A p \in DOMAIN out : Approval(p) =>
               \E q \in 1 .. p - 1 : Refusal(q)

FlowInv ==
    /\ login \notin {"completing", "captured"} => flow = "idle"
    /\ login = "captured" => flow = "approved"
    /\ answered = 3 <=> flow \in {"approved", "refused"}
    /\ FramesInv

SecretsOf(f) ==
    {f.fallback, f.keychain, f.consoleKey, f.primary} \ {None}

OwnedFiles(f, a) ==
    /\ f \in Files
    /\ \A s \in SecretsOf(f) : s.owner = a
    /\ f.profile.id \in {None, a}

\* The files of a login are those of the account that signs in, those of the
\* copy in use are of the account on record.
OwnerInv ==
    /\ login # "none" /\ flow = "idle" => copy = EmptyCopy
    /\ flow \in {"exchanged", "profiled", "approved"} =>
           /\ profile \in Identities
           /\ OwnedFiles(copy, profile.account)
    /\ flow \in {"profiled", "approved"} => copy.profile = profile.profile
    /\ login = "captured" =>
           /\ credential \in Records /\ OfOneAccount(credential)
           /\ SecretOf(credential) \in Secrets
           /\ SecretOf(credential).owner = profile.account
           /\ credential.profile.id = profile.account
    /\ record # None => record \in Records /\ OfOneAccount(record)
    /\ cache # None =>
           record # None /\ OwnedFiles(cache, SecretOf(record).owner)
    /\ using => cache # None
    /\ obtained \in 0 .. MaxToken

SignInInv == PipeTypeOK /\ CallbacksAnswered /\ FlowInv /\ OwnerInv

PipeInv == PipeTypeOK /\ CallbacksAnswered /\ FlowInv

-----------------------------------------------------------------------------
(* The pipe. *)

\* A frame is read that is not the verdict of a login still undecided.
LEMMA HeadRead ==
    ASSUME PipeInv, out # <<>>, out' = Tail(out), UNCHANGED <<answered, flow>>,
           waits' => waits /\ Head(out).type = "control_response",
           flow # "approved" =>
               ~(Head(out).type = "control_response" /\ Head(out).id = 3)
    PROVE  out' \in Seq(Frames) /\ CallbacksAnswered' /\ FramesInv'
  <1>1. /\ out \in Seq(Frames) /\ Len(out) \in Nat /\ Len(out) > 0
        /\ Len(out') = Len(out) - 1 /\ Head(out) = out[1]
        /\ DOMAIN out = 1 .. Len(out) /\ DOMAIN out' = 1 .. Len(out) - 1
        /\ out' \in Seq(Frames)
        /\ \A p \in 1 .. Len(out) - 1 : out'[p] = out[p + 1]
    BY DEF PipeInv, PipeTypeOK
  <1>2. \A p \in 2 .. Len(out) : p - 1 \in DOMAIN out' /\ out'[p - 1] = out[p]
    BY <1>1
  <1>3. CallbacksAnswered'
    <2>1. waits' =>
              \E p \in DOMAIN out : out[p].type = "control_request" /\ p # 1
      BY <1>1 DEF PipeInv, CallbacksAnswered
    <2>2. waits' => \E p \in 2 .. Len(out) : out[p].type = "control_request"
      BY <1>1, <2>1
    <2> QED
      BY <1>2, <2>2 DEF CallbacksAnswered
  <1>4. FramesInv'
    <2>1. \A p \in DOMAIN out' :
              out'[p].type = "control_response" => out'[p].id <= answered
      BY <1>1 DEF PipeInv, FlowInv, FramesInv
    <2>2. flow # "approved" => ~Refusal(1) /\ ~Approval(1)
      BY <1>1 DEF Approval, Refusal
    <2>3. ASSUME flow # "approved", answered = 3
          PROVE  \E p \in DOMAIN out' : Refusal(p)'
      <3>1. PICK p \in DOMAIN out : Refusal(p)
        BY <2>3 DEF PipeInv, FlowInv, FramesInv
      <3>2. p \in 2 .. Len(out)
        BY <1>1, <2>2, <2>3, <3>1
      <3> QED
        BY <1>2, <3>1, <3>2 DEF Approval, Refusal
    <2>4. ASSUME flow # "approved", NEW p \in DOMAIN out', Approval(p)'
          PROVE  \E q \in 1 .. p - 1 : Refusal(q)'
      <3>1. p + 1 \in DOMAIN out /\ Approval(p + 1) /\ p \in Nat
        BY <1>1, <2>4 DEF Approval, Refusal
      <3>2. PICK q \in 1 .. (p + 1) - 1 : Refusal(q)
        BY <2>4, <3>1 DEF PipeInv, FlowInv, FramesInv
      <3>3. q \in 2 .. Len(out) /\ q - 1 \in 1 .. p - 1
        BY <1>1, <2>2, <2>4, <3>1, <3>2
      <3> QED
        BY <1>2, <3>2, <3>3 DEF Approval, Refusal
    <2> QED
      BY <2>1, <2>3, <2>4 DEF FramesInv
  <1> QED
    BY <1>1, <1>3, <1>4

\* The CLI writes a frame; it responds to the login's callback with a refusal
\* unless it has approved.
LEMMA FrameWritten ==
    ASSUME PipeInv, NEW e \in Frames, out' = Append(out, e),
           waits' => waits \/ e.type = "control_request",
           answered <= answered', answered' \in 0 .. 3,
           e.type = "control_response" => e.id <= answered',
           flow' # "approved" =>
               /\ flow # "approved"
               /\ \/ answered' = answered
                  \/ answered' # 3
                  \/ e.type = "control_response" /\ e.id = 3 /\ ~e.ok
               /\ e.type = "control_response" /\ e.id = 3 /\ e.ok =>
                      answered = 3
    PROVE  out' \in Seq(Frames) /\ CallbacksAnswered' /\ FramesInv'
  <1>1. /\ out \in Seq(Frames) /\ Len(out) \in Nat
        /\ DOMAIN out = 1 .. Len(out) /\ DOMAIN out' = 1 .. Len(out) + 1
        /\ out' \in Seq(Frames) /\ out'[Len(out) + 1] = e
        /\ \A p \in 1 .. Len(out) : out'[p] = out[p]
        /\ answered \in 0 .. 3
    BY DEF PipeInv, PipeTypeOK
  <1>2. CallbacksAnswered'
    BY <1>1 DEF PipeInv, CallbacksAnswered
  <1>3. FramesInv'
    <2>1. \A p \in DOMAIN out' :
              out'[p].type = "control_response" => out'[p].id <= answered'
      <3> TAKE p \in DOMAIN out'
      <3>1. CASE p = Len(out) + 1
        BY <1>1, <3>1
      <3>2. CASE p \in 1 .. Len(out)
        <4>1. out'[p].type = "control_response" => out'[p].id <= answered
          BY <1>1, <3>2 DEF PipeInv, FlowInv, FramesInv
        <4>2. out'[p].type = "control_response" => out'[p].id \in 1 .. 3
          BY <1>1, <3>2 DEF Frames, Responses, Requests
        <4> QED
          BY <1>1, <4>1, <4>2
      <3> QED
        BY <1>1, <3>1, <3>2
    <2>2. ASSUME flow' # "approved", answered' = 3
          PROVE  \E p \in DOMAIN out' : Refusal(p)'
      <3>1. CASE answered = 3
        <4>1. PICK p \in DOMAIN out : Refusal(p)
          BY <2>2, <3>1 DEF PipeInv, FlowInv, FramesInv
        <4> QED
          BY <1>1, <4>1 DEF Approval, Refusal
      <3>2. CASE e.type = "control_response" /\ e.id = 3 /\ e.ok = FALSE
        BY <1>1, <3>2 DEF Approval, Refusal
      <3>3. e.type = "control_response" => e.ok \in BOOLEAN
        BY DEF Frames, Responses, Requests
      <3> QED
        BY <2>2, <3>1, <3>2, <3>3
    <2>3. ASSUME flow' # "approved", NEW p \in DOMAIN out', Approval(p)'
          PROVE  \E q \in 1 .. p - 1 : Refusal(q)'
      <3>1. CASE p \in 1 .. Len(out)
        <4>1. Approval(p)
          BY <1>1, <2>3, <3>1 DEF Approval, Refusal
        <4>2. PICK q \in 1 .. p - 1 : Refusal(q)
          BY <1>1, <2>3, <3>1, <4>1 DEF PipeInv, FlowInv, FramesInv
        <4> QED
          BY <1>1, <3>1, <4>2 DEF Approval, Refusal
      <3>2. CASE p = Len(out) + 1
        <4>1. e.type = "control_response" /\ e.id = 3 /\ e.ok = TRUE
          BY <1>1, <2>3, <3>2 DEF Approval, Refusal
        <4>2. PICK q \in DOMAIN out : Refusal(q)
          BY <2>3, <4>1 DEF PipeInv, FlowInv, FramesInv
        <4> QED
          BY <1>1, <3>2, <4>2 DEF Approval, Refusal
      <3> QED
        BY <1>1, <3>1, <3>2
    <2> QED
      BY <2>1, <2>2, <2>3 DEF FramesInv
  <1> QED
    BY <1>1, <1>2, <1>3

-----------------------------------------------------------------------------
(* Files and records of one account. *)

\* The absent values are none of the values.
LEMMA NoSecrets == None \notin Secrets /\ Null \notin Secrets /\ Null # None
                   /\ None \notin Records /\ None \notin Files
  BY CopyAssumption

\* What is captured from the files of one account is a record of that account
\* (capture of credential_cache.rs).
LEMMA CaptureOwned ==
    ASSUME NEW f, NEW a, OwnedFiles(f, a), CanCapture(f),
           NEW base, base # None => base \in Records /\ base.org \in {None, a},
           NEW m \in Metadata, m.org \in {None, a},
           NEW c, c = Capture(f, base, m)
    PROVE  /\ c \in Records /\ OfOneAccount(c) /\ SecretOf(c) \in Secrets
           /\ SecretOf(c).owner = a /\ c.profile = f.profile
  <1>1. /\ f \in Files
        /\ Tokens(f) # None => Tokens(f) \in Secrets /\ Tokens(f).owner = a
        /\ Key(f) # None => Key(f) \in Secrets /\ Key(f).owner = a
        /\ f.profile \in Profiles /\ f.profile.id \in {None, a}
    BY NoSecrets DEF OwnedFiles, SecretsOf, Files, Tokens, Key, First
  <1>2. a \in Accounts
    BY <1>1 DEF CanCapture, Secrets
  <1>3. /\ c.oauth = Column(Tokens(f)) /\ c.key = Key(f)
        /\ c.native = Tokens(f) /\ c.profile = f.profile
        /\ c.email \in Mailboxes \cup {None} /\ c.org \in {None, a}
    BY <1>1, NoSecrets DEF Capture, First, Metadata, Profiles, Records
  <1>4. \A s \in Secrets : s.owner = a =>
            /\ Column(s) \in Secrets /\ Column(s).owner = a
            /\ Column(s) # None
    BY NoSecrets DEF Column, Secrets
  <1>5. Column(None) = None
    BY DEF Column
  <1>6. c \in Records
    BY <1>1, <1>2, <1>3, <1>4, <1>5 DEF Records, Capture
  <1>7. SecretOf(c) \in Secrets /\ SecretOf(c).owner = a
    BY <1>1, <1>3, <1>5, NoSecrets DEF SecretOf, First, CanCapture
  <1>8. OfOneAccount(c)
    <2>1. \A s \in Secrets : s.owner = a =>
              s \in [owner : {a}, gen : 0 .. MaxToken, full : BOOLEAN]
      BY DEF Secrets
    <2> QED
      BY <1>1, <1>3, <1>4, <1>5, <1>7, <2>1 DEF OfOneAccount
  <1> QED
    BY <1>3, <1>6, <1>7, <1>8

\* What the store sees of a record with token material is a credential.
LEMMA ViewOfRecord ==
    ASSUME NEW c \in Records, SecretOf(c) \in Secrets
    PROVE  View(c) \in Credentials
  BY DEF View, Records, Profiles, Secrets, Credentials, Mailboxes

\* A sync captures a record of the account on record (sync of oauth.rs).
LEMMA SyncCaptures ==
    ASSUME OwnerInv, Sync
    PROVE  /\ record' \in Records /\ OfOneAccount(record')
           /\ SecretOf(record') \in Secrets
           /\ SecretOf(record').owner = SecretOf(record).owner
           /\ View(record') \in Credentials
  <1>1. PICK m, a : m = NoMetadata /\ a = SecretOf(record).owner
    OBVIOUS
  <1>2. m \in Metadata /\ m.org \in {None, a}
    BY <1>1 DEF NoMetadata, Metadata
  <1>3. /\ record \in Records /\ record.org \in {None, a}
        /\ OwnedFiles(cache, a) /\ CanCapture(cache)
        /\ record' = Capture(cache, record, m)
    BY <1>1 DEF OwnerInv, Sync, OfOneAccount
  <1> QED
    BY <1>1, <1>2, <1>3, CaptureOwned, ViewOfRecord

\* A copy made from the record of one account has only files of that account
\* (new of credential_cache.rs).
LEMMA NewCopyOwned ==
    ASSUME NEW c \in Records, OfOneAccount(c)
    PROVE  OwnedFiles(NewCopy(c), SecretOf(c).owner)
  <1>1. \A s \in {c.oauth, c.key, c.native} \ {None, Null} :
            s \in Secrets /\ s.owner = SecretOf(c).owner
    BY DEF OfOneAccount, Records, Secrets
  <1>2. c.oauth # Null /\ c.key # Null
    BY NoSecrets DEF Records
  <1>3. c.profile \in Profiles /\ c.profile.id \in {None, SecretOf(c).owner}
    BY DEF OfOneAccount, Records
  <1> QED
    BY <1>1, <1>2, <1>3, NoSecrets
       DEF NewCopy, EmptyCopy, OwnedFiles, SecretsOf, Files

\* Storing tokens or a key of the account keeps the files those of the account.
LEMMA StoredOwned ==
    ASSUME NEW f, NEW s \in Secrets, OwnedFiles(f, s.owner), NEW on
    PROVE  /\ OwnedFiles(StoreTokens(f, s, on), s.owner)
           /\ OwnedFiles(StoreKey(f, s, on), s.owner)
  BY DEF OwnedFiles, SecretsOf, Files, StoreTokens, StoreKey

-----------------------------------------------------------------------------
(* Every step keeps the invariant. *)

\* A positive response to the callback of the login comes from a CLI that
\* approved.
LEMMA CallbackApproved ==
    ASSUME PipeInv, Returned("completing")
    PROVE  /\ flow = "approved"
           /\ Head(out).type = "control_response" /\ Head(out).id = 3
  <1>1. /\ calls = 3 /\ out # <<>> /\ Head(out) = out[1] /\ 1 \in DOMAIN out
        /\ out[1] \in Frames
    BY DEF PipeInv, PipeTypeOK, CallsOf, Returned, OwnResponse
  <1>2. Approval(1)
    BY <1>1 DEF Returned, OwnResponse, Approval, Frames, Responses
  <1> QED
    BY <1>1, <1>2 DEF PipeInv, FlowInv, FramesInv, Approval

\* Every step keeps the calls, the frames and the flow of a login in step.
LEMMA PipeStep ==
    ASSUME SignInInv, SignInNext
    PROVE  PipeInv'
  <1> USE DEF rpcVars, flowVars, cacheVars, recordVars, loginVars, CallsOf
  <1>1. /\ PipeInv /\ calls \in 0 .. 3 /\ answered \in 0 .. calls
        /\ out \in Seq(Frames) /\ waits \in BOOLEAN
        /\ login \in DOMAIN CallsOf /\ calls = CallsOf[login]
        /\ flow # "approved" /\ answered = 3 => out # <<>>
    BY DEF SignInInv, PipeInv, PipeTypeOK, FlowInv, FramesInv
  <1>2. /\ login \notin {"completing", "captured"} => flow = "idle"
        /\ login = "captured" => flow = "approved"
        /\ answered = 3 <=> flow \in {"approved", "refused"}
        /\ FramesInv /\ CallbacksAnswered
    BY DEF SignInInv, FlowInv
  <1>3. out # <<>> =>
            /\ 1 \in DOMAIN out /\ Head(out) = out[1] /\ Head(out) \in Frames
            /\ Head(out).type = "control_response" => Head(out).id <= answered
    BY <1>1, <1>2 DEF FramesInv
  \* The frames stay as they are.
  <1>4. ASSUME UNCHANGED <<out, answered, waits>>,
               flow' # "approved" => flow # "approved"
        PROVE  out' \in Seq(Frames) /\ CallbacksAnswered' /\ FramesInv'
    BY <1>1, <1>2, <1>4
       DEF CallbacksAnswered, FramesInv, Approval, Refusal
  \* Nothing of the login or its pipe changes.
  <1>5. ASSUME UNCHANGED <<rpcVars, login, flow>>
        PROVE  PipeInv'
    <2>1. out' \in Seq(Frames) /\ CallbacksAnswered' /\ FramesInv'
      BY <1>4, <1>5
    <2> QED
      BY <1>1, <1>2, <1>5, <2>1 DEF PipeInv, PipeTypeOK, FlowInv
  \* There is no login, and no CLI.
  <1>6. ASSUME NoLogin
        PROVE  PipeInv'
    <2>1. /\ calls' = 0 /\ answered' = 0 /\ waits' = FALSE /\ login' = "none"
          /\ flow' = "idle" /\ out' = <<>>
      BY <1>6 DEF NoLogin, RpcClose
    <2>2. out' \in Seq(Frames) /\ DOMAIN out' = {}
      BY <2>1
    <2>3. FramesInv' /\ CallbacksAnswered'
      BY <2>1, <2>2 DEF FramesInv, CallbacksAnswered
    <2>4. CallsOf["none"] = 0 /\ "none" \in DOMAIN CallsOf
      OBVIOUS
    <2>5. login' \in DOMAIN CallsOf /\ calls' = CallsOf[login']
      BY <2>1, <2>4
    <2>6. calls' \in 0 .. 3 /\ answered' \in 0 .. calls'
      BY <2>1
    <2>7. waits' \in BOOLEAN
      BY <2>1, Zenon
    <2>8. PipeTypeOK'
      BY <2>2, <2>5, <2>6, <2>7 DEF PipeTypeOK
    <2> QED
      BY <2>1, <2>3, <2>8 DEF PipeInv, FlowInv
  <1>7. CASE Authorize
    <2>1. out' \in Seq(Frames) /\ CallbacksAnswered' /\ FramesInv'
      BY <1>4, <1>7 DEF Authorize, RpcCall
    <2> QED
      BY <1>1, <1>2, <1>7, <2>1
         DEF Authorize, RpcCall, PipeInv, PipeTypeOK, FlowInv
  <1>8. CASE Initialized
    <2>1. out' \in Seq(Frames) /\ CallbacksAnswered' /\ FramesInv'
      BY <1>1, <1>8, HeadRead DEF Initialized, Returned, OwnResponse
    <2> QED
      BY <1>1, <1>2, <1>8, <2>1
         DEF Initialized, Returned, PipeInv, PipeTypeOK, FlowInv
  <1>9. CASE Authorized
    <2>1. out' \in Seq(Frames) /\ CallbacksAnswered' /\ FramesInv'
      BY <1>1, <1>9, HeadRead DEF Authorized, Returned, OwnResponse, RpcRead
    <2> QED
      BY <1>1, <1>2, <1>9, <2>1
         DEF Authorized, Returned, RpcRead, PipeInv, PipeTypeOK, FlowInv
  <1>10. CASE Complete
    <2>1. out' \in Seq(Frames) /\ CallbacksAnswered' /\ FramesInv'
      BY <1>4, <1>10 DEF Complete, RpcCall
    <2> QED
      BY <1>1, <1>2, <1>10, <2>1
         DEF Complete, RpcCall, PipeInv, PipeTypeOK, FlowInv
  <1>11. CASE PassOver
    <2>1. ~(Head(out).type = "control_response" /\ Head(out).id = 3)
      BY <1>1, <1>3, <1>11 DEF PassOver, ReadOther, OwnResponse
    <2>2. out' \in Seq(Frames) /\ CallbacksAnswered' /\ FramesInv'
      BY <1>1, <1>11, <2>1, HeadRead DEF PassOver, ReadOther
    <2> QED
      BY <1>1, <1>2, <1>11, <2>2
         DEF PassOver, ReadOther, PipeInv, PipeTypeOK, FlowInv
  <1>12. CASE Completed
    <2>2. flow = "approved" /\ Head(out).type = "control_response"
      BY <1>1, <1>12, CallbackApproved DEF Completed
    <2>3. out' \in Seq(Frames) /\ CallbacksAnswered' /\ FramesInv'
      BY <1>1, <1>12, <2>2, HeadRead
         DEF Completed, Returned, OwnResponse, RpcRead
    <2> QED
      BY <1>1, <1>2, <1>12, <2>2, <2>3
         DEF Completed, Returned, RpcRead, PipeInv, PipeTypeOK, FlowInv
  <1>13. CASE Commit \/ LoginFails \/ Stop
    BY <1>6, <1>13 DEF Commit, LoginFails, Stop
  <1>14. ASSUME NEW ok \in BOOLEAN, Responds(ok)
         PROVE  PipeInv'
    <2> DEFINE e == [type |-> "control_response", id |-> calls, ok |-> ok]
    <2>1. /\ answered < calls /\ answered' = calls /\ calls' = calls
          /\ login' = login /\ login \in Calling
          /\ out' = Append(out, e) /\ e \in Frames /\ waits' = waits
      BY <1>1, <1>14 DEF Responds, CliResponds, Frames, Responses
    <2>2. /\ calls = 3 /\ ok => flow' = "approved"
          /\ calls = 3 /\ ~ok => flow' = "refused"
          /\ calls # 3 => flow' = flow
      BY <1>14 DEF Responds
    <2>3. flow # "approved"
      BY <1>1, <1>2, <2>1
    <2>4. out' \in Seq(Frames) /\ CallbacksAnswered' /\ FramesInv'
      BY <1>1, <2>1, <2>2, <2>3, FrameWritten
    <2> QED
      BY <1>1, <1>2, <2>1, <2>2, <2>4
         DEF Calling, PipeInv, PipeTypeOK, FlowInv
  <1>15. CASE Repeats
    <2> DEFINE e == [type |-> "control_response", id |-> answered, ok |-> TRUE]
    <2>1. e \in Frames /\ out' = Append(out, e)
      BY <1>1, <1>15 DEF Repeats, CliRepeats, Frames, Responses
    <2>2. out' \in Seq(Frames) /\ CallbacksAnswered' /\ FramesInv'
      BY <1>1, <1>15, <2>1, FrameWritten DEF Repeats, CliRepeats
    <2> QED
      BY <1>1, <1>2, <1>15, <2>2
         DEF Repeats, CliRepeats, PipeInv, PipeTypeOK, FlowInv
  <1>16. CASE Asks
    <2>1. PICK kind \in Kinds : CliAsks(kind)
      BY <1>16 DEF Asks
    <2> DEFINE e == [type |-> "control_request", subtype |-> kind]
    <2>2. e \in Frames /\ out' = Append(out, e)
      BY <2>1 DEF CliAsks, Frames, Requests
    <2>3. out' \in Seq(Frames) /\ CallbacksAnswered' /\ FramesInv'
      BY <1>1, <1>16, <2>1, <2>2, FrameWritten DEF Asks, CliAsks
    <2> QED
      BY <1>1, <1>2, <1>16, <2>1, <2>3
         DEF Asks, CliAsks, PipeInv, PipeTypeOK, FlowInv
  <1>17. ASSUME NEW who \in Identities, NEW console \in BOOLEAN,
                Exchanges(who, console)
         PROVE  PipeInv'
    <2>1. out' \in Seq(Frames) /\ CallbacksAnswered' /\ FramesInv'
      BY <1>4, <1>17 DEF Exchanges
    <2> QED
      BY <1>1, <1>2, <1>17, <2>1 DEF Exchanges, PipeInv, PipeTypeOK, FlowInv
  <1>18. CASE WritesProfile
    <2>1. out' \in Seq(Frames) /\ CallbacksAnswered' /\ FramesInv'
      BY <1>4, <1>18 DEF WritesProfile
    <2> QED
      BY <1>1, <1>2, <1>18, <2>1 DEF WritesProfile, PipeInv, PipeTypeOK, FlowInv
  <1>19. CASE UseCache \/ Refresh \/ DropFallback \/ Sync \/ Leave \/ Logout
              \/ Start
    BY <1>5, <1>19
       DEF UseCache, Refresh, DropFallback, Sync, Leave, Logout, Start
  <1>20. ASSUME NEW email \in Mailboxes, LearnProfile(email)
         PROVE  PipeInv'
    BY <1>5, <1>20 DEF LearnProfile
  <1> QED
    BY <1>7, <1>8, <1>9, <1>10, <1>11, <1>12, <1>13, <1>14, <1>15, <1>16,
       <1>17, <1>18, <1>19, <1>20 DEF SignInNext

\* Every step keeps the files, the capture and the record those of one account.
LEMMA OwnerStep ==
    ASSUME SignInInv, SignInNext
    PROVE  OwnerInv'
  <1> USE DEF rpcVars, flowVars, cacheVars, recordVars, loginVars
  <1>1. /\ login # "none" /\ flow = "idle" => copy = EmptyCopy
        /\ flow \in {"exchanged", "profiled", "approved"} =>
               profile \in Identities /\ OwnedFiles(copy, profile.account)
        /\ flow \in {"profiled", "approved"} => copy.profile = profile.profile
        /\ login = "captured" =>
               /\ credential \in Records /\ OfOneAccount(credential)
               /\ SecretOf(credential) \in Secrets
               /\ SecretOf(credential).owner = profile.account
               /\ credential.profile.id = profile.account
        /\ record # None => record \in Records /\ OfOneAccount(record)
        /\ cache # None =>
               record # None /\ OwnedFiles(cache, SecretOf(record).owner)
        /\ using => cache # None
        /\ obtained \in 0 .. MaxToken
    BY DEF SignInInv, OwnerInv
  <1>2. /\ login \notin {"completing", "captured"} => flow = "idle"
        /\ login = "captured" => flow = "approved"
        /\ PipeInv
    BY DEF SignInInv, FlowInv, PipeInv
  \* The CLI of a login is gone, and the copy in use is as it was.
  <1>3. ASSUME NoLogin, UNCHANGED <<record, cache, using>>
        PROVE  OwnerInv'
    BY <1>1, <1>3 DEF NoLogin, OwnerInv
  <1>4. CASE Authorize
    BY <1>1, <1>2, <1>4 DEF Authorize, OwnerInv
  <1>5. CASE Initialized \/ Authorized \/ Complete \/ PassOver \/ Repeats
             \/ Asks
    BY <1>1, <1>2, <1>5
       DEF Initialized, Authorized, Complete, PassOver, Repeats, Asks,
           Returned, Calling, OwnerInv
  <1>6. CASE Completed
    <2>1. flow = "approved" /\ Head(out).id = 3
      BY <1>2, <1>6, CallbackApproved DEF Completed
    <2>2. /\ profile \in Identities /\ OwnedFiles(copy, profile.account)
          /\ copy.profile = profile.profile
          /\ Told = profile.metadata
          /\ Told \in Metadata /\ Told.org \in {None, profile.account}
          /\ profile.profile.id \in {None, profile.account}
      BY <1>1, <2>1, SignInAssumption DEF Told
    <2>3. credential' = Capture(copy, None, Told) /\ CanCapture(copy)
      BY <1>6 DEF Completed
    <2>4. PICK f, a, m, c : /\ f = copy /\ a = profile.account /\ m = Told
                           /\ c = Capture(f, None, m)
      OBVIOUS
    <2>5. /\ OwnedFiles(f, a) /\ CanCapture(f)
          /\ m \in Metadata /\ m.org \in {None, a}
      BY <2>2, <2>3, <2>4
    <2>6. /\ c \in Records /\ OfOneAccount(c) /\ SecretOf(c) \in Secrets
          /\ SecretOf(c).owner = a /\ c.profile = f.profile
      BY <2>4, <2>5, CaptureOwned
    <2> QED
      BY <1>1, <1>6, <2>1, <2>2, <2>3, <2>4, <2>6 DEF Completed, OwnerInv
  <1>7. CASE Commit
    <2>1. /\ record' = credential /\ cache' = copy /\ UNCHANGED using
          /\ login' = "none" /\ flow' = "idle" /\ UNCHANGED obtained
      BY <1>7 DEF Commit, NoLogin
    <2>2. /\ credential \in Records /\ OfOneAccount(credential)
          /\ OwnedFiles(copy, SecretOf(credential).owner)
      BY <1>1, <1>2, <1>7 DEF Commit
    <2>3. credential # None /\ copy # None
      BY <2>2, NoSecrets DEF OwnedFiles
    <2> QED
      BY <1>1, <2>1, <2>2, <2>3 DEF OwnerInv
  <1>8. CASE LoginFails
    BY <1>3, <1>8 DEF LoginFails
  <1>9. ASSUME NEW ok \in BOOLEAN, Responds(ok)
        PROVE  OwnerInv'
    <2>1. /\ flow' # flow => \/ flow = "profiled" /\ flow' = "approved"
                             \/ flow' = "refused"
          /\ UNCHANGED <<login, credential, copy, profile, obtained, record,
                         cache, using>>
          /\ login # "captured"
      BY <1>9 DEF Responds, Calling
    <2> QED
      BY <1>1, <2>1 DEF OwnerInv
  <1>10. ASSUME NEW who \in Identities, NEW console \in BOOLEAN,
                Exchanges(who, console)
         PROVE  OwnerInv'
    <2> DEFINE s == [owner |-> who.account, gen |-> obtained + 1,
                     full |-> ~console]
    <2>1. /\ s \in Secrets /\ s.owner = who.account
          /\ obtained + 1 \in 0 .. MaxToken
      BY <1>1, <1>10, SignInAssumption, StoreAssumption DEF Exchanges, Secrets
    <2>2. OwnedFiles(EmptyCopy, who.account)
      BY DEF OwnedFiles, EmptyCopy, Files, SecretsOf, Profiles, NoProfile
    <2>3. OwnedFiles(copy', who.account)
      BY <1>1, <1>10, <2>1, <2>2, StoredOwned DEF Exchanges
    <2> QED
      BY <1>1, <1>10, <2>1, <2>3 DEF Exchanges, OwnerInv
  <1>11. CASE WritesProfile
    <2>1. /\ profile.profile \in Profiles
          /\ profile.profile.id \in {None, profile.account}
          /\ profile \in Identities /\ OwnedFiles(copy, profile.account)
      BY <1>1, <1>11, SignInAssumption DEF WritesProfile
    <2>2. OwnedFiles(copy', profile.account) /\ copy'.profile = profile.profile
      BY <1>11, <2>1 DEF WritesProfile, OwnedFiles, Files, SecretsOf
    <2> QED
      BY <1>1, <1>2, <1>11, <2>1, <2>2 DEF WritesProfile, OwnerInv
  <1>12. CASE UseCache
    <2>1. /\ record \in Records /\ OfOneAccount(record)
          /\ cache' = IF cache = None THEN NewCopy(record) ELSE cache
          /\ UNCHANGED <<record, loginVars>>
      BY <1>1, <1>12 DEF UseCache
    <2>2. cache' # None /\ OwnedFiles(cache', SecretOf(record).owner)
      BY <1>1, <2>1, NewCopyOwned, NoSecrets DEF OwnedFiles
    <2> QED
      BY <1>1, <2>1, <2>2, NoSecrets DEF OwnerInv
  <1>13. CASE Refresh
    <2>1. /\ cache # None /\ OwnedFiles(cache, SecretOf(record).owner)
          /\ Tokens(cache) \in Secrets
          /\ Tokens(cache).owner = SecretOf(record).owner
      BY <1>1, <1>13
         DEF Refresh, OwnedFiles, SecretsOf, Files, Tokens, First
    <2>2. /\ newest' \in Secrets /\ newest'.owner = SecretOf(record).owner
          /\ obtained' \in 0 .. MaxToken
      BY <1>1, <1>13, <2>1, StoreAssumption DEF Refresh, Secrets
    <2>3. OwnedFiles(cache', SecretOf(record).owner)
      BY <1>13, <2>1, <2>2, StoredOwned DEF Refresh
    <2>4. cache' # None
      BY <2>3, NoSecrets DEF OwnedFiles
    <2> QED
      BY <1>1, <1>13, <2>2, <2>3, <2>4 DEF Refresh, OwnerInv
  <1>14. CASE DropFallback
    <2>1. cache # None /\ OwnedFiles(cache, SecretOf(record).owner)
      BY <1>1, <1>14 DEF DropFallback
    <2>2. cache' # None /\ OwnedFiles(cache', SecretOf(record).owner)
      BY <1>14, <2>1, NoSecrets DEF DropFallback, OwnedFiles, SecretsOf, Files
    <2> QED
      BY <1>1, <1>14, <2>2 DEF DropFallback, OwnerInv
  <1>15. ASSUME NEW email \in Mailboxes, LearnProfile(email)
         PROVE  OwnerInv'
    <2>1. /\ cache # None /\ OwnedFiles(cache, SecretOf(record).owner)
          /\ Tokens(cache) \in Secrets
          /\ Tokens(cache).owner = SecretOf(record).owner
      BY <1>1, <1>15
         DEF LearnProfile, OwnedFiles, SecretsOf, Files, Tokens, First
    <2>2. [id |-> Tokens(cache).owner, email |-> email] \in Profiles
      BY <2>1 DEF Secrets, Profiles
    <2>3. cache' # None /\ OwnedFiles(cache', SecretOf(record).owner)
      BY <1>15, <2>1, <2>2, NoSecrets
         DEF LearnProfile, OwnedFiles, SecretsOf, Files
    <2> QED
      BY <1>1, <1>15, <2>3 DEF LearnProfile, OwnerInv
  <1>16. CASE Sync
    <2>1. /\ record' \in Records /\ OfOneAccount(record')
          /\ SecretOf(record').owner = SecretOf(record).owner
      BY <1>16, SyncCaptures DEF SignInInv
    <2> QED
      BY <1>1, <1>16, <2>1, NoSecrets DEF Sync, OwnerInv
  <1>17. CASE Leave \/ Logout \/ Start
    BY <1>1, <1>17 DEF Leave, Logout, Start, OwnerInv
  <1>18. CASE Stop
    BY <1>1, <1>18 DEF Stop, NoLogin, OwnerInv
  <1> QED
    BY <1>4, <1>5, <1>6, <1>7, <1>8, <1>9, <1>10, <1>11, <1>12, <1>13, <1>14,
       <1>15, <1>16, <1>17, <1>18 DEF SignInNext

\* A process that starts has no login and no CLI.
LEMMA SignInInvInit == SignInInit => SignInInv
  <1> SUFFICES ASSUME SignInInit PROVE SignInInv
    OBVIOUS
  <1>1. /\ calls = 0 /\ answered = 0 /\ out = <<>> /\ login = "none"
        /\ flow = "idle" /\ DOMAIN out = {} /\ out \in Seq(Frames)
    BY DEF SignInInit, RpcClosed
  <1>2. waits = FALSE /\ waits \in BOOLEAN
    BY Zenon DEF SignInInit, RpcClosed
  <1>3. PipeTypeOK /\ CallbacksAnswered /\ FlowInv
    BY <1>1, <1>2
       DEF PipeTypeOK, CallsOf, CallbacksAnswered, FlowInv, FramesInv
  <1>4. OwnerInv
    BY <1>1, SignInAssumption, StoreAssumption DEF SignInInit, OwnerInv
  <1> QED
    BY <1>3, <1>4 DEF SignInInv

\* The invariant is inductive.
LEMMA SignInInvStep == SignInInv /\ [SignInNext]_signInVars => SignInInv'
  <1> SUFFICES ASSUME SignInInv, [SignInNext]_signInVars PROVE SignInInv'
    OBVIOUS
  <1>1. CASE SignInNext
    BY <1>1, PipeStep, OwnerStep DEF SignInInv, PipeInv
  <1>2. CASE UNCHANGED signInVars
    BY <1>2
       DEF signInVars, recordVars, cacheVars, loginVars, flowVars, rpcVars,
           SignInInv, PipeTypeOK, CallbacksAnswered, FlowInv, FramesInv,
           Approval, Refusal, OwnerInv
  <1> QED
    BY <1>1, <1>2

\* The invariant holds in every behaviour.
LEMMA SignInInvariant == SignInSpec => []SignInInv
  <1>1. QED
    BY SignInInvInit, SignInInvStep, PTL DEF SignInSpec

-----------------------------------------------------------------------------
(***************************************************************************)
(* In every behaviour, the CLI of a login never waits for the answer to a  *)
(* callback that was passed over (call of control.rs): whatever kinds of   *)
(* callback it makes, and however many.                                    *)
(***************************************************************************)
THEOREM CallbacksAreAnswered == SignInSpec => []CallbacksAnswered
  <1>1. SignInInv => CallbacksAnswered
    BY DEF SignInInv
  <1> QED
    BY <1>1, SignInInvariant, PTL

(***************************************************************************)
(* In every behaviour, what a login is about to save has passed the policy *)
(* checks of the CLI and belongs to the account that signed in (complete   *)
(* of oauth.rs): no repeated or earlier response is taken for that of the  *)
(* callback.                                                               *)
(***************************************************************************)
THEOREM SavedHasPassedPolicy == SignInSpec => []SavedAfterPolicy
  <1>1. SignInInv => SavedAfterPolicy
    BY DEF SignInInv, FlowInv, OwnerInv, SavedAfterPolicy
  <1> QED
    BY <1>1, SignInInvariant, PTL

(***************************************************************************)
(* In every behaviour, the tokens, the identity and the organization on    *)
(* record are those of one account: logins, refreshes, syncs, logouts and  *)
(* restarts never mix two (capture and new of credential_cache.rs).        *)
(***************************************************************************)
THEOREM RecordIsOfOneAccount == SignInSpec => []RecordOfOneAccount
  <1>1. SignInInv => RecordOfOneAccount
    BY DEF SignInInv, OwnerInv, RecordOfOneAccount
  <1> QED
    BY <1>1, SignInInvariant, PTL
-----------------------------------------------------------------------------
(* Types. *)

\* What SignInTypeOK says beyond SignInInv and the types of the database.
RestOK ==
    /\ Len(out) <= MaxOut
    /\ repeats \in 0 .. MaxRepeats /\ callbacks \in 0 .. MaxCallbacks
    /\ platform \in Platforms
    /\ active = (IF record = None THEN None ELSE View(record))
    /\ copy \in Files \cup {None}
    /\ newest \in Secrets \cup {None}
    /\ (login = "none") <=> (copy = None)
    /\ profile \in Identities \cup {None}
    /\ flow \in {"idle", "exchanged", "profiled", "approved", "refused"}
    /\ credential \in Records \cup {None}

FlagsOK == using \in BOOLEAN /\ behind \in BOOLEAN

\* Flags only get the values of flags.
LEMMA FlagsStep ==
    ASSUME FlagsOK, SignInNext
    PROVE  FlagsOK'
  <1> USE DEF rpcVars, flowVars, cacheVars, recordVars, loginVars
  <1>1. /\ using' \in {using, TRUE, FALSE}
        /\ behind' \in {behind, TRUE, FALSE}
    BY Zenon
       DEF SignInNext, Authorize, Initialized, Authorized, Complete,
           PassOver, Completed, Commit, LoginFails, Responds, Repeats, Asks,
           Exchanges, WritesProfile, UseCache, Refresh, DropFallback,
           LearnProfile, Sync, Leave, Logout, Start, Stop
  <1> QED
    BY <1>1, Zenon DEF FlagsOK

\* The token material of a record is a token, a key or nothing.
LEMMA SecretOfRecord ==
    ASSUME NEW c \in Records
    PROVE  SecretOf(c) \in Secrets \cup {None}
  BY DEF SecretOf, First, Records

\* Every step keeps the types.
LEMMA RestStep ==
    ASSUME SignInInv, SignInInv', RestOK, SignInNext
    PROVE  RestOK'
  <1> USE DEF rpcVars, flowVars, cacheVars, recordVars, storeVars, loginVars
  <1>1. /\ out \in Seq(Frames) /\ Len(out) \in Nat
        /\ RestOK
        /\ MaxOut \in Nat /\ MaxRepeats \in Nat /\ MaxCallbacks \in Nat
        /\ None \notin Files /\ EmptyCopy \in Files
    BY NoSecrets, RpcAssumption
       DEF SignInInv, PipeTypeOK, EmptyCopy, Files, Profiles, NoProfile
  \* A frame is read, nothing is read, or the CLI is gone.
  <1>2. ASSUME out # <<>>, out' = Tail(out)
        PROVE  Len(out') <= MaxOut
    BY <1>1, <1>2 DEF RestOK
  <1>3. ASSUME NEW e, Len(out) < MaxOut, out' = Append(out, e)
        PROVE  Len(out') <= MaxOut
    BY <1>1, <1>3
  <1>4. ASSUME NoLogin, UNCHANGED platform,
               active' = (IF record' = None THEN None ELSE View(record')),
               newest' \in Secrets \cup {None}
        PROVE  RestOK'
    BY <1>1, <1>4 DEF NoLogin, RpcClose, RestOK
  <1>5. CASE Authorize \/ Complete
    BY <1>1, <1>5 DEF Authorize, Complete, RpcCall, RestOK, View
  <1>6. CASE Initialized \/ Authorized \/ PassOver
    <2>1. Len(out') <= MaxOut
      BY <1>2, <1>6
         DEF Initialized, Authorized, PassOver, Returned, OwnResponse, RpcRead,
             ReadOther
    <2> QED
      BY <1>1, <1>6, <2>1
         DEF Initialized, Authorized, PassOver, Returned, RpcRead, ReadOther,
             Calling, RestOK, View
  <1>7. CASE Completed
    <2>1. Len(out') <= MaxOut
      BY <1>2, <1>7 DEF Completed, Returned, OwnResponse, RpcRead
    <2>2. credential' \in Records
      BY <1>7 DEF Completed, SignInInv, OwnerInv
    <2> QED
      BY <1>1, <1>7, <2>1, <2>2 DEF Completed, Returned, RpcRead, RestOK, View
  <1>8. CASE Commit
    <2>1. credential \in Records /\ credential # None
      BY <1>8, NoSecrets DEF Commit, SignInInv, OwnerInv
    <2>2. active' = (IF record' = None THEN None ELSE View(record'))
      BY <1>8, <2>1 DEF Commit, Save
    <2> QED
      BY <1>4, <1>8, <2>1, <2>2, SecretOfRecord DEF Commit
  <1>9. CASE LoginFails \/ Stop
    BY <1>1, <1>4, <1>9 DEF LoginFails, Stop, Close, RestOK, View
  <1>10. ASSUME NEW ok \in BOOLEAN, Responds(ok)
         PROVE  RestOK'
    <2>1. Len(out') <= MaxOut
      BY <1>3, <1>10 DEF Responds, CliResponds
    <2> QED
      BY <1>1, <1>10, <2>1 DEF Responds, CliResponds, RestOK, View
  <1>11. CASE Repeats
    <2>1. Len(out') <= MaxOut
      BY <1>3, <1>11 DEF Repeats, CliRepeats
    <2> QED
      BY <1>1, <1>11, <2>1 DEF Repeats, CliRepeats, RestOK, View
  <1>12. CASE Asks
    <2>1. PICK kind \in Kinds : CliAsks(kind)
      BY <1>12 DEF Asks
    <2>2. Len(out') <= MaxOut
      BY <1>3, <2>1 DEF CliAsks
    <2> QED
      BY <1>1, <1>12, <2>1, <2>2 DEF Asks, CliAsks, RestOK, View
  <1>13. ASSUME NEW who \in Identities, NEW console \in BOOLEAN,
                Exchanges(who, console)
         PROVE  RestOK'
    <2>1. copy' \in Files
      BY <1>13, <1>1 DEF SignInInv, OwnerInv, Exchanges, OwnedFiles
    <2> QED
      BY <1>1, <1>13, <2>1 DEF Exchanges, RestOK, View
  <1>14. CASE WritesProfile
    <2>1. flow' = "profiled" /\ copy' \in Files /\ copy \in Files
      BY <1>14 DEF SignInInv, OwnerInv, WritesProfile, OwnedFiles
    <2> QED
      BY <1>1, <1>14, <2>1 DEF WritesProfile, RestOK, View
  <1>15. CASE UseCache
    <2>1. newest' \in Secrets \cup {None}
      BY <1>1, <1>15, SecretOfRecord
         DEF UseCache, RestOK, SignInInv, OwnerInv
    <2> QED
      BY <1>1, <1>15, <2>1 DEF UseCache, RestOK, View
  <1>16. CASE Refresh
    <2>1. Tokens(cache) \in Secrets
      BY <1>16
         DEF SignInInv, OwnerInv, OwnedFiles, Files, Refresh, Tokens, First
    <2>2. newest' \in Secrets
      BY <1>16, <2>1, StoreAssumption
         DEF SignInInv, OwnerInv, Refresh, Secrets
    <2> QED
      BY <1>1, <1>16, <2>2 DEF Refresh, RestOK, View
  <1>17. CASE DropFallback \/ Leave
    BY <1>1, <1>17 DEF DropFallback, Leave, RestOK, View
  <1>18. ASSUME NEW email \in Mailboxes, LearnProfile(email)
         PROVE  RestOK'
    BY <1>1, <1>18 DEF LearnProfile, RestOK, View
  <1>19. CASE Sync
    <2>1. record' # None
      BY <1>19, SyncCaptures, NoSecrets DEF SignInInv
    <2> QED
      BY <1>1, <1>19, <2>1 DEF Sync, Save, RestOK
  <1>20. CASE Logout \/ Start
    BY <1>1, <1>20 DEF Logout, Clear, Start, Open, RestOK, View
  <1> QED
    BY <1>5, <1>6, <1>7, <1>8, <1>9, <1>10, <1>11, <1>12, <1>13, <1>14, <1>15,
       <1>16, <1>17, <1>18, <1>19, <1>20 DEF SignInNext

-----------------------------------------------------------------------------
(* The database. *)

\* A database of an older release, seen through View, is one of CredentialStore.
LEMMA SignInStoreInit == SignInInit => StoreInit
  BY SignInAssumption DEF SignInInit, StoreInit

\* What a login commits and a sync saves are credentials; every other step
\* opens, clears or closes the database or leaves it alone.
LEMMA SignInStoreStep ==
    ASSUME SignInInv, [SignInNext]_signInVars
    PROVE  [StoreNext]_storeVars
  <1> USE DEF recordVars, loginVars, flowVars, cacheVars
  <1>1. CASE UNCHANGED signInVars
    BY <1>1 DEF signInVars
  <1>2. CASE Commit
    <2>1. View(credential) \in Credentials
      BY <1>2, ViewOfRecord DEF SignInInv, OwnerInv, Commit
    <2> QED
      BY <1>2, <2>1 DEF Commit, StoreNext
  <1>3. CASE Sync
    <2>1. View(record') \in Credentials
      BY <1>3, SyncCaptures DEF SignInInv
    <2> QED
      BY <1>3, <2>1 DEF Sync, StoreNext
  <1>4. CASE Logout \/ Start \/ Stop
    BY <1>4 DEF Logout, Start, Stop, StoreNext
  <1>5. CASE UNCHANGED storeVars
    BY <1>5
  <1>6. CASE SignInNext
    <2>1. \/ Commit \/ Sync \/ Logout \/ Start \/ Stop \/ UNCHANGED storeVars
      BY <1>6
         DEF SignInNext, Authorize, Initialized, Authorized, Complete,
             PassOver, Completed, LoginFails, Responds, Repeats, Asks,
             Exchanges, WritesProfile, UseCache, Refresh, DropFallback,
             LearnProfile, Leave
    <2> QED
      BY <1>2, <1>3, <1>4, <1>5, <2>1
  <1> QED
    BY <1>1, <1>6

(***************************************************************************)
(* A login and a request, down to the files they capture, use the database *)
(* as its specification allows (complete and sync of oauth.rs).            *)
(***************************************************************************)
THEOREM SignInUsesStore == SignInSpec => StoreSpec
  <1>1. SignInInv /\ [SignInNext]_signInVars => [StoreNext]_storeVars
    BY SignInStoreStep
  <1> QED
    BY <1>1, SignInStoreInit, SignInInvariant, PTL DEF SignInSpec, StoreSpec

(***************************************************************************)
(* So an instance belongs to one account for its whole life, and the       *)
(* record in use to the account it is bound to, whatever the CLI stores    *)
(* and whatever it says of the account (save and accepts of store.rs).     *)
(***************************************************************************)
THEOREM SignInServesOneAccount ==
    SignInSpec =>
        OneAccountForLife /\ BindingPermanent /\ []ActiveMatchesBinding
  BY SignInUsesStore, StoreImplementsOneAccount, BindingIsPermanent,
     ActiveAlwaysMatches, PTL

(***************************************************************************)
(* In every behaviour the variables keep their types, the frames a CLI     *)
(* wrote their bound, and the database shows the whole record on it        *)
(* (struct Credential of store.rs, the files of credential_cache.rs).      *)
(***************************************************************************)
THEOREM SignInTypeCorrect == SignInSpec => []SignInTypeOK
  <1> DEFINE TypeInv == SignInInv /\ StoreInv /\ RestOK /\ FlagsOK
  <1>1. SignInInit => TypeInv
    <2> SUFFICES ASSUME SignInInit PROVE TypeInv
      OBVIOUS
    <2>1. SignInInv /\ StoreInv
      BY SignInInvInit, SignInStoreInit, StoreInvInitially
    <2>2. RestOK
      BY RpcAssumption DEF SignInInit, RpcClosed, RestOK
    <2>3. FlagsOK
      BY Zenon DEF SignInInit, FlagsOK
    <2> QED
      BY <2>1, <2>2, <2>3
  <1>2. TypeInv /\ [SignInNext]_signInVars => TypeInv'
    <2> SUFFICES ASSUME TypeInv, [SignInNext]_signInVars PROVE TypeInv'
      OBVIOUS
    <2>1. SignInInv' /\ StoreInv'
      BY SignInInvStep, SignInStoreStep, StoreInvInductive
    <2>2. CASE SignInNext
      BY <2>1, <2>2, RestStep, FlagsStep
    <2>3. CASE UNCHANGED signInVars
      BY <2>1, <2>3
         DEF signInVars, recordVars, storeVars, cacheVars, loginVars, flowVars,
             rpcVars, RestOK, FlagsOK, View
    <2> QED
      BY <2>2, <2>3
  <1>3. TypeInv => SignInTypeOK
    <2> SUFFICES ASSUME TypeInv PROVE SignInTypeOK
      OBVIOUS
    <2>1. RpcTypeCorrect
      BY DEF SignInInv, PipeTypeOK, RestOK, RpcTypeCorrect, Frames
    <2>2. record \in Records \cup {None} /\ cache \in Files \cup {None}
      BY DEF SignInInv, OwnerInv, OwnedFiles
    <2>3. login \in Calling \cup {"none", "waiting", "captured"}
      BY DEF SignInInv, PipeTypeOK, CallsOf, Calling
    <2> QED
      BY <2>1, <2>2, <2>3
         DEF SignInTypeOK, SignInInv, OwnerInv, StoreInv, RestOK, FlagsOK
  <1> QED
    BY <1>1, <1>2, <1>3, SignInInvariant, PTL DEF SignInSpec
-----------------------------------------------------------------------------
(* The newest tokens. *)

\* The token material a capture of the files finds.
CopySecret(f) == First(Tokens(f), Key(f))

\* The copy in use has the tokens its CLI stored last; unless that CLI is
\* ahead, so has the record.  Only on macOS is there a second file for them.
NewestInv ==
    /\ record # None => Consistent(record)
    /\ login # "none" /\ platform # "macos" => copy.keychain = None
    /\ cache # None =>
           /\ platform # "macos" => cache.keychain = None
           /\ CopySecret(cache) = newest
           /\ ~behind => SecretOf(record) = newest
    /\ login = "captured" =>
           Consistent(credential) /\ SecretOf(credential) = CopySecret(copy)

\* A capture finds the tokens of the files, and what it makes of them is
\* consistent, unless its metadata name another mailbox (capture of
\* credential_cache.rs).
LEMMA CaptureConsistent ==
    ASSUME NEW f \in Files, NEW base, NEW m,
           m.email = None \/ f.profile.email \in {None, m.email},
           NEW c, c = Capture(f, base, m)
    PROVE  Consistent(c) /\ SecretOf(c) = CopySecret(f)
  <1>1. /\ c.oauth = Column(Tokens(f)) /\ c.key = Key(f)
        /\ c.native = Tokens(f) /\ c.profile = f.profile
        /\ c.email = First(First(m.email, f.profile.email),
                           IF base = None THEN None ELSE base.email)
    BY DEF Capture
  <1>2. Tokens(f) \in Secrets \cup {None} /\ Tokens(f) # Null
    BY NoSecrets DEF Files, Tokens, First
  <1>3. c.profile.email \in {None, c.email}
    BY <1>1 DEF First
  <1>4. SecretOf(c) = CopySecret(f)
    BY <1>1, <1>2 DEF SecretOf, CopySecret, First, Column
  <1> QED
    BY <1>1, <1>2, <1>3, <1>4 DEF Consistent

\* A copy made from a consistent record has its tokens (new of
\* credential_cache.rs).
LEMMA NewCopyKeeps ==
    ASSUME NEW c \in Records, Consistent(c)
    PROVE  /\ CopySecret(NewCopy(c)) = SecretOf(c)
           /\ NewCopy(c).keychain = None
           /\ Tokens(NewCopy(c)) = IF c.native = Null THEN c.oauth ELSE c.native
           /\ Key(NewCopy(c)) = c.key
           /\ NewCopy(c).profile = c.profile
  <1> DEFINE f == NewCopy(c)
  <1>1. /\ f.keychain = None /\ f.consoleKey = c.key /\ f.primary = c.key
        /\ f.profile = c.profile
        /\ f.fallback = IF c.native # Null THEN c.native
                        ELSE IF c.key # None THEN None ELSE c.oauth
    BY DEF NewCopy, EmptyCopy
  <1>2. Key(f) = c.key /\ Tokens(f) = f.fallback
    BY <1>1 DEF Key, Tokens, First
  <1>3. Null # None /\ c.oauth # Null
    BY NoSecrets DEF Records
  <1>4. CASE c.native = Null
    <2>1. c.oauth = None \/ c.key = None
      BY <1>4 DEF Consistent
    <2> QED
      BY <1>1, <1>2, <1>3, <1>4, <2>1 DEF CopySecret, SecretOf, First
  <1>5. CASE c.native = None
    <2>1. c.oauth = None
      BY <1>3, <1>5 DEF Consistent, Column
    <2> QED
      BY <1>1, <1>2, <1>3, <1>5, <2>1 DEF CopySecret, SecretOf, First
  <1>6. CASE c.native \notin {None, Null}
    BY <1>1, <1>2, <1>6 DEF CopySecret, SecretOf, First
  <1> QED
    BY <1>1, <1>2, <1>4, <1>5, <1>6

\* Every step keeps the newest tokens and the shape of records.
LEMMA NewestStep ==
    ASSUME SignInInv, NewestInv, SignInNext
    PROVE  NewestInv'
  <1> USE DEF rpcVars, flowVars, cacheVars, recordVars, storeVars, loginVars
  <1>1. /\ record # None => Consistent(record) /\ record \in Records
        /\ login # "none" /\ platform # "macos" => copy.keychain = None
        /\ cache # None =>
               /\ record # None /\ cache \in Files
               /\ platform # "macos" => cache.keychain = None
               /\ CopySecret(cache) = newest
               /\ ~behind => SecretOf(record) = newest
        /\ login = "captured" =>
               Consistent(credential) /\ SecretOf(credential) = CopySecret(copy)
        /\ using => cache # None
    BY DEF NewestInv, SignInInv, OwnerInv, OwnedFiles
  \* The login is over, and the copy in use is as it was.
  <1>2. ASSUME NoLogin, UNCHANGED <<record, platform, cacheVars>>
        PROVE  NewestInv'
    BY <1>1, <1>2 DEF NoLogin, NewestInv
  \* The login goes on with the files it has, and captures nothing.
  <1>3. ASSUME login' # "none" => login # "none",
               login' = "captured" => login = "captured",
               UNCHANGED <<record, platform, cacheVars, credential, copy>>
        PROVE  NewestInv'
    BY <1>1, <1>3 DEF NewestInv
  \* A request changes the copy it uses.
  <1>4. ASSUME UNCHANGED <<record, platform, login, credential, copy>>,
               cache' # None =>
                   /\ platform # "macos" => cache'.keychain = None
                   /\ CopySecret(cache') = newest'
                   /\ ~behind' => SecretOf(record) = newest'
        PROVE  NewestInv'
    BY <1>1, <1>4 DEF NewestInv
  <1>5. CASE Authorize
    <2>1. copy'.keychain = None
      BY <1>5 DEF Authorize, EmptyCopy
    <2> QED
      BY <1>1, <1>5, <2>1 DEF Authorize, NewestInv
  <1>6. CASE Initialized \/ Authorized \/ Complete \/ PassOver \/ Repeats
             \/ Asks \/ \E ok \in BOOLEAN : Responds(ok)
    BY <1>3, <1>6
       DEF Initialized, Authorized, Complete, PassOver, Repeats, Asks,
           Responds, Returned
  <1>7. CASE Completed
    <2>1. flow = "approved" /\ Head(out).id = 3
      BY <1>7, CallbackApproved DEF Completed, SignInInv, PipeInv
    <2>2. PICK f, m : f = copy /\ m = Told
      OBVIOUS
    <2>3. /\ profile \in Identities /\ f \in Files
          /\ f.profile = profile.profile /\ m = profile.metadata
      BY <2>1, <2>2 DEF SignInInv, OwnerInv, OwnedFiles, Told
    <2>4. m.email = None \/ f.profile.email \in {None, m.email}
      BY <2>3, SignInAssumption DEF OneMailbox
    <2>5. credential' = Capture(f, None, m)
      BY <1>7, <2>2 DEF Completed
    <2>6. Consistent(credential') /\ SecretOf(credential') = CopySecret(f)
      BY <2>3, <2>4, <2>5, CaptureConsistent
    <2>7. login = "completing"
      BY <1>7 DEF Completed, Returned
    <2> QED
      BY <1>1, <1>7, <2>2, <2>6, <2>7 DEF Completed, NewestInv
  <1>8. CASE Commit
    <2>1. /\ record' = credential /\ cache' = copy
          /\ newest' = SecretOf(credential) /\ login' = "none"
          /\ platform' = platform
      BY <1>8 DEF Commit, NoLogin
    <2>2. login = "captured"
      BY <1>8 DEF Commit
    <2> QED
      BY <1>1, <2>1, <2>2 DEF NewestInv
  <1>9. CASE LoginFails
    BY <1>2, <1>9 DEF LoginFails
  <1>10. ASSUME NEW who \in Identities, NEW console \in BOOLEAN,
                Exchanges(who, console)
         PROVE  NewestInv'
    <2>1. platform # "macos" => copy'.keychain = None
      <3>1. copy \in Files /\ login = "completing"
        BY <1>10, NoSecrets
           DEF Exchanges, SignInInv, OwnerInv, EmptyCopy, Files, Profiles,
               NoProfile
      <3> QED
        BY <1>1, <1>10, <3>1 DEF Exchanges, StoreKey, StoreTokens, Files
    <2> QED
      BY <1>1, <1>10, <2>1 DEF Exchanges, NewestInv
  <1>11. CASE WritesProfile
    <2>1. login = "completing" \/ login = "captured"
      BY <1>11 DEF WritesProfile, SignInInv, FlowInv
    <2>2. login # "captured"
      BY <1>11 DEF WritesProfile, SignInInv, FlowInv
    <2>3. copy \in Files
      BY <1>11 DEF WritesProfile, SignInInv, OwnerInv, OwnedFiles
    <2>4. copy'.keychain = copy.keychain
      BY <1>11, <2>3 DEF WritesProfile, Files
    <2> QED
      BY <1>1, <1>11, <2>1, <2>2, <2>4 DEF WritesProfile, NewestInv
  <1>12. CASE UseCache
    <2>1. record \in Records /\ Consistent(record)
      BY <1>1, <1>12 DEF UseCache
    <2>2. CASE cache = None
      <3>1. cache' = NewCopy(record) /\ newest' = SecretOf(record)
        BY <1>12, <2>2 DEF UseCache
      <3> QED
        BY <1>4, <1>12, <2>1, <3>1, NewCopyKeeps DEF UseCache
    <2>3. CASE cache # None
      BY <1>1, <1>4, <1>12, <2>3 DEF UseCache
    <2> QED
      BY <2>2, <2>3
  <1>13. CASE Refresh
    <2>1. cache \in Files /\ Tokens(cache) \in Secrets
      BY <1>1, <1>13 DEF Refresh, Files, Tokens, First
    <2>2. newest' \in Secrets /\ cache' = StoreTokens(cache, newest', platform)
      BY <1>13, <2>1, StoreAssumption
         DEF Refresh, Secrets, SignInInv, OwnerInv
    <2>3. /\ platform # "macos" => cache'.keychain = None
          /\ Tokens(cache') = newest'
      BY <1>1, <1>13, <2>1, <2>2, NoSecrets
         DEF Refresh, StoreTokens, Files, Tokens, First
    <2>4. CopySecret(cache') = newest'
      BY <2>2, <2>3, NoSecrets DEF CopySecret, First
    <2> QED
      BY <1>4, <1>13, <2>3, <2>4 DEF Refresh
  <1>14. CASE DropFallback
    <2>1. cache \in Files
      BY <1>1, <1>14 DEF DropFallback
    <2>2. /\ cache'.keychain = cache.keychain /\ cache.keychain # None
          /\ cache'.consoleKey = cache.consoleKey
          /\ cache'.primary = cache.primary
      BY <1>14, <2>1 DEF DropFallback, Files
    <2>3. CopySecret(cache') = CopySecret(cache)
      BY <2>2 DEF CopySecret, Tokens, Key, First
    <2> QED
      BY <1>1, <1>4, <1>14, <2>2, <2>3 DEF DropFallback
  <1>15. ASSUME NEW email \in Mailboxes, LearnProfile(email)
         PROVE  NewestInv'
    <2>1. cache \in Files
      BY <1>1, <1>15 DEF LearnProfile
    <2>2. /\ cache'.keychain = cache.keychain
          /\ cache'.fallback = cache.fallback
          /\ cache'.consoleKey = cache.consoleKey
          /\ cache'.primary = cache.primary
      BY <1>15, <2>1 DEF LearnProfile, Files
    <2>3. CopySecret(cache') = CopySecret(cache)
      BY <2>2 DEF CopySecret, Tokens, Key, First
    <2> QED
      BY <1>1, <1>4, <1>15, <2>2, <2>3 DEF LearnProfile
  <1>16. CASE Sync
    <2>1. PICK f, m, base : f = cache /\ m = NoMetadata /\ base = record
      OBVIOUS
    <2>2. f \in Files /\ m.email = None /\ record' = Capture(f, base, m)
      BY <1>1, <1>16, <2>1 DEF Sync, NoMetadata
    <2>3. Consistent(record') /\ SecretOf(record') = CopySecret(f)
      BY <2>2, CaptureConsistent
    <2> QED
      BY <1>1, <1>16, <2>1, <2>3 DEF Sync, NewestInv
  <1>17. CASE Leave \/ Start
    BY <1>1, <1>17 DEF Leave, Start, NewestInv
  <1>18. CASE Logout
    BY <1>1, <1>18 DEF Logout, NewestInv
  <1>19. CASE Stop
    BY <1>1, <1>19 DEF Stop, NoLogin, NewestInv
  <1> QED
    BY <1>5, <1>6, <1>7, <1>8, <1>9, <1>10, <1>11, <1>12, <1>13, <1>14, <1>15,
       <1>16, <1>17, <1>18, <1>19 DEF SignInNext

\* The newest tokens are known in every behaviour.
LEMMA NewestInvariant == SignInSpec => [](SignInInv /\ NewestInv)
  <1>1. SignInInit => NewestInv
    BY SignInAssumption DEF SignInInit, NewestInv
  <1>2. SignInInv /\ NewestInv /\ [SignInNext]_signInVars => NewestInv'
    <2> SUFFICES ASSUME SignInInv, NewestInv, [SignInNext]_signInVars
                 PROVE  NewestInv'
      OBVIOUS
    <2>1. CASE SignInNext
      BY <2>1, NewestStep
    <2>2. CASE UNCHANGED signInVars
      BY <2>2
         DEF signInVars, recordVars, cacheVars, loginVars, flowVars, NewestInv
    <2> QED
      BY <2>1, <2>2
  <1> QED
    BY <1>1, <1>2, SignInInvariant, PTL DEF SignInSpec

(***************************************************************************)
(* In every behaviour, after a sync or a login the database has the tokens *)
(* a CLI stored last, whichever file it stores them in and whatever older  *)
(* file is left beside it (capture of credential_cache.rs).                *)
(***************************************************************************)
THEOREM SyncsKeepNewest == SignInSpec => []SyncKeepsNewest
  <1>1. SignInInv /\ NewestInv => SyncKeepsNewest
    BY DEF SignInInv, OwnerInv, NewestInv, SyncKeepsNewest
  <1> QED
    BY <1>1, NewestInvariant, PTL

(***************************************************************************)
(* In every behaviour, the record of the database survives a restart: the  *)
(* copy made from it and captured again gives the same record, for tokens, *)
(* keys and the records of older releases (new and capture).               *)
(***************************************************************************)
THEOREM RestartsKeepCredential == SignInSpec => []RestartKeepsCredential
  <1>1. ASSUME NEW c \in Records, Consistent(c)
        PROVE  Restored(c) = [c EXCEPT !.native = IF @ = Null THEN c.oauth ELSE @]
    <2> DEFINE f == NewCopy(c)
               r == Restored(c)
    <2>1. /\ Tokens(f) = IF c.native = Null THEN c.oauth ELSE c.native
          /\ Key(f) = c.key /\ f.profile = c.profile
      BY <1>1, NewCopyKeeps
    <2>2. Column(Tokens(f)) = c.oauth
      BY <1>1, <2>1 DEF Consistent
    <2>3. c # None /\ c.profile.email \in {None, c.email}
      BY <1>1, NoSecrets DEF Consistent
    <2>4. r = [oauth   |-> c.oauth, key |-> c.key,
               native  |-> IF c.native = Null THEN c.oauth ELSE c.native,
               profile |-> c.profile, email |-> c.email, org |-> c.org]
      BY <2>1, <2>2, <2>3 DEF Restored, Capture, NoMetadata, First
    <2> QED
      BY <2>4 DEF Records
  <1>2. SignInInv /\ NewestInv => RestartKeepsCredential
    BY <1>1 DEF SignInInv, OwnerInv, NewestInv, RestartKeepsCredential
  <1> QED
    BY <1>2, NewestInvariant, PTL
=============================================================================
