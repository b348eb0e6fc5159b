# claude-messages-bridge: a TLA+ model

The bridge is an HTTP service that answers the Anthropic Messages API with a
local Claude Code CLI: one CLI process per request, one service account per
instance, signed in through a web console and kept in a redb database. This
directory holds a formal model of it: TLA+ modules translated from the Rust
source, TLC configurations that check them on small instances, and TLAPS proofs
that lift the most important results to every instance.

`PROJECT.json` lists the components, the runs, the source lines behind every
definition, the hazards the properties are aimed at, and the theorems.

## 1. The system

| component | source | state | operations |
|---|---|---|---|
| credential database | `store.rs` | records `active` and `binding` | open (migrates), load, save (checks the account), clear, status |
| OAuth client | `oauth.rs` | the slot: working copy in use | authorize, complete, commit, inference_cache, sync, logout |
| working copy | `credential_cache.rs` | a temporary directory the CLI writes | new, apply, capture |
| console handlers | `admin.rs` | operation record under a mutex | status, start_login, submit_code, cancel_login, logout; one spawned task per login |
| authentication RPC | `control.rs` | a CLI child | start, call, close |
| request handler | `lib.rs` | N permits, the shutdown token | handle: admission, first event, SSE body or whole answer |
| rpc task | `rpc.rs` | CLI child, channel of 32, cancel token | start, run, control_reply |
| accumulator | `response.rs` | message under assembly | push, complete, finish; translate_event |
| request rules | `request.rs`, `history.rs`, `system_prompt.rs` | none | validate; seed_history; normalize |
| process | `main.rs`, `config.rs`, `error.rs` | | start, graceful shutdown |
| console | `web/src` | login, account, busy label, generation, poll timer | unlock, lock, refresh, start, submit, cancel, logout, poll |

How they interact. A model request takes one permit of the semaphore
`AppState.permits` without waiting; a login or a logout takes all N. The
handler spawns the rpc task, which owns the permit, and reads its events from a
bounded channel; dropping the handler or the SSE body drops a guard that
cancels the task. All CLI processes share one working copy of the credentials
and may refresh the token in it at any time; `sync` copies it back to the
database after the initialize response, before `message_stop` is forwarded, and
when the task's work has ended. A login authenticates in a working copy of its
own, which replaces the shared one in `commit`. Two tokio mutexes are held over
awaits: `AdminState.operation` (by start_login, logout and the commit of the
login task) and `OAuthClient.cache` (by commit, inference_cache, sync, logout).

What is hard: DELETE and timeouts racing the commit; a copy obtained before an
await and used after it; concurrent refreshes and syncs; every way out of a task
returning exactly one permit; exits and crashes between a refresh and its sync;
a CLI that emits anything in any order, or nothing; a client that leaves or
does not read; answers to the console that arrive after the screen has moved on.
`hazards` in `PROJECT.json` names each at its line.

What makes each component correct, in one sentence each: the database belongs
to one account for ever; the working copy in use is current and its tokens are
never lost nor put back; an account change excludes everything else, a cancelled
login saves nothing and the console is told the truth; every task ends and gives
back its permit; the caller hears one whole message or an error; the CLI hears the caller's
conversation, each turn once, and a system prompt without wrappers of other
bridges; the buttons of the console belong to the call in flight.

## 2. Modules

```
                 OneAccount                       (<==  implements
                     ^^                            <--  is extended by)
                     ||
               CredentialStore <-- AccountLifecycle <-- AccountLifecycleProofs
                     |      ^                                  |
                     |      CredentialStoreProofs -------------+
                     v
   ControlRpc --> SignIn <-- WorkingCopy (extends CredentialStore)
                     ^
                SignInProofs (and CredentialStoreProofs)

MessageEvents <-- MessageStream, MessageReply, RpcSession
MessageEventsProofs <-- MessageStreamProofs (and MessageStream)
MessageReply <== RpcSession <-- RpcSessionProofs (and MessageEventsProofs)
Conversation, SystemPrompt --> RequestBody <-- RequestBodyProofs
Console <-- ConsoleProofs
```

**OneAccount** (abstract). The promise of the database: an instance belongs to
one identity for life; signing in and out changes only who is signed in.

**CredentialStore** (`store.rs`). `active`, `binding`, `opened`; one action per
redb transaction: `Open` with the migration of records an older release left,
`Save` with the account check (`MaySave`, `Accepts`), `Clear`, and `Close` for
every end of the process. A failed transaction changes nothing and is a
stuttering step. A credential is an account id, a mailbox (each possibly absent)
and a token number; blank strings, which a binding treats as absent, are `None`.

**AccountLifecycle** (`admin.rs`, `oauth.rs`, `lib.rs`, `rpc.rs`, `main.rs`).
Extends the store with the slot, the files the CLI wrote in each working copy,
the permits, both mutexes, console calls, login tasks and request tasks. Each
action is one stretch of code between two awaits, or one locked section that
awaits nothing. Correspondence:

- `start_login` is `StartQueue` (the checks before the mutex), `StartRefused` or
  `StartAuthorize` (mutex and permits), `AuthorizeOk` or `AuthorizeFails`.
- The login task is `ReceiveCode`, `CallbackOk/Fails`, `TakeLock` or
  `CommitForbidden` (the check under the mutex), `Commit` or `CommitFails`, the
  other arms of the select (`LoginCancelled`, `LoginExpired`), and `FinalStatus`
  after the CLI is closed. The select prefers the cancel token, but a poll that
  has begun runs on, so a step of the work may follow a cancellation.
- A request is `Admit`, `GetCache`, then the phases `launching`, `serving` and
  `completed`, separated by the syncs; `WorkFails`, `WorkCancelled`, `WorkDone`;
  the final sync; `ReportSent` or `ReportDropped`. `SyncCapture` and `SyncSave`
  are apart because other CLIs may refresh the token (`Rotate`) in between.
- `Boot`, `Shutdown`, `Exit`, `Crash` are the process. On exit and crash all
  memory and every working copy are gone; the database stays.

**WorkingCopy** (`credential_cache.rs`, `scripts/credential-store.py`). What is
in the files and in a record: OAuth tokens or a Console key, the account the CLI
wrote in `.claude.json`, mailbox and organization. `NewCopy` is
`CredentialCache::new`, `Capture` is `capture` with the precedence of the files,
the baseline and the metadata. A blank mailbox is a mailbox to `Capture` and
none to the database (`View`). `StoreTokens` and `StoreKey` are where the CLI
puts things on each platform.

**ControlRpc** (`control.rs`). Calls one after the other over a pipe: the CLI
may repeat a response and ask something first; `OwnResponse` is the match of a
response with the call, `ReadOther` everything else that `call` reads.

**SignIn** (`oauth.rs`, with the three above). A login drives ControlRpc through
`initialize`, `claude_authenticate` and `claude_oauth_callback`, captures what
its CLI stored, and commits it; a request makes a copy of the record, its CLI
refreshes tokens and learns the account, and `Sync` writes it back; a restart
loses every copy. AccountLifecycle has who excludes whom, SignIn what is in the
files: here a login and a request exclude each other and several requests are one.

**MessageEvents** (`response.rs`). Events as records with what the code looks
at; a string is the sequence of the parts put into it, and an empty part adds
nothing, so the tool input of a call that only streamed `""` is as empty as that
of one that streamed nothing. `Accepts` and `After` are `push` split into its
checks and its effect;
`WholeMessage` is an independent definition, by positions in the event list, of
what a complete message is. **MessageStream** runs one accumulator on arbitrary
events against that reference.

**MessageReply** (abstract). The promise to the caller: it hears events and then
one verdict, which is "complete" exactly when it has heard a whole message.

**RpcSession** (`rpc.rs`, `lib.rs`). One request against an arbitrary CLI: the
handshake, the user turn, events translated, checked, synced and sent through a
channel of `Capacity`, interrupt and kill, timeout, cancellation, the error
report; and the HTTP side, streaming or not. A callback of the CLI is read in one
step and answered in another, in which the task may stay for ever if the CLI
does not read its stdin. `AccountLifecycle` has the same task more coarsely,
next to everything it shares with others.

**Conversation** (`request.rs`, `history.rs`). The messages of a request:
`Validates` is `validate`, with merging and pairing as folds over messages and
blocks as in the code; `SeedHistory` the transcript; `Resumed` what the CLI
loads from it. The caller writes a conversation block by block and every one is
judged against a reference that knows positions and turns but neither merging
nor pending ids.

**SystemPrompt** (`system_prompt.rs`, `system_parts` of `request.rs`). A text is
a sequence of tokens: identities, the pieces of a billing header, paragraph
breaks, other text. `Normalize` strips wrappers from the front paragraph by
paragraph. **RequestBody** is a request whose system field or messages are
written; the other is left as it is, since neither check looks at both.

**Console** (`App.tsx`, `api.ts`, and of `admin.rs` what they ask). Each call is
sent, answered at the server at one moment, and delivered to the screen at a
later one; `Effect` is React's effect on `[token, login?.id]` that starts and
stops the poll loop; `generation` is the counter that tells the calls of a
locked session from new ones. `status` reads the account and the login in two
steps, and the commit of a login holds the mutex over its two.

MC modules give the constants values; the `.cfg` files pick them. Definitions
under the comment "Mutant" are faulty variants of the definition below them;
each property has one that it refutes (`mutants` in `PROJECT.json`).

## 3. Runs

| run | config | what it shows | distinct states |
|---|---|---|---|
| sign_in | MCSignIn | one account for life, binding permanent; a record is always of one account and as new as what the CLI stored; a restart loses nothing; a login is saved after the CLI's own checks; the CLI is never left waiting for an answer | 1,178,796 |
| shared_copy | MCSharedCopy | two requests, one login, N = 2: permits conserved, copy current, refreshed tokens neither lost nor overwritten by older ones | 245,083 |
| logins | MCLogins | two logins of two accounts and one request, on a database known by a mailbox: cancel against commit, status shown, account kept | 325,269 |
| request_progress | MCRequestProgress | every request returns its permit | 17,721 |
| login_progress | MCLoginProgress | every login ends, every console call is answered | 2,493 |
| accumulator | MCMessageStream | complete exactly when whole; content in the right block; two interleaved blocks, tool JSON in fragments, also empty ones, 8 events | 438,528 |
| session | MCRpcSession | turn protocol, sync before message_stop, the reply promise; a cancelled request frees its slot although nobody reads; every reading client is answered | 210,450 |
| request | MCRequest | which conversations are accepted; the CLI gets each whole, every turn once, calls with their results; of a system prompt only wrappers are removed | 621,684 |
| console | MCConsole | who owns the buttons, what one status answer says, and the end of a login on the screen | 534,383 |
| cancel_reply | MCCancelReply | violation, finding 1 | |
| graceful_exit | MCGracefulExit | violation, finding 2 | |
| console_stuck | MCConsoleStuck | violation, finding 3 | |

**Bounds.** `MaxToken` bounds how many tokens CLIs obtain in one behaviour:
2 is the least with which an older token could replace a newer one that a CLI
wrote after it. `Logins` is a set of session ids, each used once: two allow a
second login to start while the first is remembered. Two requests suffice for
races on the slot, one more would only repeat them; with N = 2 a request and a
login can compete for the permits. `MaxEvents` is 8 for the accumulator, enough
for two interleaved blocks and a complete message, and 6 for the session, a
complete message with one tool call and an empty fragment of its input; the
channel of 2 fills long before the message ends. `MaxReplies` bounds the callbacks answered in a session.
`MaxOut` (2), `MaxRepeats` (1) and `MaxCallbacks` (1) bound the pipe of a login:
enough for a stale response in front of the right one, and for one callback per
CLI at any of its three calls. `MaxBlocks` is 6 for conversations: a question,
two calls in one turn, their results and a word more. `MaxTokens` is 7 for a
system prompt: a whole billing header, a break and an identity, a break and
text, in every order and cut between parts anywhere. `MaxLogins` is 2 and
`MaxGeneration` 4 for the console, which counts unlocking and locking: a call of
one session can return in the next one (1 and 2 suffice for the violation).

**Fairness.** The runtime polls tasks that can go on and its timers fire: weak
fairness on what a task does alone, on the request timeout and on the login
timeout. tokio mutexes are first-in first-out: strong fairness on what waits for
one. The CLI carries no fairness at all. A client is assumed to read or to leave
(in `RequestEnds` by the fairness, in `ClientAnswered` as its premise
`ClientReads`); `CancelFreesSlot` does without that, and is the one that speaks
of a client that never reads. A
handler that waits for the CLI in start_login is bounded by `init_timeout`
(`AuthorizeFails` is weakly fair). In the console the timers of the loop and the
time limit of 20 s fire, a poll that is sent again and again is answered and
shown at some time (strong fairness, as polls may fail now and then), and a
commit ends, because it waits for no CLI. Its user owes nothing.
`EndReachesScreen` is about failed polls; it holds although finding 3 happens,
as the end is shown once before the late answer hides it.
`AdminAnswered` is about the calls that have something to wait for in the model:
a start for the mutex and the CLI, a logout for the cache mutex. DELETE, a
submitted code and the status are one step where the operation mutex is free.

**Deadlock** is checked in the sign-in and lifecycle runs, where the process can
always crash or restart. It is not in MCMessageStream, MCRpcSession and
MCRequest: one message, one session and one request end, and the liveness
properties show that sessions end well. Nor in the MCConsole runs: the console
rests when its bounds are used up.

## 4. Findings

1. *A DELETE after the commit is answered `{"cancelled":true}`.* The comment at
   `admin.rs:223` says a cancelled response cannot race a committed credential.
   The mutex does ensure that an accepted cancellation prevents the commit
   (`CancelStopsCommit` holds), but `cancel_login` gives the same answer when
   the login is already over, successfully (`admin.rs:305`).
2. *A normal exit can lose a refreshed token.* The comment at `rpc.rs:52` and
   `docs/oauth-redb.md:67` leave unsynced refreshes to crashes only. `main`
   awaits connections, not the spawned rpc tasks: once the last client has left,
   the process may end before the final sync of a task.
3. *A login on the screen that nothing follows.* The comment at `App.tsx:72`
   says the poll loop delivers every transition. `submit` (`App.tsx:81`) puts
   `submitting` on the screen when its call returns. If the loop has seen the
   end of the login by then and stopped, the late answer makes it active again
   with the same id, and the effect, which depends on the id, starts no new loop.

## 5. Proofs

Proved for every value of the constants that the named assumptions allow
(`StoreAssumption`, `LifecycleAssumption`, `EventsAssumption`,
`SessionAssumption`, `ConsoleAssumption`, `CopyAssumption`, `RpcAssumption`,
`SignInAssumption`, `ConversationAssumption`, `PromptAssumption`: finitely many requests, positive capacities, `None` and
`Null` none of the values beside them, legacy records with token 0 and each of
one account, as is what the CLI says of an account that signs in):

- `CredentialStoreProofs`: `StoreTypeOK`, `ActiveMatchesBinding`,
  `BindingPermanent`, and the refinement `OneAccountForLife` (initial states and
  steps map to `OneAccount`; migration and `Close` are stuttering).
- `AccountLifecycleProofs`: `TypeOK`, `PermitsConserved`, `WorkingCopyIsCurrent`
  and `SlotMatchesStore`, all from one inductive invariant, `CoreInv`;
  `CancelStopsCommit` and `ReportedOutcome`, from `LoginInv`;
  with the database's own theorems `OneAccountForLife` of the whole bridge;
  `LoginKeepsAccount`; `NoStaleOverwrite` and
  `PersistedWhenQuiescent`, from `CoreInv` and `FreshInv`.
- `MessageStreamProofs`: `StreamTypeOK`, `JudgesExactly` and
  `ContentIsReassembled`, from the lemmas of `MessageEventsProofs`.
- `RpcSessionProofs`: `RpcTypeOK`, `TurnProtocol`, `CompletionPersisted` and
  `SecondCheckAgrees`, from `RpcInv`; and with the same lemmas the refinement
  `DeliversMessage`.
- `RequestBodyProofs`: `ValidatesExactly`, `ValidatedIsCanonical`,
  `ConversationReachesCli`, `TranscriptPairsCalls` and `PromptKeepsBody`, for every
  request a caller may write.
- `ConsoleProofs`: `BusyIsOwned` and `AccountNotAheadOfLogin`, from `ConsoleInv`.
- `SignInProofs`: `SignInTypeOK`, `CallbacksAnswered`, `SavedAfterPolicy` and
  `RecordOfOneAccount`, from `SignInInv`; `SyncKeepsNewest` and
  `RestartKeepsCredential`, from `NewestInv`; and with the database's own theorems
  `OneAccountForLife`, `BindingPermanent` and `ActiveMatchesBinding` of logins
  and requests with the contents of their files.

**CoreInv** is needed because none of its four consequences is inductive alone.
Its parts: `TypeOK`; `PermitInv`, the permits are N minus the busy requests
minus N for a call or login that holds all; `HeldInv`, a request that obtained a
copy is busy, has the slot's, and one that has not, has none; `SlotInv`, the
slot's files belong to the signed-in account; `LoginCopyInv`, a login about to
commit has an identified credential in its own copy; `LockInv`, who may own the
cache mutex. The argument: while anyone holds all N permits no request is busy,
so replacing the slot (commit, logout) invalidates nobody's copy; while a
request is busy the slot is only filled, never replaced. The cardinality facts
(a request entering or leaving the busy set) are lemmas.

**LoginInv** is about the operation mutex. A task that has checked its cancel
token owns the mutex until its commit is over (`OwnerInv`), and DELETE triggers
the token under the same mutex, so no cancellation falls between the check and
the commit. `StageInv` and `RecordInv` say that a closing task's result, the
record's status and the database tell the same story at every stage, also when
`FinalStatus` comes after a cancellation or a later login.

**The store.** Every step of the bridge is one transaction of `CredentialStore`
or leaves its variables alone (`BridgeStepIsStoreStep`). What needs the
invariant is that `SyncSave` and `Commit` save a proper credential: what a sync
captured, or what a login was identified with.

**FreshInv** orders the copies of a token. `TokenInv`: the database is never
newer than what a sync has captured, that never newer than the working copy, and
a login about to commit is at least as new as the database; so a save never goes
back. `SavedInv`: while the database is behind the working copy, and no sync has
failed, some request has its final sync still before it; so when the last one is
over, nothing is left behind. The delicate case is a refresh by another CLI
between `SyncCapture` and `SyncSave`, which the second conjunct of `SavedInv`
covers: the refreshing request syncs again.

**Follows** relates an accumulator to the events it took, by their positions:
the list is viable (nothing of it breaks a rule of push), the n-th block is the
n-th start, it is closed if a stop names it, and its parts of each type are
those of the deltas that name it and bring something, in order. That a string is
empty just when none of its deltas brings anything is `NothingBrought`. Two
lemmas carry everything.
`AcceptsExactly`: what follows a list accepts one more event just when the
longer list is viable; this needs, rule by rule, that the reference, which looks
at all positions, changes with the last event only. `FollowsAfter`: it then
follows the longer list. Both hold for any number of blocks open side by side;
no induction over the list is needed, the steps of the specification are the
induction. What remains is counting: the n-th position of a set is unaffected by
a later one (`NthKept`), and there is one for each number up to its size
(`NthExists`, a pigeonhole argument).

**RpcInv** has four parts beside the types. `DialogueInv` says, for each point
of the task, what the CLI has been told, so that a second user turn or a write
after the interrupt is impossible. `PersistInv`: an event the task is about to
send is no message_stop unless the sync at completion is done. `LagInv` is the
one that takes an idea: the task's accumulator has taken a path of states, one
for each event of the log, every step of it accepted; the handler's accumulator
stands on that same path at the event it took last; and the channel holds the
log from there on, with at most a failure behind it. So the next event in the
channel is one the handler accepts, whatever the capacity and the CLI. `ToolsInv`
says that the log names declared tools only.

**DeliversMessage.** The caller of a stream hears what the handler took, the
caller of a unary request nothing until the message is whole. Each state on the
path of `LagInv` follows its part of the log, so the handler takes message_stop
just when what it took is a whole message, and a step that takes an event is
`Hear`, one that ends a request otherwise is `Close`, every other is a stutter.

**A request** is one value, so its theorems are about operators; the
specification gives only the types of the messages and the texts
(`MessagesTyped`, `PromptTyped`). The loops are folds and recursive functions,
which TLA+ defines by CHOOSE. That a fold has a value is shown once for all of
them (`FoldExists`), and each then has a law that takes its last element off
(`MergeLaw`, `CallLaw`, `AnswerLaw`, `PairTurnLaw`, `SeedRowLaw`). Induction is over
sets, not predicates: a set that has the empty sequence and grows with each
element has every sequence (`CountingUp`, `Growing`).

- Merging keeps the content and makes the roles take turns (`MergeMerges`), and
  a conversation in that form merges to itself, so what is accepted is accepted
  again. Each row of the transcript names the one before, so what the CLI loads
  from the resume point is a beginning of the conversation (`ResumedIs`), up to the
  last assistant turn; the user turn behind it is the one sent.
- `ValidatesExactly` takes the idea. `WellPaired` speaks of turns and places of
  whole conversations and is not inductive: an unfinished one has calls that
  may still be answered. `Tells` says what the loop knows after every block in
  terms of the reference: the pending ids are those of the calls without a
  result, `ids` those of all calls, `other` that the user turn has content that
  is no result, `ok` that the reference has no objection so far. It
  is kept by each block, in a message that continues a turn or begins one.
- For `PromptKeepsBody`, each round of `Strip` removes three or six tokens, or all
  of the text (`RoundCovers`), which are wrappers by position (`Covers`, the
  reference `Wraps` within a text); removals add up (`CoversAdd`); the loop ends,
  because the text gets shorter (`StripIsGood`); and a text at which it stops has
  no wrapper in front (`StoppedUncovered`).

**ConsoleInv** says which slot may hold which call: none belongs to a session to
come, so a new session starts with no call and no label (`OwnedInv`). For the
status answers, `Settled`: an account of the newest login means that the commit
is under way or that the login has succeeded; it stays true however the server
moves on, and the second read waits for the commit.

**SignInInv.** `PipeTypeOK` ties the number of calls to the phase of the login;
ids only grow, so a response to an earlier call never has the id awaited. That
alone does not protect the callback, whose response the CLI may repeat: a
repetition is positive here even if the response was a refusal. `FlowInv` says
that, unless the CLI approved, its refusal is in the pipe before every positive
response to the callback; the login reads in order, so the refusal ends it. An
answer to a callback cannot be lost, because while the CLI waits the callback is
still in the pipe (`CallbacksAnswered` itself is inductive beside `PipeTypeOK`).
`OwnerInv` follows whose the files are: those of a login from the exchange on
the account's that signs in, those of the copy in use the account's on record;
`CaptureOwned` and `NewCopyOwned` carry that to records and back.

**NewestInv** adds what the files hold: a copy in use captures to the tokens its
CLI stored last, and unless the CLI is ahead the record has the same; every
record is `Consistent` (its columns repeat its native data, its mailbox the one
of its profile). For the records of older releases that is assumed, as is that
the CLI names one mailbox for an account: a release without native data stored
tokens or a key, which is how `new` reads such a record. Without it a restart
would drop the tokens of a record that has both, and the file the CLI stops
using on macOS must not be the one that is captured (`keychain` first).

`CoreInv`, `LoginInv`, `FreshInv`, `ConsoleInv`, `SignInInv` and `NewestInv` were also
checked by TLC on the configurations of their modules; of `RpcInv` all but the
path, whose existence TLC cannot enumerate (`SecondCheckAgrees`, which it
serves, is checked).

Only model-checked: liveness (`RequestEnds`, `LoginEnds`, `AdminAnswered`,
`CancelFreesSlot`, `ClientAnswered`, `EndReachesScreen`), since liveness under
fairness and ENABLED are out of the prover's reach. Every safety property that a
passing run checks is a theorem.

## 6. Abstractions, and what is not modelled

What is assumed of the CLI, whose code is not here:

- It leaves no token file without tokens. `capture` takes the keychain file if
  that exists and never looks into the other (`credential_cache.rs:118`); the
  model takes it if it has tokens. After a keychain file without `claudeAiOauth`
  the code would find no tokens, the model would find those of the plain file.
- It names one mailbox for an account wherever it names one (`OneMailbox`), and
  nothing of two accounts at once (`SignInAssumption`).
- It replaces its files atomically. It refreshes under its own cross-process
  lock, so that a refresh is one step, and in a shared copy OAuth tokens only: a
  Console key does not expire.

What is abstracted or left out of the bridge:

- The bridge runs with a credential database configured. Without one there is
  no account and no sync, and a request is otherwise the same.
- A CLI is killed at once; on the drop path `start_kill` is not awaited, and a
  dying CLI could still write a file the sync then reads.
- Pipe capacities, frame and output limits, file sizes and modes appear as
  failures at any time; the request of the console that fails or takes longer
  than its 20 s is one that fails before or after it was served.
- HTTP status codes, error texts, headers and the bearer checks are left out,
  as are the read-only status handlers (except where the console reads them).
- Of a request the checks of single fields (model, max_tokens, tools,
  tool_choice, thinking) and the prefix of tool names in the transcript are left
  out: each looks at one field and keeps no state.
- Of the console, rendering, the code field, the confirmation of a logout and
  the lock on a 401 are left out. The server it talks to starts without an
  account and knows of a login what the console shows of it.
- The keychain adapter is modelled by which file it keeps; its parsing of the
  `security` command line is not.
- The configuration, the build, the containers and the test code have no state
  of the running system and are not modelled.

## 7. What is left

1. A composition of `Console` with the logins of `AccountLifecycle`, in place of
   the small server that `Console` has; it needs larger bounds than TLC has time
   for today.
2. Waiting states for the DELETE, submit and status handlers of
   `AccountLifecycle`, so that `AdminAnswered` covers their waits too.
