# aaliyah-core: TLA+ models and proofs

aaliyah-core is the control plane of an assistant that reads a mailbox, drafts
replies and follow-ups, and sends a message only when a person has approved it.
It is a TypeScript HTTP service, run as several instances (Cloud Run) over one
PostgreSQL database, a KMS, Google's OAuth and Gmail interfaces, and language
model providers. Everything that must survive an instance lives in the
database; everything else is a `Map` in the memory of one instance.

This directory holds a model of the parts whose correctness depends on the
order of steps, the TLC configurations that check them on small instances, and
TLAPS proofs of their main properties for instances of any size. Paths below
are relative to the repository.

## 1. Inventory

| Component | State it keeps | Operations | What is hard about it |
|---|---|---|---|
| Send plane (`src/mail/security/sendApproval.ts`, `src/mail/sendGuard.ts`, adapters, `mail_send_approvals`) | approval rows, audit log, reconciliation ledger | issue, begin (validate and claim), send, settle, reconcile, invalidate on disconnect | two instances send one approval; ambiguous outcomes; late settlements; a disconnect in the middle |
| Inbound drafting (`application/inbound/runInboundDraft.ts`, `persistence/idempotencyStore.ts`) | idempotency keys, traces, Gmail drafts | claim a key, draft, trace, record result or failure, replay | retries of half-done work, takeover of stale claims, lost acknowledgements |
| Google credentials (`mail/google/credentialLifecycle.ts`, `mail_credentials`, `mail_connection_health`) | credential row and health record; per instance a token cache and a single-flight map | hand out a token, refresh, record health | a refresh overlaps a disconnect or another instance's refresh |
| Google connect and disconnect (`mail/google/googleConnect.ts`, `mail/security/oauthStateStore.ts`) | OAuth states, connection row, job markers | start, callback with rollback, disconnect | two callbacks, or a callback and a disconnect, of one mailbox; a step of the rollback fails |
| Sessions (`auth/authService.ts`, `identityStateStore.ts`) | sessions, users, memberships | log in, authenticate, rotate, log out, revoke all | rotation is two statements; it races logout and revocation |
| Task runner (`application/decision-engine/runAaliyahTask.ts`) | idempotency keys, traces | plan, retrieve, decide, execute, verify, escalate | the idempotency protocol with early exits |
| Follow-ups (`services/followup/*`) | outcome log and its transition table in memory; review, reply and divergence logs | detect, score, choose an owner, draft, track an outcome | adjustments on top of a banded score; memory is updated before the durable append |
| Relationship memory, preferences, styles, revenue (`application/*`, `persistence/applicationState.ts`) | documents by key, append-only logs | read a document, change a record, put the document back | lost updates |
| Model router (`model-router/*`) | failure counters and cool-downs, per instance | route, fall back, open and close the circuit | concurrent requests around the threshold and the end of a cool-down; answers after their timer |
| Onboarding (`application/onboarding/*`) | none: the caller holds the progress record | the steps of the onboarding, each of which checks the step it expects | order of steps |
| Migrations (`persistence/postgres/migrations.ts`) | table of applied migrations | apply, in one transaction under a table lock | instances that start together |
| Permissions and tenant boundary (`auth/permissions.ts`, `governance/*`) | none | authorise | the matrix of roles and actions, and when it is read |
| Inbound analysis, style, revenue and trust scores | none | pure functions | boundaries of scores |
| Retrieval and connectors, other mail adapters, crypto, configuration, certification, deployment | none of the program's own | translations to providers, start-up | partial failure of one source |

Components call one another as functions of one process. They interact through
the database: a disconnect (`disconnectGoogle`) writes the credential row that
refreshes read, the approval rows that sends claim, the job markers and the
connection row; every mail operation appends to `mail_audit`; inbound drafting
and the task runner share the idempotency table. No route of `src/http` calls
the send plane or `reconcileSend` yet; they are library operations, and the
models let any caller use them at any time.

What makes each correct:

- **Send plane.** An approval lets one message, the one it was issued for, land
  at most once; nothing reaches a provider unaudited; a row and the logs never
  say something false of the provider; a spent row stays spent.
- **Inbound drafting.** One call at a time works on a message; everyone who asks
  gets the same answer, made for what they asked; traces come before answers.
- **Credentials.** One refresh per instance; only live grants are used; destroyed
  ones stay destroyed; the health record tells the truth; callers are answered.
- **Connections.** A state is exchanged once, and only if its start is on record;
  what Google answers a code with is connected or given back, while a grant whose answer
  is lost is forgotten (see 5); a mailbox on which no callback overlaps another call is
  connected or not, never half; a disconnect that is answered has left nothing and is on record.
- **Sessions.** A request acts only on authority the tables granted while it was in
  progress; the token a rotation replaced is dead before anybody has its heir; what a
  revoke-all does not reach is a rotation that overtook it.
- **Router.** A request ends; it fails only when everyone it asked has failed it; it
  skips only who has failed in a row; a late answer is nobody's.
- **Task runner.** What acts unasked was allowed to; a task acts once; what callers
  are told is so, and is on the durable trace where the code puts it there.
- **Follow-ups.** More pressure never makes a follow-up less urgent; what a client has
  asked for stands out.
- **Outcomes and memory.** The outcomes of one follow-up lie on one path; an
  interaction on record is lost only to a call that overtook it.

## 2. Modules

| Module | Models |
|---|---|
| `SendOnce` | the promise made to the person who approves a message |
| `SendApproval` | the send plane, statement by statement; implements `SendOnce` |
| `SendApprovalProofs` | theorems about `SendApproval` |
| `OneReply` | the promise made to whoever asks for a reply to a message |
| `InboundDraft` | `runInboundDraft` over the idempotency table; implements `OneReply` |
| `InboundDraftProofs` | theorems about `InboundDraft` |
| `CredentialLifecycle` | token caches, refreshes, credential row and health record |
| `CredentialLifecycleProofs` | theorems about `CredentialLifecycle` |
| `MailConnection` | authorization, callback with rollback and disconnect of one mailbox; its credential row implements the environment of `CredentialLifecycle` |
| `MailConnectionProofs` | theorems about `MailConnection` |
| `Sessions` | login, authentication, rotation, logout and authorization of the mail routes, over tables that operators change |
| `SessionsProofs` | theorems about `Sessions` |
| `ModelRouter` | the router, its circuit breaker and adapters, and the draft generator in front of it |
| `ModelRouterProofs` | theorems about `ModelRouter` |
| `TaskRunner` | `runAaliyahTask` over the idempotency table, with its evidence, planner and gates |
| `TaskRunnerProofs` | theorems about `TaskRunner` |
| `Followups` | what `detectFollowup` decides while the evidence changes |
| `WorkspaceMemory` | follow-up outcomes and relationship memory in the application store |
| `FollowupProofs` | theorems about `Followups` and `WorkspaceMemory` |
| `MC…` | constants and symmetry for TLC |

In all of them an `await` is a step boundary and a database statement is atomic.
Between two awaits the code of an instance runs undisturbed. A process may die,
and a call may throw, between any two steps; what the code does about it is
part of the step that follows.

### SendApproval

`row[a]` is the approval's status and operation id, `due` what
`needingReconciliation` returns, `lapsed` the passing of `expires_at`, `send[s]`
the local state of one `sendMessage` call, `rec[r]` that of one `reconcileSend`,
`audit` and `ledger` the two logs as sets of the facts they state. `requests` is
what left for the provider and `fate` what the provider makes of it, which the
program cannot see.

| Action | Code |
|---|---|
| `Issue`, `AuditIssue`, `AuditIssueFails`, `UndoIssue` | `issueSendApproval`: insert, audit, expire again when the audit fails |
| `StartSend`, `ExpireOnBegin`, `RefuseSend`, `Claim`, `LoseClaim`, `AuditClaim` | `createBeginSend`: read, validate, claim conditionally, audit |
| `CallProvider`, `GetReply`, `Abandon` | `sendMessage` of the adapter and its classification of the answer |
| `Settle`, `SettleRefused`, `AuditSettled` | `createSendSettler`: conditional on `sending` and the operation id |
| `List`, `CheckProvider`, `RecRead`, `RecSettle`, `RecRecord`, `RecAudit`, `RecAbandon` | `approvalsNeedingReconciliation` and `reconcileSend` |
| `InvalidateForConnection`, `Lapse`, `BecomeDue`, `ProviderDecides` | the disconnect's UPDATE, the clock, the provider |

`CheckProvider` is the operator, outside `src/`: a verdict of "not delivered" is
given only of a message that can no longer land.

### InboundDraft

`record[k]` is the row of the idempotency table (status, payload hash, result),
`run[r]` one call of `runInboundDraft`, `gmail` the drafts saved at Gmail, `log`
the two traces, `answers` what callers were told. `Begin` and `Replay` are
`ensureIdempotentExecution`: one step, since the `ALTER TABLE` statements of its
transaction take an ACCESS EXCLUSIVE lock that keeps every other transaction off
the table until it commits. `CreateDraft`, `DecisionTrace`, `PersistTrace`,
`RecordResult`, `Throw` and `RecordFailure` are the awaits of the call; `Die` is
the end of its process, `GoStale` a claim that turns five minutes old, while its
call may be alive, and `RecordResultLost` a completing UPDATE that commits and
throws. The flag `disturbed` is history: it says that a held claim has gone stale or
an acknowledgement was lost. `OneRunPerKey`, `AnswerIsOnRecord` and `OneAnswer` are
stated until then, since the code gives no more (see 5); `AnswersFitRequests` and
`AnsweredIsTraced` hold always. `ImplementsOneReply` takes in both: in `OneReply` a
message is bound to its first payload, an answer is a draft saved for that message and
payload (or no action), and answers may differ only after `Unsettle`. It says what
`OneAnswer` says and more, so the run checks it in place of `OneAnswer`.

### CredentialLifecycle

One connection. `cred` is the row of `mail_credentials` with the grant (consent of
the user) whose refresh token, in any rotation, is in the envelope; `health` the
record of `mail_connection_health`; `cache[i]` and `inflight[i]` the two maps of an
instance; `flight[f]` a refresh, cut at its awaits: `Read`, `Mark` (open the
envelope, write "refreshing"), `AnswerToken`/`AnswerError` (Google), `Touch`
(`touchAfterRefresh`), `Report` (the last health write and the settlement of the
promise, `Land`). `CacheHit`, `Join` and `Start` are the three ways through
`getFreshAccessToken`. `Connect`, `Revoke` and `Delete` are the statements with
which `handleGoogleCallback` and `disconnectGoogle` change the row. `used`,
`revoked` and `held` are history, for the properties alone, and so is `interrupted`:
a refresh was cut short by a throw or a restart, or a health write was lost.
`HealthSettles` is stated until then. The connection id is derived from the mailbox
(`connectionIdFor`), so a reconnect writes the same row. `DestroyedUntilConnect` speaks
of both: a destroyed row gets a grant from a consent alone, and over the grant of a new
consent a late refresh can put only one that the row has held since it was asked for.
Line 76 of `credentialLifecycle.ts` holds two NUL bytes, the separators of its map keys:
tools that take the file for binary read it with `grep -a` or after `tr -d '\0'`.

### MailConnection

One mailbox. `oauth[t]` is a row of `mail_oauth_states`, `cred`, `conn` and `stopped`
those of the mailbox in `mail_credentials`, `mail_connections` and
`mail_job_markers`, `pending` whether it has an approval issued or being sent,
`call[c]` one callback or disconnect cut at its awaits, `audit` the facts in
`mail_audit_events`. `conn` carries the grant of the callback that saved the row,
which the row itself does not: it is what lets a property say that two rows belong
together. `from`, `lost`, `asked`, `saved`, `destroyed`, `overlapped` and `cut` are history.

| Action | Code |
|---|---|
| `Start`, `AuditStart`, `Expire` | `startGoogleConnect`: store the state, audit, give out the URL; the clock |
| `Consume`, `FailEarly`, `Exchange`, `Profile`, `SaveCred`, `SaveConn`, `AuditConnected` | `handleGoogleCallback`, await by await |
| `ExchangeLost` | `exchangeAuthorizationCode` throws, or the process dies, after Google has honoured the code: it is outside the `try`, so the callback ends and nobody gives the grant back |
| `Fail`, `UndoCred`, `UndoConn`, `UndoGrant`, `UndoAudit` | its `catch`: delete both rows, `safeRevoke`, `recordFailureAudit` |
| `Find`, `FindAgain` | `connections.get` of `disconnectConnection`, and of `disconnectGoogle` |
| `ReadCred`, `OpenToken`, `AskRevoke`, `Destroy`, `Stop`, `Invalidate`, `Remove`, `LogDisconnect`, `AnswerDisconnected` | the rest of the disconnect |
| `Cut` | a process dies; a database call of a rollback or a disconnect throws |
| `Approve` | `issueSendApproval`, which does not look at the connection |

`overlapped` says that a callback has run while another call did, or that an
approval was issued while one did; `MailboxIsWhole` and `DisconnectIsComplete` are
stated of the executions in which it has not, because the code does not serialise
callbacks of one mailbox (see 5). The other properties hold whatever
overlaps. `Row!Spec` is `CredentialLifecycle` without instances, callers or
refreshes: the row and the three statements that change it, which
`CredentialLifecycle` takes as its environment. `RowAsAssumed` is the refinement
that justifies it.

### Sessions

The four identity tables are `users`, `member`, `session` and `service`; tokens are
drawn in order (`issued`), and a row is found by its token because only the hash is
stored and hashes do not collide. `given` says which tokens reached their owner. A
request (`req[r]`) is cut at every statement, so operators (`SetUserStatus`, `Grant`,
`Suspend`, `RegisterService`, `RotateService`, `DisableService`, `EditService`,
`RevokeAllForUser`) and the clock (`Age`) act between any two of them.

| Action | Code |
|---|---|
| `Login`, `FindUser`, `ListMemberships`, `Insert` | `loginWithGoogle` after the assertion has been verified; `issueSession` |
| `Present`, `ReadSession`, `CheckUser`, `Touch`, `ReadRoles` | `authenticateRequest`, `resolveSession`, `principalForToken` |
| `ReadService` | the service branch of `principalForToken` |
| `Decide` | `authorizeMail` and the connect routes: by the principal, without another read |
| `Insert`, `Revoke`, `Answer` | `rotateSession`: the fresh session first, then the revocation of the old one |
| `ReadForLogout`, `Revoke` | `logout` |
| `Outage` | a statement fails or the process dies: nothing is undone |

`seen[r]` is history: the authority that held at some moment of the request, which
is what `AnswersAreRecent` compares an answer with. `parent`, `old` and `cut` of a
session row are history too. `Outage` at `Revoke` leaves the old and the fresh
session both live; `RotatedIsDead` holds because the answer with the fresh token is
sent only after the revocation.

### ModelRouter

`fails` and `cool` are the tracker's two numbers per provider, `req[r]` a call of
`generate`, `late` the attempts whose timer has fired while the provider still works.
`Begin` computes the order once, as `order()` does; `Settle` and `Timeout` are the two
ends of `withTimeout`; `LateReply` is the answer of a settled promise, which nobody
hears; `Deliver` is `routerDraftGenerator`, which turns an empty text into its fixed
sentence and lets a throw through. `fails` is counted up to `Threshold`, because the
code only compares it with that. The attempts of a request that has been delivered
leave `late`: nothing refers to them again. `streak` and `wronged` are history.

### TaskRunner

One user's tasks. `record` and `stale` are the idempotency table, as in `InboundDraft`;
the payload of a task does not vary here (`InboundDraft` models keys reused for another
payload), and its `tier` stands for it. `call[e]` is an execution, cut at its awaits:
`Gmail`, `Calendar`, `Workflow` (the broker with its three connectors, then the
evidence bundle and its checks), `Plan` (the provider's plan or the fixed fallback),
`Decide` (choice, verification, approval gate, shadow mode), `Execute`, `PersistTrace`,
`RecordResult`. `Fails` is `buildEvidenceWithPolicy`, which retries a time-out once, from
the start. `RecordResultLost`, `Throw`, `RecordFailure`, `Die` and `GoStale` are the
faults. `PersistTrace` writes a row only for a trace that names a workspace, and the
three early answers (escalated, approval, shadow) build theirs without one.

Evidence quality, scores, leads and thresholds are computed with the code's weights
and its rounding; the planner's numbers are integers of 0..100, as its schema asks for.
`executeIdempotent` always succeeds today, so `verifyPostconditions` always holds and
`recoverOrEscalate` is not reached. `disturbed` is history: a task with an execution
that outlived its claim, failed after it acted, or lost an acknowledgement.

### Followups

The evidence is the state (`EvidenceSpec` says how it changes) and the decision a function
of it: `inbox`, `calendar` and `workflow` are the sources of each connector, `age` the hours
since the first message.
A text is a set of phrases, and each regular expression the phrases it finds; one
phrase stands for each way the expressions overlap (`Matches`). The actions let
messages come in, meetings draw near and pass, workflow states change and time go by.
`Decision` is `detectFollowup`: resolved threads, the obligations, the owner
(`selectFollowupOwner`), the banded score and the adjustments on top of it. Urgencies are
1 to 4. The connectors stamp a source when they read it, so no source is old.

What one sees only by writing it down: `owner:` is matched inside `account_owner:` and
`deal_owner:`; an organizer is not checked against the placeholder names; the
name of an escalation queue that is written back as an owner disables both lifts,
which is why `ClientAsksStandOut` excludes it; `hasEscalatedFollowupObligation` adds no
follow-up that the strong obligation did not; the medium-to-high rule of
`adjustUrgencyForClientOwner` and the throw for a follow-up without evidence cannot be
reached.

### WorkspaceMemory

One process. `tracked` is the map of `trackFollowupOutcome`, `appends` the appends that
have not been answered, `rows` the log rows of this process. `Track` is the check and
the map's update, which no await divides; `AppendLands` and `AppendFails` end the append,
the latter with or without its row. `doc` is the document of a user's relationships,
`call[c]` a `recordInteraction`: `ReadContact` (the record, and the summaries made of it),
`Load` (`saveRelationship` reads the document again), `Put` (the whole document),
`Fail`. `Restart` empties what is in memory. Rows of earlier lives are not told
apart: after a restart a follow-up may start anywhere, and the property is about one
process. `landed`, `read` and `loaded` are history, for `Overtaken`.

## 3. Runs

Every run but `send_two_operators` passes, and explores its whole state space.

| Run | Shows |
|---|---|
| `send_approval` | type, no double send, rows and logs true, audited first, spent is final, and the refinement of `SendOnce` |
| `send_two_operators` | a disagreement (5): two operators, and a message that may land twice |
| `inbound` | until a claim goes stale under its call or an acknowledgement is lost: one worker per key, answers stay on record; always: answers fit and are traced, and the refinement of `OneReply` (same answer for all until then) |
| `credentials` | one refresh per instance, no dead grant used, destroyed stays destroyed, until interrupted the health record settles |
| `credentials_answers` | whatever fails, each caller is answered (liveness) |
| `connection` | states exchanged once and on record, listed is on record, grants that Google answered with accounted for, the mailbox whole, disconnects complete, and the refinement of the row `CredentialLifecycle` assumes |
| `sessions` | a rotated token is dead before its heir is out; only a rotation in progress survives a revoke-all |
| `sessions_authority` | no route acts, and no session is issued, on authority the tables have not granted since the request began |
| `router` | results are earned, who is skipped had failed in a row, every request ends (liveness) |
| `runner` | unapproved acts are licensed, a task acts once unless disturbed, answers are true |
| `followups` | pressure never lowers a follow-up, a client's ask stands out |
| `memory` | outcomes on one path, interactions kept unless overtaken |

**Bounds and why they are enough.** Two sends of one approval and two operation
ids are the smallest instance in which a message could land twice; the second
message makes the binding matter; one reconciliation at a time suffices because
a second begins when the first has ended. Approvals share no state but the logs, so
one is enough (the theorems are for any number). For drafting, three calls on two
messages with two payloads give a holder, a taker and a bystander, and three drafts
let each have one. For credentials, two instances and two refreshes give both the
overlap in one instance and the overlap of two; two grants give one reconnect. In
`credentials_answers` one instance and one grant are left, so that two callers
share one refresh or run one after the other without symmetry, which is unsound
for liveness. For connections, two calls give every pair of callback and disconnect,
and two authorizations and grants a consent and a new consent; the theorems are
for any number of each. In these modules nothing is counted: the only bounds are
the sizes of the constant sets (operation ids, drafts, grants and authorizations are
drawn and never returned).

For sessions, two requests and three tokens give a session, its heir and a rival, or a
rotation of a rotation, against one operator change, which is what a race with
`RevokeAllForUser` takes; in `sessions_authority` one request meets two changes in two
tenants, the fewest that let authority be taken and given back while it runs. `MaxTokens` and
`MaxChanges` are bounds of the model (random tokens do not run out). For the router, two
requests over all three providers with `Threshold` 2 and `Cooldown` 1 let one request
open the circuit under the other; the theorems are for any. For the task runner, two
executions of one task of every tier, at most one message and one event, a retrieval cut
at two sources (ten and ten in the code) and plans chosen for their gates: a sure candidate,
two too close to call, a blocked one and a risky one, beside the fallback. For
follow-ups, two messages, one event and one workflow state, drawn from small sets that
cover each phrase, owner and band; the theorems are for evidence of any size. For memory, three calls, two contacts and two kept summaries: a record can
roll over and be overtaken by its own contact or by the other; four calls without
follow-ups were checked as well (72,610 states).

**Symmetry.** Only sets of model values that no operator distinguishes are
permuted: calls, operation ids, operators, drafts, messages, instances, refreshes,
callers, authorizations, grants, requests, tenants, executions, contacts. The approval and the messages that a constant
function maps (`Bound`, `ConnOf`) are not permuted, nor is anything in the run of a
liveness property.

**Deadlock** is checked except for drafting, connections, tasks and follow-ups,
where the model may really stop: every draft id is drawn or every key answered, every
authorization is used or dead, all calls and executions are over, the evidence is
as full as its bounds allow and all meetings have passed.

**Fairness.** The send plane, drafting and connections assume none: nobody schedules a
send, a reconciliation or a disconnect. `FairSpec` of `CredentialLifecycle` assumes weak fairness of the
steps of each refresh: the runtime resumes every call whose await has ended, and
awaits end because the HTTP client aborts each of three attempts after ten seconds
(the body of an answer is bounded by the runtime's own body timeout: the client
clears its timer before it reads it) and the database and KMS clients answer or
throw. Nothing is assumed of callers, users, connects or disconnects. `ModelRouter`
assumes weak fairness of the steps of each request: its timer fires if its provider does
not answer, and its caller takes the result. No provider owes an answer, and the tracker's
clock need not tick. `Sessions`, `TaskRunner`, `Followups` and `WorkspaceMemory` assume
none: their properties are of safety, and nothing schedules their callers.

## 4. Proofs

**SendApprovalProofs.** What each call does on its own account holds for any number of
approvals, calls and operators: `CallsInv` (who works under which operation, what the
provider holds, what was audited when) is inductive without further ado, and from it
follow `TypeCorrect`, `AuditedFirst` and `SettlementsTrue`; `SpentIsFinal` needs types
alone. That at most one message lands does not hold for any number of operators, as the
run `send_two_operators` shows. What it takes is `SettlesWhatWasChecked`: the operation an
operator settles and files is the one he looked up. Under `[]SettlesWhatWasChecked`,
`SendInv` is inductive. It adds to `CallsInv` that an operation that may land is the one
its row names, and the row is not claimable (`LiveOps`), what rows say of operations
(`RowOps`), and what an operator knows (`RecOps`, `LedgerOps`). From it follow
`OneMessagePerApproval`, `RowsAreTrue`, `LogsAreTrue`, `Refinement` (every step is one of
`SendOnce` or a stutter) and `OnlyDisconnectsHide`: a message that may have landed is lost
to reconciliation only by a disconnect, which is how far `LandedSurfaces` (see 5) fails.
The hypothesis is one on operators, outside `src/`: `reconcileSend` takes an approval id
and reads the operation again. `OneOperatorSuffices` gives a rule that operators can follow,
from which the hypothesis follows: no two of them on one approval from its listing until its
row is settled. Its invariant is `OperatorRows`: meanwhile the row still names what was
looked up, because nobody else makes a held row claimable.

**InboundDraftProofs.** Two inductive invariants. `FaultyInv`, always: a call's
payload is the one its key was claimed with, and what it is about to record was
made for it and traced as far as it got; from it `AnswersFit` and
`AnswersAreTraced`. `CleanInv`, until `disturbed`: who works on a key holds a fresh
claim on it (`Claims`); from it `AnsweredOnce`, `WorkedOnOnce`, `AnswersStay`, and
`NoDraftAfterAnswer`: the second draft that a retry may save is of a message nobody has
been told about. `Refinement` needs both, and that an unclaimed key has no hash
(`Unbound`): a recorded answer is the first one of its key while steady, a replay repeats
it, and everything else binds, saves, unsettles or stutters.

**CredentialLifecycleProofs.** `Typed` adds to the types that only a live row holds a
grant; from it `TypeCorrect`. `OwnFlight` (a refresh belongs to an instance whose map
names it) gives `OneRefreshPerInstance`; `GrantsKnown` (what the row holds is noted for
every refresh on its way) gives `NoDeadGrant`; `HealthFits`, until `interrupted`, gives
`HealthSettlesUninterrupted`. `WaitInv` is the part of `CallersAnswered` that needs no
fairness: who waits, waits for a refresh on its way, and the map names no other
(`NobodyWaitsInVain`), and each step answers a waiting caller, or leaves his refresh where
it is, or takes it nearer to its end (`WaitsRunOut`). `DestroyedStaysDestroyed` rests on
`GrantsKnown` too: a refresh that writes over another grant knows both.
`OnlyOvertakenRefreshRevives` says how far `Unrecoverable` (see 5) fails: a destroyed
grant comes back only by a rotated refresh that a disconnect and a new consent have
overtaken.

**MailConnectionProofs.** Every property of the run `connection`. `Base` says what a call
holds at each pc and that a state in use was consumed for one callback and one grant; it
gives `TypeCorrect` and `NoReplay`. `StartsFit` (a state that may be consumed has its
start on record) gives `NoUnauditedExchange`. `RowsFit` (rows hold only what was
exchanged, and a callback that has not saved its grant finds it in no row) gives
`ListedOnRecord` and `RowRefinement`: without it `SaveCred` might store a grant twice,
which `Connect` of `CredentialLifecycle` does not do. `OnlyLostAnswersForget` needs that a
callback leaves its last step only with its grant given back, and that a grant enters the
model either with a callback that holds it or as one whose answer is lost. `QuietFits`,
until `overlapped`, says what each step of a callback or a disconnect knows of the rows,
and that where the two rows differ some call is between the steps that write them; with
`LogsFit` it gives `WholeAtRest` and `DisconnectsAreComplete`.

**SessionsProofs.** `Typed` (types, rows of tokens not yet drawn are absent, a request
holds what its pc needs) is proved first. `RotationInv` adds to `RotatedIsDead` and
`SurvivorsOvertook` what each request knows of the sessions it handles (`Heir`): without
it nothing says, when an answer is sent, that the session it replaces was revoked,
nor, when an heir is inserted, that the rotation was marked by the revoke-all it
overtook. `AuthorityInv` (`Earned`) says for each pc which authority the request has
seen; it gives `AuthorityIsRecent`.

**ModelRouterProofs.** `HealthInv` ties the tracker to what happened (`fails` is the
streak, and only a provider at the threshold cools down) and `RequestInv` says that
tried, skipped and still-to-try providers make up all of them. Together they give
`ResultsEarned` and `SkippedFailed`. `AttemptsRunOut` is the part of `RequestsEnd` that needs
no fairness: a step of a waiting request ends it, or takes one more provider off its list.

**TaskRunnerProofs.** `CallInv` says what an execution rests on at each pc, `RecordInv`
and `ToldInv` that a stored or given result is of an execution that did what it says,
`QuietInv` that an undisturbed task has one holder under a fresh claim, or the record of
the one that answered. That the fallback plan scores 65 and so always waits for
approval is a lemma of its own. Two theorems are about the numbers. `QualityAlwaysSuffices`:
any mixture of sources rounds to a quality of 84 to 90, so `low_quality`, which asks for 70,
refuses nothing, and contradictions are all that `assertEvidenceQuality` finds.
`AutomaticIsLowRisk`: a candidate that scores what an automatic write asks for has a downside
risk of 34 at most, an ambiguity of 62 and one contradiction, and is the best by ten points;
for such a write the limit of 60 on the risk never decides. That `selectCandidate` returns the
first of the best (`TopIsBest`) rests on the least-number principle.

**FollowupProofs.** For `Followups`, evidence of any size. `PressureHolds` goes by layers:
added evidence covers the old one (`Covers`), so every signal the decision reads is kept
(`SignalsGrow`), the obligations stay (`ObligationsGrow`), the banded score does not fall
(`ScoreGrows`), and the four adjustments, each monotone in what it is given and in what calls
for it, do not undo one another (`UrgencyGrows`). `EvidenceOK`, the types, is its invariant.
`AsksStandOut`: the two lifts, for an escalated thread and for an owned one, cover every
client's ask between them. `ClientOwnerLiftsOnce` and `EscalationAddsNothing` prove two
things section 2 says of the code: the medium-to-high rule never applies, and an escalated
obligation adds no follow-up.

For `WorkspaceMemory`, `OutcomesArePaths` is inductive as it stands. For
`InteractionsKept` the document is not enough: a call in flight carries copies of it.
`MemoryInv` says of the document, of every copy and of the summaries about to be put
that they keep what had landed when they were read, in the order in which it landed
(`Keeps`): a list in which an entry is missing from the middle could lose an earlier
one too soon.

Assumptions are those the modules declare on their constants (that `None` is not
one of the values it stands beside, that bindings are functions, what plans and
sources are made of) and, in the send plane, `[]SettlesWhatWasChecked`. `SendInv`,
`CleanInv`, `FaultyInv` and the other inductive invariants are proved, so no run repeats them.
Only model-checked: the liveness properties `CallersAnswered` and `RequestsEnd`. They rest
on fairness and on ENABLED, which the prover does not handle; their safety halves are the
theorems named above. Nothing is proved by induction over data.

## 5. Where the code and its documents disagree

One disagreement is a run that TLC ends with a counterexample, `send_two_operators`:
a verdict reached for one attempt is applied to the next, and the message may land twice.

The following have their property stated at the end of its module. Put it in place of
the properties of the configuration named here, and TLC finds it violated.

- `RateLimitedIsRetryable` (`SendApproval.cfg`, a PROPERTY): `classifySendError` tests for
  any 4xx first (`src/mail/sendGuard.ts:42`), so 429 is failed terminally; the branch of lines
  45-46 that calls it retryable is never reached.
- `LandedSurfaces` (`SendApproval.cfg`): `invalidateForConnection`
  (`mailStateStore.ts:427`) moves a send in flight to `failed_terminal`, so a message that
  lands is never reconciled; lines 355-356 say an ambiguous outcome stays `sending` and
  surfaces.
- `OneDraftPerMessage` (`InboundDraft.cfg`): a retry of work that failed after its draft
  was saved saves a second draft; `src/tests/inboundDraft.test.ts:104` says "no duplicate
  drafts".
- `RevokedIsRefused` (`CredentialLifecycle.cfg`, a PROPERTY): a token cached before a
  disconnect is handed out after it (`credentialLifecycle.ts:177`);
  `src/tests/credentialLifecycle.test.ts:187` says a revoked credential is refused.
- `Unrecoverable` (`CredentialLifecycle.cfg`): a late refresh seals a rotation of a revoked
  grant over a new one; `mailStateStore.ts:254` calls a revocation unrecoverable.
- `NeverHalfConnected` (`MailConnection.cfg`): the rollback of one callback deletes the
  credential that another of the same mailbox has just saved, and the mailbox is
  listed without one; `googleConnect.ts:99-100` says no failure leaves it so.
- `EveryGrantAccountedFor` (`MailConnection.cfg`): when the answer to the exchange is lost
  after Google has honoured the code (`googleOAuthHttp.ts:94-116`), the grant stays in force,
  neither connected nor revoked, and no failure is audited; `googleConnect.ts:142-143` says
  that any failure after a successful exchange revokes the fresh token. The exchange did
  succeed at Google, and without its answer there is no token to revoke.
- `RevokeAllEndsAll` (`Sessions.cfg`): a rotation between its read and its insert carries a
  session past `revokeAllForUser`, which `identityState.test.ts` says kills every session.

Seen while modelling and left without a property:

- `invalidateForConnection` names `issued` and `sending`, so a `failed_retryable`
  approval of a disconnected mailbox stays claimable.
- Everything thrown after the provider call is classified by its text
  (`googleMailAdapter.ts:214`): an error of the settlement, or of parsing a 2xx answer, whose
  text contains a 4xx number would settle a delivered message as failed. Texts are
  outside the model.
- A `sending` row is surfaced and never resolved unless an operator calls
  `reconcileSend`; nothing schedules it.
- `runInboundDraft` completes a key by its name, without asking who holds the claim: a
  call that outlives its claim, or one whose acknowledgement was lost, overwrites a
  completed key. This is why three properties of drafting stop at `disturbed`; the task
  runner has the same table and the same condition.
- The health record keeps what was written last: a later outcome can hide a
  revocation, and a failed `touchAfterRefresh` leaves it at "refreshing". Client errors
  other than 400, 401 and 403 are called transient. A token of a minute or less is never
  usable from the cache.
- A new consent of a connected mailbox that fails after the exchange takes the
  working credential and connection with it, because the rollback deletes by
  connection id.
- A disconnect that dies, or whose audit throws, after it has removed the connection
  is never audited: when it is retried, the route finds no connection.
- The job marker of a disconnect is not cleared by a reconnect; nothing reads it.
- The traces of a task's early answers name no workspace, so `persistTrace` never writes
  them durably.
- A message's title is its subject, so two messages of one thread under one subject,
  with different excerpts, contradict each other in `detectContradictions`.
- `approvals.insert` of the PostgreSQL store does not keep `reviewedAt`, and its list
  answers `created_at` instead; `listApprovalReviews` (`recordApprovalReview.ts:148-161`)
  removes duplicates by `reviewedAt`, so a review of this process is listed twice, where
  `services/followup/persistence.ts:5-10` says that dedup semantics are unchanged.
- `recordInteraction` of two contacts at once may drop one of them (the hazard behind
  `InteractionsAreKept`); no document claims otherwise.

## 6. What would come next

1. **Onboarding and the single-put stores**: operators and one action each; their rules
   are guards the code states in one line, so they were left for last.
2. **Migrations** with start-up: instances that die while they hold the table lock.
3. **Tasks over `OneReply`**: an abstract specification of a task like that of a message,
   from which `ActsOnce` and `AnswersAreTrue` follow.
4. **Confidence, draft quality and revenue scores** as operators, once a document says
   what they are meant to order.

## 7. Not modelled, and why

- **Cryptography**: envelopes are carried by what is inside them, and their calls may fail.
- **Onboarding**: the caller holds the progress record; each operation is a pure function
  that checks the step it expects, and only the last one writes, with one put.
- **Migrations**: each start-up runs them in one transaction under an ACCESS EXCLUSIVE lock
  taken before the applied ones are read, so starts follow one another.
- **Replies, reviews and divergences of follow-ups, preferences, styles, revenue**: one
  put or append without a condition; `runFollowupExecution` composes an injected resolver
  with calls modelled elsewhere and keeps no state.
- **Scores of analysis, style, revenue and trust**: formulas whose only property is
  themselves.
- **Other mail adapters**: their send follows the one that is modelled; the rest
  translates to a provider's interface. `testConnection` creates a draft to try a mailbox.
- **HTTP routing, configuration, readiness, logging, metrics, certification, deployment**,
  the wording of messages and traces, and the in-memory twins of the stores, which serve
  tests.
- What a provider does beyond its answers. Texts of errors are abstracted to the
  classes a provider's answers have.

`PROJECT.json` lists every component with its status.
