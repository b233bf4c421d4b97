# United Pass: TLA+ verification

United Pass is a login portal and identity platform: a Go backend in front of an
identity provider (ZITADEL), with PostgreSQL for what must last and Redis for
sessions and short-lived one-shot records. The Next.js front end keeps no
authoritative state. This directory models the parts of the backend in which two
actors, or one actor and a crash, can disagree about who is signed in, who may do
what, and what was promised to whom. Paths below are relative to
`src/backend/internal/`.

- [1. The system](#1-the-system)
- [2. The modules](#2-the-modules)
- [3. What each run shows](#3-what-each-run-shows)
- [4. What is proved](#4-what-is-proved)
- [5. Where the code and its documents part](#5-where-the-code-and-its-documents-part)
- [6. What is only model-checked, and what is not modelled](#6-what-is-only-model-checked-and-what-is-not-modelled)
- [7. Plan](#7-plan)
- [8. Running it](#8-running-it)

## 1. The system

Every HTTP request is a goroutine; several server instances share PostgreSQL,
Redis and the provider. There is no distributed lock: exclusion comes from
conditional SQL statements, one-shot Redis commands (`GETDEL`, `SET NX`, Lua
scripts), leases with tokens, and the provider's own one-shot callbacks. Background
work is one recovery goroutine per observed password intent, and per instance a
ticker each for: consent reconciliation, abandoned factors and provider sessions,
WeChat obligations and mails, the verifiers of registrations, revocation jobs,
publications, the mutations of DreamUp, exports and deletions, and the directory.

| Component | State | Operations | Hard because | What makes it correct |
|---|---|---|---|---|
| Security state ledger (`securitystate`) | epoch and one password intent per user | acquire, record, release, take over, settle, force-degrade | owner and recovery race; a crash between any two statements | the epoch moves exactly with the outcome; a terminal row is final; every intent ends |
| Password change (`adapters/httpapi/password_handlers.go`) | the request's copy of the intent | gate, provider call, record, rotate, clean up, audit, answer | provider timeouts; checks that grow stale | one writer at a time; the audit never overstates |
| Session promotion (`adapters/httpapi/session_middleware.go`) | none | validates, asks the ledger, triggers recovery | runs between all others | no session of an old generation is promoted |
| Session store (`session`, `adapters/redis/session_store.go`) | record per token, locator per session, index per user | create, touch, rotate, list, revoke | multi-key state read by several commands; heals race with rotations | one record per session; ended stays ended; a revocation finds what is live |
| OAuth consent (`consent`, `adapters/postgres/consent_repo.go`) | operation row per request, grants, audits | document, decide, decide silently, complete with error, reconcile, revoke | facts read one after the other; provider success before the commit; two browsers | one decision per request, on facts that held, exactly one effect, after a proof |
| Factors, two-step sign-in, reauthentication (`adapters/httpapi/security_handlers.go`, `auth_handlers.go`, `reauth_handlers.go`) | enrolments, challenges, claims, grants, cleanup queues in Redis | begin, confirm, cancel, remove; begin, complete, use | claim, expiry and worker race; factors change in between | bounded guesses, one reward, nothing left at the provider |
| Registration (`registration`, `riskdefense`) | form intents, challenges, budgets, lanes, accounts, verifiers | issue, challenge, admit, create, mail, verify, compensate | four systems, each may lose its answer; limits under concurrency | one form one registration, charged once, backed by a mailbox and an upstream account |
| WeChat (`wechatonboarding`, `wechatregistration`, `wechat`) | onboarding records, obligations, effects, outbox | begin, bind, complete, clean up, notify | leases, promotion against cleanup | one account per identity; a session kept is a session owed to nobody |
| Recovery and contacts (`passwordreset`, `phoneverify`, `accountcontact`, `qrauth`) | one-time tickets, mirrored contacts | request, redeem, approve, sign in | tickets raced; two copies of an address | a ticket works once, for the account it names |
| Applications (`applications`) | applications, clients, rotation flags, reconciliation jobs | create, update, switch, rotate, delete | a saga over two stores with compensation | nothing half-done is silent |
| Administrators (`adminstepup`, `adminroles`, `identityaccess`) | credentials, receipts, proofs, bindings, asks, grants | enrol, verify, rotate; ask, decide, claim, settle | snapshots, generations, one-shot bearers | one effect per key; authority in force when used |
| DreamUp administration (`dreamupadmin`) | ledger of proxied mutations | proxy, claim, settle, reconcile | remote effects of unknown outcome | sent once; the ledger says what happened |
| Workforce (`workforce`) | accounts, profiles, departments, revocation jobs | disable, offboard, link, move, revoke, list | joined jobs; walks during sign-ins | assignments in force; sessions owed have a pending job |
| Policies (`policies`, `permissions`, `adapters/cerbos`) | drafts, versions, publication jobs, what the engine holds | save, publish, reconcile, check, simulate | two stores; handler and reconciler hold one job | the selected version is installed and means what it says |
| Privacy (`privacy`, exports of `audit`) | deletion requests, export jobs, objects | request, cancel, claim, purge, complete, fail | slow workers without owner tokens; retries | cooling-off honoured; nothing personal outlives it |
| Providers (`providers`) | switch, sync jobs, staged directory, links, sign-in states | switch, sync, resolve, sign in | slow workers; first sign-ins race | links one to one; nobody enters through a shut door |
| One-time commands (`dreamupbootstrap`, `adminbootstrap`, `adminpolicybootstrap`) | a pair and its secret file, catalogue, first super administrator | create, verify, publish, grant | run twice, at once, or cut short | whole or not at all; a success saw what it speaks of |
| Provider client, delivery, configuration, observability, front end | none of their own | I/O, start-up, views | outside | – |

How they interact:

- The *promotion middleware* asks the ledger for every request, denies while an
  intent is `active`, deletes sessions stamped below the user's epoch, and starts
  recovery of non-terminal intents.
- The *password handler* consumes a *reauthentication* grant, acquires the intent,
  calls the *provider*, records the outcome (which advances the epoch), rotates
  its own *session*, has the store delete the older ones, settles, and *audits*.
  Factor changes, onboarding and reauthentication read the same epoch
  (`SecurityChange` and `AccountChange` in their modules).
- The *consent* gateway reads facts of *applications*, *sessions* and grants, and the
  decision claims an operation row, completes the provider's request once, proves
  that, and commits the grant with its audit. Reconciler and losers repair forward.
- *Registration* passes the risk gate and the queue, then reserves, mails, and creates
  upstream. Its verification, WeChat onboarding and recovery change the accounts that
  sign-ins look up.
- *Step-up* proofs gate role changes, identity access and the proxied mutations of
  DreamUp. A rotation of the question revokes what was given under the old one.
- The *workforce* directory, *privacy* deletions and *registration* change the status
  of an account; the session store ends sessions through its walk, which may fail and
  leave a job. A *directory synchronisation* links and retires people.
- *Policies* published in the console, by the reconciler or by the bootstrap command
  reach the same engine.

## 2. The modules

| Module | Models | Checked in |
|---|---|---|
| `SecurityState` | ledger, password handler, recovery, promotion, session stamps | `MCSecurityState` |
| `SecurityBoundary` | what ADR-0007 promises; implemented by `SecurityState` | `MCSecurityState` |
| `SecurityStateProofs`, `SessionStoreProofs` | theorems and proofs about the module they are named after | |
| `ConsentDecisionProofs` | those about `ConsentDecision` and `Authorization` | |
| `AdminProofs` | those about `AdminStepUp`, `IdentityAccess` and `MutationLedger` | |
| `EntryLimitsProofs` | those about `RegistrationGate`, `Admission`, `Registration`, `AccountRecovery` and `Notifications` | |
| `CeremoniesProofs` | those about `Ceremonies`, `Enrollment` and `WeChatOnboarding` | |
| `AdminPlaneProofs`, `EntryPlaneProofs` | properties of the planes, from the theorems about their components | |
| `ConsentDecision` | decision, reconciler, grant revocation | `MCConsentDecision` |
| `DecisionOutcome` | what ADR-0005 promises of one request; implemented by `ConsentDecision` | `MCConsentDecision` |
| `Authorization` | an authorization request from its arrival to the claim | `EntryPlane` |
| `SessionStore` | records, locators and index in Redis | `MCSessionStore`, `LivenessPlane` |
| `Enrollment` | TOTP and passkey factors and the cleanup worker | `EntryPlane`, `LivenessPlane` |
| `Ceremonies` | two-step sign-in, reauthentication, grants | `EntryPlane` |
| `WeChatOnboarding` | onboarding, its obligations and worker | `EntryPlane`, `LivenessPlane` |
| `RegistrationGate` | form intents, honeypot, challenges, budgets | `EntryPlane` |
| `Admission` | the lanes of waiting registrations | `EntryPlane`, `LivenessPlane` |
| `Registration` | accounts, upstream users, codes, verifiers | `EntryPlane`, `LivenessPlane` |
| `Notifications` | WeChat effects and their mails | `EntryPlane`, `LivenessPlane` |
| `AccountRecovery` | password reset, phone and address, QR sign-in | `EntryPlane` |
| `Applications` | applications and clients here and at the provider | `AdminPlane`, `MCApplications` |
| `AdminStepUp` | the security question and its proofs | `AdminPlane` |
| `IdentityAccess` | roles, asks, decisions, one-use grants | `AdminPlane` |
| `MutationLedger` | proxied mutations of DreamUp | `AdminPlane`, `LivenessPlane` |
| `Workforce` | accounts, profiles, departments, revocation jobs | `AdminPlane`, `LivenessPlane` |
| `Policies` | drafts, publications, decisions | `AdminPlane`, `LivenessPlane` |
| `Privacy` | deletions and exports | `AdminPlane`, `LivenessPlane` |
| `Providers` | directory synchronisation, links, provider sign-in | `AdminPlane` |
| `Bootstrap` | the one-time commands | `AdminPlane` |
| `EntryPlane`, `AdminPlane`, `LivenessPlane` | the components side by side | their configurations |
| `MC*` | the instances: model values and inputs | |
| `EntryCases`, `AdminCases` | the batches of the planes | |

Conventions.

- One action is one statement, transaction, Redis command or script, or one provider
  call. What a handler read before it sits in that actor's own variables, so it may be
  stale when it is used. A transaction whose isolation and locks make it atomic is one
  step; a transaction that waits (a reservation, a promotion) is several.
- A failed call may have taken effect. Operators named `Fault`, `Mishap`, `Stumble` and
  their negations (`NoFault`, `Fine`, `Calm`, `Smooth`) count faults up to `MaxFaults`;
  the action has the effect, and its absence, under the same fault. `Crash` is the death
  of one process: its variables are lost, the rows stay.
- A request is an input record (`InputOf[r].op`, ...) with a label for its next
  statement. `Batches` (or `Scenarios`, `Budgets`) name the mixes of requests `Init`
  chooses from. Each mix holds those that can meet on one record.
- History variables (`doubled`, `overtaken`, `witness`, ...) record what a property needs to
  know of the past.
- Operators named `X_Something`, defined directly before `X`, are faulty variants of it:
  plausible bugs (a dropped guard, an off-by-one, a swapped order) against which the
  properties are tested. No specification uses them.

Planes. Most components share no variable with each other while they run, so their
product would only multiply states. A plane puts them side by side: its variable `part`
picks one component, the others' variables stay `"unused"`, and names that occur in
several components are one variable. A property of a plane asks each part its own form
of one question (`InStaff(P) == part = "staff" => P`). `Parts` chooses the components of
a run: `Parts = {"staff"}` in `AdminPlane.cfg` checks the workforce alone, in seconds.
The planes' inputs and batches are in `EntryCases` and `AdminCases`, which have no
parameters; `LivenessPlane` uses both. Where components do meet, the interface is
modelled in each of them from both sides: `SecurityState` has the epoch and the session
stamps, `SessionStore` the keys; `Authorization` the road to the claim, `ConsentDecision`
what follows it; `Bootstrap` changes by the console and by the reconciler of `Policies`.

### SecurityState

One user, since all its state is per user. `epoch` and `intent` are the two rows;
a missing row and a settled one read the same, so `Init` has a settled intent with
id 0. Workers are requests and one recovery goroutine per server instance; `pc`
names the next statement of a worker and `mine` is its copy of the intent, which
every compare-and-set (`Fence`) compares with the row.

| Action | Code |
|---|---|
| `Reauthenticate`, `ConsumeGrant` | `ReauthHandlers.issueGrant`, `VerifyAndConsumeData` and the gate `AllowSensitiveConsumption` |
| `ReadState`, `Takeover`, `BumpAttempts`, `ForceBegin`, `ForceSettle` | `Service.Recover` with the store's statements; a request runs it inline before `Insert` |
| `Insert` | `AcquireIntent`, with its single-winner condition |
| `CallProvider`, `LateCommit` | `SetPassword` under its deadline; external, with confirmed, rejected and unknown outcomes |
| `RecordOutcome`, `ReleaseConfirmedFailure` | the two ways out of `active` |
| `Begin`, `Rotate`, `Clean`, `CleanOne`, `Degrade`, `Settle` | `Service.SettleIntent`, for owner and recovery |
| `Respond` | the audit attempt and the answer |
| `LoginStamp`, `LoginStore` | `CreateSession`, which reads the epoch and stores the record later |
| `Promote`, `EndSession` | the middleware; logout, revocation, expiry |
| `LeaseExpires`, `Crash` | time and process death |

`Punctual` says whether an owner always reaches the record of its outcome inside
its lease. The validated configuration (`LeaseTTL > ProviderDeadline` plus the
settlement timeout, `config/config.go`) makes this so unless the process stalls;
`FALSE` lets it stall. `LateWrites` says whether a call the handler gave up on may
still commit at the provider.

The session inventory is abstract here: a cleanup visits every live session. That
the index holds every live session is what `SessionStore` checks, and it holds
without concurrent rotations only; see section 5.

### ConsentDecision

One OAuth client; rows and grants of different clients never meet. A browser runs
one request of the gateway or the decision handler, `row` is the operation row per
authorization request, `grant` the grant with its scopes, `provider` the external
authorization request.

| Action | Code |
|---|---|
| `ArriveInteractive` | `DecisionService.Decide` and `CompleteWithErrorCallback` up to the claim |
| `ArriveSilent`, `GrantStatus`, `GrantScopes`, `ReadSilent`, `ReadForError` | `executeNone` and `DecideSilently`, whose grant check is two reads, done twice |
| `Claim` | `INSERT ... ON CONFLICT DO NOTHING` and the read after a conflict |
| `Complete`, `Fail`, `Prove`, `CommitAndAnswer` | `claimCompleteAndCommit` after a won claim |
| `RepairAsLoser` | `resolveClaimConflict` |
| `GrowStale`, `List`, `Visit`, `AbandonPass` | `Reconciler.RunOnce` with its batch and its stale threshold |
| `RevokeGrant`, `Expire`, `Crash` | revocation, the provider forgetting a request, process death |

`clock` only orders claims and revocations. A request in `Poisoned` has a row
corrupted out of band, which no commit accepts. A commit takes kind and user from
the locked row, never from the caller's copy.

### SessionStore

`rec`, `loc` and `idx` are the three families of Redis keys. Tokens are minted once.
A record's `fresh` stands for "stamped with the new epoch", `dead` for "past its
idle deadline". Lua scripts are single steps (`Delete`, `Inventory` in `Create`,
`TouchWrite`, `RotateWrite`); readers are a step per command.

| Action | Code |
|---|---|
| `Create`, `TouchRead`/`TouchWrite`, `RotateRead`/`RotateWrite`, `EndByToken` | `Service.CreateSession`, `TouchSession`, `RotateSession`, `DeleteSession`, and the store's scripts |
| `Idle`, `Evaporate` | the idle deadline; the TTL of record and locator |
| `StartRevoke`, `StartWalk` | `RevokeSession`; `RevokeAllOtherSessions` and `RevokeSessionsBeforeEpoch` |
| `Locate`, `Fetch`, `HealLocator`, `HealIndex` | `resolve`, with its two bare heal commands |
| `HealWalk`, `Revoke`, `Purge`, `Finish` | the loop of a walk, and `DeleteBySessionID` |
| `StartList`, `Range`, `MGetLocators`, `MGetRecords`, `HealMember`, `FinishList` | `ListUserSessions` |

`Init` chooses the `mix` of a behaviour from `Mixes`: `mix.rotate` lets sessions rotate,
which only a settled password change does; `mix.late` lets a touch that read the record
before the idle deadline write after it. A mix without either is `Steady`. The index's own
TTL is left out: the scripts keep it at least as long as the furthest score.

### Authorization

One person and one authorization request per behaviour. Client, redirect, scopes,
session and grant are facts that `World` changes between reads. `Read` is the next
statement of a request, and what it saw stays with the request in `run`.

| Action | Code |
|---|---|
| `Arrive`, `Route` | `InteractionGatewayHandlers.InteractionLogin`, `InteractionGatewayService.Route` |
| `ResolveRequest`, `DecideRequest`, `SilentRequest`, `ErrorRequest` | `ResolutionService.Resolve`, `DecisionService.Decide`, `DecideSilently`, `CompleteWithErrorCallback` |
| `ReadClient`, `ReadRedirects`, `ReadScopes`, `ReadGrant` | the three statements of the client lookup, and `grantReusable` |
| `Claim`, `Complete`, `Fails` | `claimCompleteAndCommit` and the provider's answer, abstract here (see `ConsentDecision`) |
| `World` | sign-in, sign-out, time, administrators, revocation, expiry upstream |

`witness` remembers which facts have held since a request began, because the code reads
them in three statements: the properties say "held at some moment since". Scopes are a
set, a malformed one a token of it. A session of another credential version counts as
"not V2". Grant status and scopes are one read here and two in `ConsentDecision`.

### Enrollment

| Action | Code |
|---|---|
| `Register`, `IssueEnrollment`, `Compensate` | `BeginTOTPEnrollment`, `BeginPasskeyEnrollment`, `issueEnrollment`, `compensateTOTPBegin` |
| `ClaimEnrollment`, `Gate`, `Confirm`, `ReleaseEnrollment`, `Finalize` | confirm: the claim, the security-state gate, the provider, `finalizeEnrollment` |
| `Cancel`, `RemovePendingTOTP`, `Remove` | cancel and removal of a factor |
| `ClaimExpiredPasskeyEnrollments`, `ListPasskeys`, `RemoveAbandoned`, `CompletePasskeyEnrollmentCleanup` | the cleanup worker with its leased entries |

A claim lock that ends under a live TOTP request counts as a fault. The lease's back-off
is the choice of when it expires.

### Ceremonies

A ceremony is a sign-in or a reauthentication; completions and uses name theirs.

| Action | Code |
|---|---|
| `BeginLogin`, `BeginReauthentication`, `CreateMFA`, `StoreChallenge` | `login`, `Request`, `Create`, `createChallenge` |
| `ClaimChallenge`, `Judge`, `CountAttempt`, `ReleaseChallenge`, `ConsumeWon`, `ConsumeLost` | completion with the claim lock, the attempt counter and the one-shot consume |
| `HandleAuthenticated`, `RevokeProviderSession` | the session of a sign-in; the end of a temporary provider session |
| `MintGrant`, `AuditGrant`, `PutStepUp`, `UndoGrant` | `issueGrant`, which undoes an unaudited grant |
| `ConsumeGrant`, `AllowUse` | `VerifyAndConsumeData` |
| `PopExpiredChallenges`, `RevokeAbandoned` | the sweep |

Rate limits of the routes are left out.

### WeChatOnboarding

Subjects are WeChat identities with or without a linked account; `obligation` is the
cleanup record of a provider session, `promotion` the lease under which a handler hands
it out.

| Action | Code |
|---|---|
| `BeginService`, `CreateOnboarding`, `CreateFederatedSession` | `Begin`: the linked account is signed in, another gets a token |
| `Claim`, `Limited`, `FindByNormalizedEmail`, `VerifyUserPassword` | completion with the account's snapshot |
| `StoreMFAChallenge`, `CompleteMFAProvider`, `IncrementAttempts`, `ReleaseAfterFailure` | the second factor |
| `BindExistingOnce`, `BindExistingWithWeChat`, `CompleteLinkedWithVerifiedPhone` | the binding transactions with their retry |
| `Consume`, `ConsumeHash`, `CreateSession`, `CompleteProviderSessionPromotion`, `Drop`, `Release`, `Revoke`, `ScheduleProviderSessionCleanup` | promotion to a native session, or the way back |
| `ClaimCleanup`, `RevokeProviderSession`, `CompleteCleanup`, `RetryCleanup` | the worker |

`lapsed` marks challenges whose lock a live request lost (or whose release after a wrong
code lost its answer): the older request may then revoke the session that a newer
completion uses, and `SessionBacked` makes no claim about those. Recovery of a pending
account and the reservation of a new one are abstracted.

### RegistrationGate, Admission

The gate follows one submission through `IssueFormIntent`, `CreateHandler`, `Complete` and
`RevokeBlock`; each Redis script of `redis/risk_store.go`, `registration_form_defense.go` and
`rate_limiter.go` is a step (`BindFormIntentEmail`, `RecordRegistrationHoneypot`,
`IsRegistrationBlocked`, `ReserveRegistrationChallenge`, `FinalizeRegistrationChallenge`,
`ClaimChallenge`, `ConsumeRegistrationChallenge`, `PutTrust`, `CheckRegistrationCreateChain`,
`RefundRegistrationCreateCohorts`, ...). One network; domain cohorts are folded into the
bucket of the address; markers and blocks do not expire.

`Admission` has the channels of `registration/admission.go` as counters: `TryReserve`,
`TryReserveUnfamiliar`, `retainLane`, the three acquires, `WaitTimeout`, and the deferred
releases (`Release`, `GiveBack`, `LeaveLane`, `releaseLane`).

### Registration, Notifications

| Action | Code |
|---|---|
| `CreatePending`, `CreateToken`, `AddHumanUser`, `FindPending`, `DeletePending`, `DeleteToken`, `DeleteProviderUser` | `Service.Create` with its compensation |
| `Resume`, `Reserve`, `ReserveNew`, `InsertReserved`, `ReservePendingWithWeChat`, `ClaimProofs`, `IssueToken`, `CreateReservedUser` | `createVerified`: the reservation's two databases, a retry with the same form |
| `VerifyProviderEmail`, `IsPending`, `ActivateVerified`, `Clear` | `VerifyRegistration`, which reads back when the code is spent |
| `ResendEmail` | `Service.Resend` |
| `ListIntents`, `ReadAuthority`, `DeleteIntent` | `CleanupCompleted`, the worker of the verifiers |

`unsure` and `revived` record lost answers of the creation and of its undoing. A public
creation whose answer was lost may be compensated while its mailed link is followed; the
active account is then left without an upstream one (`Undone` in `ActiveBacked`). `DeletePending`
is a transaction of two steps: `FindPending` looks without a lock, and what follows deletes persona
and provider link (`linked`) whatever became of the account since, the account itself only if it is
still pending (`Removed`). The advisory locks serialise registrations, not this.

`Notifications`: `RecordTx` appends the effect with the mutation, a worker's `ListPending`,
`Lock`, `ReadTarget`, `Send`, `AppendTerminal`. `doubled` names those whose terminal record of
a sending was lost, the only ones sent twice.

### AccountRecovery

| Action | Code |
|---|---|
| `RequestReset`, `SendMail`, `ConsumeResetToken`, `SetPassword`, `RevokeSessions` | `passwordreset`: the sessions are ended at best effort after the password is set |
| `RequestPhoneChange`, `SendCode`, `ConsumePhoneCode`, `UpdatePhone` | `phoneverify` |
| `BeginEmailChange`, `VerifyEmail`, `ReadEmail`, `UpdateVerifiedEmail` | `accountcontact`: the provider verifies, the local row mirrors |
| `BeginQR`, `AuditApproval`, `Approve`, `ConsumeChallenge`, `CanUseSession`, `AuditReceiver`, `CreateSession` | `qrauth` |

`outrun` names accounts whose mirror was written after a newer change had begun (section
5). No index makes `users.email` unique (`00001`, `registration_repo.go:57`), and
`UpdateVerifiedEmail` looks at no other row: a stale mirror and a new owner can show one address,
and `RequestReset` takes any of the accounts that show it, as `GetByEmail` does (`Holds`). Addresses are
unique at the provider, which answers `AlreadyExists` (`account_contact.go:69`, `Unowned`): an
assumption about that service. Phones are unique because `UpdatePhone` checks under serializable
isolation and advisory locks. Rate, risk and grant gates are one action, `Limited`.

### Applications

`client` is the client row with what the provider holds; `app` the application row; `op` a
request's input and label. Each mutation of `applications/service.go` is a chain of
transactions (`Tx`) and provider calls (`Call`): `StartUpdateApp`/`UpdateApplication`,
`CreateClientWithOperation`/`ProvisionClient`/`Remove`, `ReadClient`/`UpdateClientConfig`,
`StartSetStatus`/`ListClients`/`SetClientStatus`/`SetApplicationStatus`,
`StartDeleteClient`/`StartDeleteApp`/`MarkDeleting`/`CompleteClientDeletion`/`MarkDeleteFailed`,
`StartRotate`/`BeginSecretRotation`/`CompleteSecretRotation`/`AbortSecretRotation`, and
`RecordTrail` for the reconciliation job. Faults are a set of (request, kind), so a property
can say which fault it forgives. Public clients, names, owners, gates and rate limits are
left out; audits are written in the same transaction.

### AdminStepUp

The serializable transactions of `admin_stepup_repo.go` are a snapshot and a commit with
conditions (`SameVersion`, `NoCycle`, `Committable`). `RequireBinding`, `Replay`, `Open`,
`EnrollReads`/`Enroll`, `Reject`/`Verify`, `CreateGrant` (Redis, before the commit), `Commit`.
`WindowEnds`, `LockEnds`, `TriesEnd` and `ProofExpires` are time.

### IdentityAccess

`Authorize`, `ConsumeStepUp`, `CreateRequest`, `Decide`, `Claim`, `Settle`, `RoleChange`, `Rotate` are
`identityaccess/service.go`, `adminroles/service.go` and their repositories; `Batches` mixes them
around one first ask. A rotation has the effect that `AdminStepUp` gives it. The HTTP
handlers and services exist but the server does not route to them yet.

### MutationLedger

`Authorize`, `BeginMutation` (one transaction, so the phase `pending` never commits),
`PersistReviewIdentityReason`, `RenewClaim`, `AbortBeforeSend`, `Execute`, `Upstream`, `Respond`,
`SettleMutation`, `FailMutation`, `DeferReceipt` are a proxied request; `ClaimReceiptsDue`,
`ReadReceipt`, `ReconcileOne` the reconciler. A pass reads its clock once, so its own lease never
looks ended to it: the token is the only fence. A pass that outlives its lease is a fault.
`ClaimDue`, the outbox' `ReleaseExpiredClaim`, `MarkAuditReconciled` and `PurgePayload` have no
callers in production.

### Workforce

| Action | Code |
|---|---|
| `Admit`, `Refuse`, `TxFails` | authorization, refusals and the aborts of a serializable transaction |
| `DisableUser`, `EnableUser`, `RevokeUserSessions`, `Enqueue` | status changes with the job in the same transaction |
| `LinkEmployee`, `UpdateEmployee`, `OffboardEmployee` | profiles, owners and supervisors |
| `CreateDepartment`, `UpdateDepartment`, `DeleteDepartment` | the tree |
| `RevokeAllUserSessionsByAdmin`, `ResolveAccessRevocation`, `FailAccessRevocation` | the walk of a request or of the reconciler, and its end |
| `ListPending`, `NextJob` | the reconciler's pass |
| `RevokeUserSession`, `RecordTargetSessionRevocation` | one session of another person |
| `CheckStatus`, `SignIn` | sign-ins that looked at the status earlier |
| `ListUsers` | the pages, by a cursor on a mutable key |

`overtaken` marks joiners whose job another settler resolved (section 5). Names of
departments, personas, numbers and reauthentication are left out.

### Policies

Contents are (effect, operator, values); attributes come from `Present`. `Create`, `Update`
(with the version the editor saw), `BeginPublication`, `Install`, `CompletePublication`,
`FailPublication` are the console and `policies.Service.Publish`; `ClaimPublicationJobs`, `runJob`,
`SettleJob` the reconciler; `ListPublished` and `Check` an authorization, `Resolve` and `Simulate`
the readers. Role floor and lifecycle are inputs (`allowed`, `active`).

### Privacy

`RequestDeletion`, `CancelDeletion`, `ClaimDeletions`, `DeleteProviderUser`, `MarkProviderDeleted`,
`RevokeAllUserSessions`, `CompleteDeletion`, `FailDeletionAttempt`; `CreateExport`, `ClaimExports`,
`BuildDocument`, `CompleteExport`, `FailExport`, `GetExport`. Ages (`CoolingEnds`, `DeletionAges`,
`ExportAges`, `ExportExpires`) are steps. `overrun` marks exports whose worker outlived its claim,
`exhausted` requests with a worker asleep through all attempts (section 5). A document is one
read, the first, which decides.

### Providers

`Switch`, `LookForSync`, `EnqueueSync`, `ClaimSync`, `fetchDepartments`, `FetchDirectory` (one
department per step), `BeginApply`, `ApplySnapshot`, `FailSync`, `RecordFailure`, `Resolve`,
`Ignore` are the directory; `BeginFeishu`, `FeishuCallback`, `ExchangeCode`, `CheckProvider`,
`LinkedUser`, `RecordUnlinked`, `CanUseSession`, `CreateSession` a sign-in through it;
`GetIdentityLink`, `CreateFirst`, `ReadWinner` the first sign-ins through ZITADEL. `Move` is a
person changing departments. `MaxAttempts` is 3 in the code and 2 here.

The part of `CompleteDeletion` (`privacy_repo.go`) that meets the directory is a transaction of
statements, each a step: `ClearMatches`, `DeleteConflicts`, `DeletePeople`, `DeleteLinks`, and
`CompleteDeletion` with the account and the commit; `AbortDeletion` undoes them. Under `READ
COMMITTED` each takes the rows that are committed when it runs; `erasure` keeps them, others wait
for them (`Undisputed`, `ConflictTaken`, `StagedTaken`) and see what became of them at the commit. The
account row is locked by the last statement only, so `Resolve` can commit in between.

### Bootstrap

`PairStep` (`FindExisting`, `ReserveCredentialFile`, `InsertPair`, `ProvisionPair`, `CompletePair`,
`StoreSecret`, `FindCreated`, `ReadClient`) is `dreamup-bootstrap`; `PolicyStep` (`FindByName`,
`CreatePolicy`, `BeginPolicy`, `PublishPolicy`, `CompletePolicy`, `ReadBackPublished`,
`ReadBackPDP`) `admin-policy-reconcile`; `AdminStep` (`VerifyIdentity`, `Apply`, `ReadState`)
`admin-bootstrap`, which runs the catalogue first. `Outside` is what the server and the console
do meanwhile. Signatures, hashing and the checks of the file's directory are left out.
`witness` collects, for a run, the facts that have held since it started.

## 3. What each run shows

Runs that TLC finishes without error:

| Run | Instance | Shows |
|---|---|---|
| `SecurityRaces` | 2 requests, 1 recovery goroutine, 1 login, 1 session, 1 fault, punctual owners | owner, recovery inline in the second request, and a recovery goroutine race for each transition; provider calls are serial (`SingleWriter`), and no audit row claims more than was settled (`AuditNeverOverstates`) |
| `SecurityBoundaryRun` | 1 request, late commits, stalling owners, 1 recovery goroutine, 1 login, 2 sessions, 1 fault, fairness | outcome and epoch move together, final outcomes stay, one step retires the whole old generation (`ImplementsBoundary`), cleanup only removes dead sessions, every intent ends |
| `ConsentReuse` | 2 browsers, 1 user, 3 requests (one silent, one corrupted), 1 reconciler, 2 faults, fairness | one winner per request, one provider call, one audit event; every active grant is backed by a proved completion (`GrantBacked`, `ImplementsOutcome`); a row beyond repair does not stop the others (`Reconciled`) |
| `SessionInventory` | `Rotating`: 3 tokens, 1 caller, an owner and a stranger; `Calm`: no rotations, 2 callers, 1 fault | touch, rotation, expiry and revocation neither duplicate nor revive a session (`OneToken`, `EndsOnce`), and revocations stay in scope (`RevocationStaysInScope`); in a steady mix the inventory stays whole (`InventoryComplete`), what is reported revoked is gone (`ReportedIsGone`), and a walk that answers success left nothing (`WalkComplete`) |
| `AdminPlane` | nine components, below | effects happen once, answers agree with the rows, half-done work leaves its trail, authority is in force when it is used |
| `EntryPlane` | nine components, below | single use, exact limits, outcomes backed by proofs, leftovers somebody will settle |
| `LivenessPlane` | ten components, fairness | `Settles`: no cleanup, job, record, publication, deletion, export or turn is waited for in vain; `InventoryHeals`: whatever a heal destroyed while a session rotated, its next touch restores |

Runs that TLC must find violated (section 5): `SecurityAuditGap`, `ConsentRevocation`,
`SessionFalseSuccess`, `ApplicationLeak`, `RegistrationStranded`.

The properties of the planes ask each component its own form of one question:

| `AdminPlane` | Components' properties |
|---|---|
| `AdminTypes` | every `TypeOK` |
| `EffectsOnce` | `OneEffect` (step-up, access); `SentOnce`, `TokenOnce` (ledger); `JobsOnce`, `ListedOnce` (staff); `EndsOnce` (policy); `SyncEndsOnce`, `StateUsedOnce`, `SwitchOnRecord` (provider); `OneLivePair`, `GrantWhole` (bootstrap) |
| `AnswersHold` | `AnswerRecorded`, `WrongAnswersCounted`; `ReceiptsHold`; `LedgerHonest`, `AnswerAgrees`, `ReasonFirst`, `StatusAnswers`; `RevocationAnswersHold`; `PublicationAnswersHold`, `DecisionSound`, `SimulationTrue`; `PromiseKept`; `FirstLoginsAgree`; `AnswersVouched` |
| `RowsReal` | `SecretKnown`, `ProvisionedIsReal`; `AssignmentsInForce`, `HierarchySound`; `SelectedIsInstalled`, `NoDraftLost`; `LinksUnique`; `GrantBacked`, `OnlyFixedPublished` |
| `LeftoversTraced` | `LeakLeavesTrace`, `DriftFlagged`, `PartialEnableUndone`, `Settled`; `OwedIsPending`; `GoneOnRecord`, `PurgedFirst`, `NothingPersonalLeft`; `SecretKept` |
| `QuestionBound` | `ProofsOfThisCredential`, `OneProof`; `RotationRevokes` |
| `AuthorityInForce` (action) | `UsedInForce`, `ApprovedForHolder`, `Final`; `EndsKept`; `CleanReturn`; `PublishedForward`; `CoolingHonoured`, `DeletionForward`; `StagingForward`, `NoFalseRetirement`, `ShutMeansNoEntry` |

| `EntryPlane` | Components' properties |
|---|---|
| `EntryTypes` | every `TypeOK` |
| `UsedOnce` | `OneActor`; `OneReward`, `AcceptedOnce`; `SingleOutcome`; `OneRegistration`, `SoleChallenge`; `CodeOnce`, `OneUpstream`; `SentOnce`; `RedeemedOnce` |
| `LimitsHold` | `GuessesBounded` (ceremonies, gate); `BudgetsExact`, `StrikesEarned`; `SlotsBalanced`, `DomainBounded`, `LaneCurrent` |
| `ProofBacked` | `GrantAudited`, `GrantOfChallenge`; `SessionBacked`; `HumanProven`; `ActiveBacked`, `AnswerBacked`; `DeliveredWasSent`; `SessionApproved`, `ContactProven`; `FreshClaims`, `FactsInForce`, `ReuseBacked` |
| `LeftoversCovered` | `PendingCovered`; `TempCovered`, `SweepSpares`; `SessionsAccounted`; `RefusedLeavesNothing`, `VerifierKept`; `MirrorAccounted`; `ClaimAnswered` |
| `AuthorityUnique` | `ForeignBurns`; `LinksOneToOne`; `AuthorityUnique`; `ContactsUnique`; `OneMeaning`, `NoLoginLoop` |
| `SettledStays` (action) | `WorkerSpares`, `ActiveKept`; `LinksKept`; `PinKept`; `SuspendedKept`; `TerminalKept`; `TicketKept` |

Why these bounds. Every transition of the security ledger is a compare-and-set on id and
status, so two requests meet each other's late owner and recovery and a third would only
meet a settled row again. One login with two sessions suffices for a session minted in
each generation. Three tokens allow two rotations, so that a reader can hold a hash from
before the last one. `MaxSettlementAttempts = 1` reaches the force-degrade and its two
transitions at the first retry. `Batch = 2` is larger than the number of corrupted
consent rows: with at least `Batch` of them the code's oldest-first listing would starve
younger rows, and `Reconciled` is not claimed then.

In the planes, each component has two requests that can meet on every record of interest
(three where a third sees what two left: step-up, onboarding, registration, policies,
providers), two workers where a lease or claim can be taken over (ledger, notes,
privacy, providers) and otherwise one, and one fault; applications, registration,
privacy and recovery have two, because undoing can fail as well. Applications run any
two of the twelve operations on one application with two clients. The batches
choose the mixes: all requests of all kinds at once would add only states in which they
do not touch each other's records. Limits are one or two where the code has tens, so
that each is reached; `Privacy!MaxAttempts` is 2 (10 in the code), the queue has two
slots, challenges take two guesses. Clocks and versions end at the `Max...` of their
module. A batch limit larger than the instance (claims of 5 exports) never binds.

`CHECK_DEADLOCK FALSE` is in every configuration because each instance really stops
when its requests and sessions are used up.

Fairness is weak throughout, and only for what the code's scheduling runs by itself:

- `SecurityState`: workers' next statements (goroutines run), `LeaseExpires` (time
  passes), and promotions by clients that come back with a session. Logins,
  logouts, acquisitions and failures are never forced. `Terminalizes` assumes in
  its formula that there are sessions again and again, because recovery is only
  triggered by a request: an intent of a user without sessions stays as it is,
  by the code's design, until one appears.
- `ConsentDecision`: rows grow stale and the reconciler's ticker keeps listing and
  visiting. No browser has to go on. Its failures are bounded, so some pass succeeds.
- `LivenessPlane` has one formula for each component: a worker's ticker
  (`WorkerStep`, `Worker`, `RunOnce`, `CleanupCompleted`, `Tick` with `Settle`, `Work`); the ends of
  leases, locks and lifetimes (Redis and the clock); a request that was received runs on
  unless its process dies. No person has to return, except that clients of usable
  sessions keep touching (`HealingFairness`) and callers in the queue work on. Crashes stay
  possible everywhere, within the faults.

  | Part | Waits for |
  |---|---|
  | `enrollment` | a passkey registered and abandoned is removed or confirmed |
  | `onboarding` | an obligation is worked off or retired |
  | `ledger` | a claimed mutation ends, at the latest by its operational deadline |
  | `queue` | a caller gets through or is refused |
  | `registration` | a verifier nobody needs goes |
  | `notes` | a pending notification is sent, fails, or waits for its account |
  | `staff` | a pending revocation job is resolved |
  | `policy` | an active publication completes or is given up |
  | `privacy` | a deletion under way or an export being built ends |

Every property of a passing run has a fault in the model's definitions against which
it was tested: `PROJECT.json` lists one for each, and TLC finds the property violated
under the same configuration. The other `X_Something` operators were tested the same way
against the component's own conjunct.

## 4. What is proved

A run checks an instance; the theorems of the eight proof modules hold for every value of
the constants: any requests, workers, sessions, keys, rows and bounds. Their assumptions:

- `SecurityAssumption`, `ConsentAssumption` and `SessionAssumption` are the `ASSUME`s of the
  modules: sets of different actors are disjoint, bounds are naturals, input tables have
  their types.
- The components of a plane have an operator each (`LedgerAssumption`, `StepUpAssumption`,
  `IdentityAccessAssumption`, `GateAssumption`, `AdmissionAssumption`, `RegistrationAssumption`,
  `RecoveryAssumption`, `NotificationAssumption`, `CeremoniesAssumption`,
  `EnrollmentAssumption`, `OnboardingAssumption`, `AuthorizationAssumption`) that says the same,
  and of the mixes a behaviour starts from that they are states the stores allow (one owner
  of an address or a link; sessions and facts of the shape of their rows). It is a hypothesis of each
  theorem. The planes assume it of their instances by name (`StepUpHolds`, `GateHolds`, ...,
  `FrontHolds`), and TLC evaluates it there.
- `OneWriter` supposes `DeadlinesHold == Punctual /\ ~LateWrites`, the instance in which
  `SecurityRaces` checks it: leases outlast provider calls, and no call the handler gave up
  on commits later. `AllListed`, `ReportsTrue` and `WalksFinish` speak of the `Steady` mixes,
  as their properties do. Section 5 says what happens otherwise.

Each proof has the same shape. A named invariant `...Inv` is the property with what it
needs to be inductive; lemmas say what the actor of a step may do to the shared rows, so
that the preservation of each conjunct looks at few kinds of steps instead of all actions;
the theorems follow from the invariant.

A module that holds several components makes an instance of each but the one it extends. Where
two declare a constant of one name, the instance's is renamed (`LedgerKeys`; `RegRequests`,
`RegInputs`, `RegScenarios`, `RegFaults`; `RecRequests`, ...; `Notices` for the notifications;
`MFA...`, `WX...`, `Front...`), and where two invariants have a part of one name, the later
one carries the component's prefix (`RegOwned`, `RecShapes`, `WXStored`). The `...Counts` lemmas say that an
instance's `Cardinality` and `IsFiniteSet` are the standard ones.

### The planes

| Theorem | Property |
|---|---|
| `BoundToQuestion` | `QuestionBound` |
| `PlaneTypes` | `EntryTypes` |
| `OneEffect` | `UsedOnce` |
| `WithinLimits` | `LimitsHold` |
| `BackedByProof` | `ProofBacked` |
| `NothingForgotten` | `LeftoversCovered` |
| `OneOwner` | `AuthorityUnique` |
| `SettledIsKept` | `SettledStays` |

All safety of `EntryPlane` is proved. A plane fixes the constants of its components, so these
theorems speak of its instance; what they add to the run is that the components' theorems, which
hold for all constants, are about these very components. For each part `Same...` says that
the definitions under a component's theorems are the plane's, name by name, and `Runs...` that a
behaviour of the plane with that `part` is a behaviour of the component, and that no other
behaviour ever becomes one. The property is then the conjunction of the components', each under
its part. In `EntryPlaneProofs` the instance `Decided` of `ConsentDecisionProofs` serves for
`Authorization` only; the decision itself is given no browser, request or row.

### SecurityState

| Theorem | States |
|---|---|
| `TypeCorrect` | `TypeOK` |
| `EpochExact` | `EpochMatchesIntent`: the epoch moves once for a success or unknown outcome and never otherwise |
| `OutcomeFinal` | `OutcomeImmutable`: outcomes are final, settled rows immutable |
| `StampsBehind` | `NoStampAhead`: no session, login or worker is ahead of the users row |
| `CleanupSpares` | `CleanupSparesCurrentGeneration` |
| `AuditsHonest` | `AuditNeverOverstates` |
| `OneWriter` | `DeadlinesHold` implies `SingleWriter` |
| `BoundaryImplemented` | `ImplementsBoundary`: the refinement of `SecurityBoundary` |

1. `TypeOK` is not inductive: `ConsumeGrant` and `Rotate` use `token[r][1]`, which is a
   session only once a token was presented. `TypeInv` adds `GrantedHasToken`.
2. `LedgerMoves`: whatever the step, (`epoch`, `intent`) makes one of seven moves (`Still`,
   `Held`, `Acquired`, `Rejected`, `Advanced`, `Begun`, `Closed`), each from the status that its
   compare-and-set demands.
3. `EpochMatchesIntent` is not inductive either: an advance from `active` keeps the count
   only if no outcome is on the row yet. `LedgerInv` adds `ActiveUndecided` and `Recording`.
4. A step writes at most one session record, none ahead of the epoch, and never together
   with the ledger (`SessionMoves`). This makes `NoStampAhead` inductive (`StampInv`).
5. `OwnerInv` follows the copies: a worker that reports on an intent owned it (`OwnersOf`), a
   copy of the current intent agrees with it (`CopiesAgree`), and what the owner is about to
   audit is what the row reached (`ReportTrue`). `AuditsHonest` follows.
6. `WriterInv` adds the lease: whoever is between acquisition and record holds the active
   intent under a live lease (`HoldsLease`), did what it is about to record (`DidIt`), and the
   provider holds what is recorded (`RecordedIsHeld`).
7. The refinement maps `epoch` to the generation, the status to the phase and the live
   sessions stamped with the epoch to the valid ones. The advance of the epoch empties that
   set at once because nothing was stamped ahead.

### ConsentDecision

| Theorem | States |
|---|---|
| `TypeCorrect` | `TypeOK` |
| `CallbackGoesToWinner` | `CallbackToWinner` |
| `ProviderAskedOnce` | `SingleProviderCall` |
| `AuditedOnce` | `AuditExactlyOnce`: winner, losers and reconcilers commit one audit between them |
| `GrantsBacked` | `GrantBacked`: an active grant has the scopes of an allow that the provider completed |
| `OutcomeImplemented` | `ImplementsOutcome`: the refinement of `DecisionOutcome` |

The claim makes one browser the holder of a request. `HolderInv` says what it may rely on until
it has its answer: there is no other holder (`SoleHolder`), the row is its decision, even when
a reconciler has failed it as stale (`HolderRow`), nobody asked the provider before it
(`FirstToAsk`), past its success the provider did what it asked for (`ProviderDid`), and past
the proof the row says so (`ProofOnRow`). A proved row is what the provider did
(`ProvedIsDone`): losers and reconcilers, who never speak to the provider, rest on that.
`EffectInv` adds the audits and the grants, which are written with the row in one transaction.
The refinement reads the outcome off row and provider.

### SessionStore

| Theorem | States |
|---|---|
| `TypeCorrect` | `TypeOK` |
| `TokenUnique` | `OneToken`: a session has one record |
| `NoRevival` | `EndsOnce`: an ended session never comes back |
| `InScope` | `RevocationStaysInScope` |
| `AllListed` | `InventoryComplete`, in steady mixes |
| `ReportsTrue` | `ReportedIsGone`, in steady mixes |
| `WalksFinish` | `WalkComplete`, in steady mixes |

A caller acts on what it read some commands ago. `JobsFit` says what stays true of it: the
record it fetched keeps its session and its generation, whatever happened to it since.
With the integrity of the keys (`Minted`, `OneToken`, `Located`, `Indexed`) it is inductive
(`StoreInv`); scope and finality are then facts about single steps. Under `Steady`, `CalmInv`
adds that a session has one record ever (`Single`), that the inventory is complete, and that
what a caller heals, purges or leaves behind is over (`JobsSound`): heals are harmless because
of `Single`.

### MutationLedger

`TypeCorrect` and, of the properties in section 3, `NeverSentTwice` (`SentOnce`), `OutcomesHonest`
(`LedgerHonest`), `AnswersKept` (`AnswerAgrees`), `ReasonsStored` (`ReasonFirst`), `TokensSpent`
(`TokenOnce`), `RowsReadable` (`StatusAnswers`), `EndsFinal` (`EndsKept`).

A claim passes to a reconciler at any time, so its fence is not what keeps a mutation
single: a row is opened once, marked indeterminate in the same transaction, and never marked
back while the request that opened it may still send. `LedgerInv` says so: one request is
engaged with a row (`OneEngaged`), its label says what DreamUp and the row hold
(`RequestsFit`), only a request that was sent moves DreamUp (`Backed`), nobody is at work on a
row that failed (`Closed`), a pass about to settle a row has seen the receipt (`Witnessed`),
and a token is granted still or held by one request (`Spent`).

### AdminStepUp

`TypeCorrect`, `EveryFailureCounted` (`WrongAnswersCounted`), `KeyEffectOnce` (`OneEffect`),
`AnswersOnRecord` (`AnswerRecorded`), `ProofsCurrent` (`ProofsOfThisCredential`), `ProofSingle`
(`OneProof`).

A transaction commits on the snapshot it opened with. `StepUpInv` says what of a snapshot
still holds while the version of the row is the same (`Snapshots`): it is of the credential in
force, which has not been locked since. Only an active credential has proofs (`Dormant`), and
the count of failures stays below the limit until the row is locked (`Counting`).

### IdentityAccess

`TypeCorrect`, `EffectOnce` (`OneEffect`), `AnswersStayTrue` (`ReceiptsHold`), `QuestionBinds`
(`RotationRevokes`), `Finality` (`Final`), `UseUnderAuthority` (`UsedInForce`), `ApprovalProved`
(`ApprovedForHolder`).

What a request read before its transaction is worth nothing; the proofs rest on what the
transaction revalidates and on rows that only move forward (`Forward`). `AccessInv`: the
version of a row says how far it came (`Versioned`), what ran left its receipt, its used
reason and its proof (`Filed`), a consumed token is gone and proves one request (`HeldOnce`), the
rows show what ran (`Recorded`), and an ask about to be created is not there (`Unasked`).

### RegistrationGate

`TypeCorrect`, `RegistersOnce` (`OneRegistration`), `ChallengeAlone` (`SoleChallenge`), `ProvenHuman`
(`HumanProven`), `ExactBudgets` (`BudgetsExact`), `BoundedGuesses` (`GuessesBounded`), `EarnedStrikes`
(`StrikesEarned`), `PinsStay` (`PinKept`).

What a request relies on further down its path was established on the way there (`Placed`), the
submission at the service stands alone for its intent (`Sole`), and a delivered challenge occupies its
scope (`Occupied`). Strikes, guesses and charges are counted against the intents and completions
themselves (`StrikesPaid`, `Counted`, `BudgetsExact`), so a repetition, a refund or a crash counts
nothing twice. `GateInv` is their conjunction.

### Admission

`TypeCorrect`, `SlotsAccounted` (`SlotsBalanced`), `LanesLive` (`LaneCurrent`), `DomainsShare`
(`DomainBounded`).

Where a caller stands says what it holds (`HoldsWhatItTook`), and the counters are the
cardinalities of the holders (`ChanCounts`, `LaneCounts`). The last reference takes a lane out of
the map: a count of one that contains the leaver contains nobody else, so no one is left
with a lane the map has lost (`LaneCurrent`), and everybody inside a domain has an entry in the
semaphore of one and the same lane.

### Ceremonies

`CeremonyTypes` (`TypeOK`), `EarnsOnce` (`OneReward`), `AcceptsOnce` (`AcceptedOnce`), `GuessesAreBounded`
(`GuessesBounded`), `GrantsAreAudited` (`GrantAudited`), `GrantsKeepGeneration` (`GrantOfChallenge`),
`TempsAreCovered` (`TempCovered`), `WorkerSpares` (`SweepSpares`).

A ceremony has one right to its reward, and it is handed on: from the request that begins it
to the live challenge, from the challenge to the one request that consumes it, from there to
the session or the grant (`SoleRight`). What is stored is of the ceremony under way
(`Ordered`, `Challenged`), so a request that has won mints with the generation the challenge was
stamped with (`Stamped`); whoever takes a grant out of Redis stands alone at the gate that
accepts it (`SoleTaker`).

The lock on a challenge may run out under its holder, and the counter of attempts is
compared after a code was judged, so neither bounds the guesses alone. `Paid` adds them up:
the wrong codes judged and those being judged are at most the room the counter grants, one
more for a holder that will still count or end the challenge, and the calls, crashes and
locks that failed. `TypeOK` follows from it, not the reverse: the bound of the counter is
that of the guesses.

### Enrollment

`EnrollmentTypes`, `PendingIsCovered` (`PendingCovered`), `ForeignIsBurned` (`ForeignBurns`),
`SingleActor` (`OneActor`), `ActiveStays` (`WorkerSpares`, `ActiveKept`).

`EnrollInv`: a request past its claim holds the lock, unless a TOTP lock lapsed (`Claims`); a token not
given out yet has only its registration (`Minted`); an active factor was activated through its
token, which is consumed, being consumed, or lost (`Settled`); a passkey a worker works on has neither
challenge nor lock, and neither returns (`Cleaning`). `PendingCovered` is inductive with these: the
index, a lease and a live request let go of a pending passkey only after it is settled.

### WeChatOnboarding

`OnboardingTypes`, `SingleReward` (`SingleOutcome`), `SessionsBacked` (`SessionBacked`), `SessionsCovered`
(`SessionsAccounted`), `LinksUnique` (`LinksOneToOne`), `LinksStay` (`LinksKept`).

`OnboardingInv` follows the challenge and the provider session of a token. What there is of them
depends on where its request stands (`Placed`, `WXStored`); who was given what a token is worth has spent
its challenge, and is alone (`Spent`); while the claim lock has not lapsed its holder is alone at
work (`Exclusive`), and the session it relies on is neither promoted nor with a worker (`Relied`); what
a worker has found stays so (`Sweeping`). A version only grows, so a binding that compares it is made
for the account its password check saw (`Versioned`); `Counted` bounds versions and attempts by the
requests that moved them. Where a lock lapsed under a live request, `lapsed` names the token and no
claim is made. A crash in the undoing of a failed completion leaks the session of the ceremony it
handles, as `leaked` records.

### Registration

`RegistrationTypes`, `OneAuthority` (`AuthorityUnique`), `ActiveProven` (`ActiveBacked`), `VerifierStays`
(`VerifierKept`), `NothingLeft` (`RefusedLeavesNothing`), `SuccessBacked` (`AnswerBacked`), `SingleUpstream`
(`OneUpstream`), `CodeServesOne` (`CodeOnce`), `SuspendedStays` (`SuspendedKept`).

A request works on four systems, one after the other. `RegistrationInv` tells its story by its
label: what it has made so far and what is still to be undone, or whose reservation it joined
(`Stories`). An account without its link is one whose registration was undone past `FindPending`
(`AccountAt`). Addresses, phones and identities stay unique because the advisory locks of an open
transaction have one holder (`Guarded`) and keep what it saw in the database true until it inserts
(`Untaken`). What an account and a verifier may say follows from who proposed them (`RegOwned`,
`Intended`), a WeChat code has one claimer (`Claimed`), and the sweep has only verifiers past their
grace on its list (`Sweeping`). `PendingRetainsVerifier` is not among the theorems: it does not
hold (section 5). Nor does an active account always keep its link: `RefusedLeavesNothing` says that
only one whose own registration is being undone can lose it.

### AccountRecovery

`RecoveryTypes`, `OneRedemption` (`RedeemedOnce`), `SessionsApproved` (`SessionApproved`),
`ContactsProven` (`ContactProven`), `UniqueContacts` (`ContactsUnique`), `MirrorsAccounted`
(`MirrorAccounted`), `TicketsStay` (`TicketKept`).

Tickets are read and deleted by one script, so the request that took one is alone with its effect, and
the ticket is gone (`RecSole`). `RecoveryInv` says what stands behind a ticket (`Recorded`), what a request
past the script carries with it (`RecCarried`), and that an address the provider calls verified was
verified for that account (`Verified`). That no two accounts show one address is neither true nor
claimed: `ContactsUnique` says that one of the two has another address at the provider by then,
and `ContactProven` that a reset went through an address proven for the account it reset.

### Notifications

`NoteTypes`, `MailedOnce` (`SentOnce`), `DeliveredTrue` (`DeliveredWasSent`), `TerminalStays` (`TerminalKept`).

`NotesInv`: the advisory lock has one holder, who is at work on the note (`Locked`); past its second look
the note is still pending (`Checked`); mails sent are the terminal record, the holder's
that is not recorded yet, and those whose record was lost (`Tallied`).

### Authorization

`FrontTypes`, `ClaimsAreFresh` (`FreshClaims`), `FactsWereInForce` (`FactsInForce`), `ReuseIsBacked`
(`ReuseBacked`), `ClaimsAreAnswered` (`ClaimAnswered`), `SignInSettles` (`NoLoginLoop`), `MeaningIsOne`
(`OneMeaning`).

Whatever the world was when a request arrived, or became since, is in its `witness` (`Witnessed`); what
it has read was such a state (`SeenFit`); where it stands fits its door and the prompts
(`PlaceFit`, `PromptFit`); what it decides rests on what it has read, on its session, and on what it
still reads when it decides (`KindFit`); who is sent to sign in has not just done so (`LoginFit`). `FrontInv` is their conjunction for every request,
with the claim being that of one of them (`ClaimOf`).

## 5. Where the code and its documents part

Shown by a run that violates the quoted promise:

- `ChangeIsAudited` (`SecurityAuditGap`). When the owner dies after the provider call,
  recovery settles the intent and nothing audits the change; ADR-0007 wants an attempt
  on every terminal path.
- `RevocationSticks` (`ConsentRevocation`). A commit reactivates a revoked grant
  whatever the order of claim and revocation, also for a silent decision, whose grant
  check is not repeated with the claim.
- `RevokedIsGone` (`SessionFalseSuccess`). A walk resolves a session to its token hash;
  a rotation moves the record; the delete script finds nothing, and the walk reports
  the session as revoked.
- `NoSilentLeak` (`ApplicationLeak`). A deletion lists a client that is still being
  provisioned, the creation completes, and the row goes with the provider application
  left active and on no record.
- `PendingRetainsVerifier` (`RegistrationStranded`). The verifier cleanup takes a verifier
  that a reservation under way has just reused.

Exempted by name in a property, with the history variable that names them:

- `outrun` (`AccountRecovery`): a verification that read the address, then wrote it after a
  newer change was verified, leaves the local row behind the provider's.
- `overtaken` (`Workforce`): a request joins a pending job whose other settler has already
  walked; that settler resolves the job, then the joiner's own walk fails, and it answers
  "cleanup pending" although no job is.
- `overrun` (`Privacy`): `FailExport` is unconditional, so a slow worker fails an export that
  another one completed. Five exports of two minutes in one claim exceed the five
  minutes after which they are reclaimed.
- `exhausted` (`Privacy`): a worker that slept through all attempts of a failed request
  removes the provider account under a new request, resting or cancelled.
- `Undone` (`Registration`): see `ActiveBacked` above. In `RefusedLeavesNothing` it names the accounts
  that may lack their link: the undoing finds the account pending (`registration_repo.go:371`),
  the mailed link activates it, and the undoing deletes the link and persona of an active account
  (388, 391), though its comment says that it "removes only the exact unverified identity" (357).
- `DecidedBetween` and `erasure.links` (`Providers`, in `LinksUnique`): a conflict resolved to the account
  between `DeleteConflicts` (`privacy_repo.go:475`) and `DeleteLinks` (486) stays resolved without its link,
  and resolving it again answers success without making one (`provider_repo.go:214`); resolved after
  `DeleteLinks`, the link to the deleted account stays. ADR-0014 (52) lists links and conflicts as
  removed by one transaction. Every other link and conflict is as `LinksUnique` says.
- `lapsed` (`WeChatOnboarding`), `doubled` (`Notifications`): a lock or a record lost, above.
- `NoFalseRetirement` (`Providers`) exempts persons who moved between departments while the
  directory was fetched: they are in no page and retire.

Visible in the models, in no property:

- The gate of a password change checks the grant's stamp before the intent is acquired
  (`password_handlers.go:191`), and acquiring does not compare epochs: a change that
  settles in between leaves the old grant driving the next one.
- `already_authorized` documents are continued by the front end into the decision
  endpoint, which does not look at the grant again, although `resolution.go` calls the
  document advisory: a revocation between the two is undone without a new consent.
- A client whose creation read the application active is provisioned active after the
  application was disabled; a client may be inserted under a deleted application; a slow
  enable reactivates a client that was disabled alone. Ambiguous provider answers of an
  update or a switch leave no trace. A crash in a rotation leaves it in progress, and
  nothing reads the reconciliation jobs.
- Cancelling an enrolment whose settlement lost its answer removes the active factor.
  An abandoned TOTP registration has no worker.
- Password reauthentication has no entry in the cleanup queue, and a worker that dies
  after popping entries loses them.
- A retried proxied mutation whose first request died conflicts for ever; a settlement that
  meets it answers 502. Role changes do not revoke grants already claimed. A claim whose
  answer was lost loses its nonce.
- A reset token is spent although setting the password failed, and one of a suspended
  account still sets it. An approved QR code outlives the session that approved it.
- A slow settler of a resolved job ends sessions made after the account came back. A list
  sorted by the time of update may skip or repeat rows changed meanwhile. Enabling an
  account that waits for its verification activates it.
- A publication the handler reports as failed may be published by the reconciler, and
  one whose failure was not recorded later.
- The claim of a synchronisation names no owner, so an older snapshot may end the job its
  reclaimer holds; what `StagingForward` keeps is the order of the snapshots stored.
- A bootstrap cut off between the commit and the file leaves a pair whose secret nobody
  has, and later runs still report it verified; one that failed before leaves a row
  that every later run reports as drift. Approvals are used up, so a first grant cannot be
  repeated by the same operators.

Limits of the session models: `InventoryComplete` is claimed without rotations, since a
rotation between the two reads of `resolve` lets its heal delete the new locator and index
entry, and `InventoryHeals` is what remains true. `WalkComplete` is claimed without touches
in flight across the idle deadline. `SingleWriter` is claimed without late commits at the
provider: the deadline bounds how long the handler waits, not when the provider acts.

## 6. What is only model-checked, and what is not modelled

Only model-checked:

- All liveness (`Terminalizes`, `Reconciled`, `Settles`, `InventoryHeals`): fairness and
  `ENABLED` are outside what the proof system handles.
- Six properties of `AdminPlane` as wholes: `AdminTypes`, `EffectsOnce`, `AnswersHold`, `RowsReal`,
  `LeftoversTraced` and `AuthorityInForce`. Their conjuncts about step-up, access and the ledger are
  proved; those about applications, workforce, policies, privacy, providers and the one-time
  commands are not.
- That the instances of a plane satisfy the hypotheses of the theorems: TLC evaluates the
  `ASSUME` of the plane for its constants, no others.

Every safety property of the runs of `SecurityState`, `ConsentDecision` and `SessionStore` is
proved, the two refinements included, and so is every safety property of `EntryPlane`.

Left out of modelled components, because it ends before any state is touched or
shows in no property: input validation, CSRF and cookies, fixed-window limits of routes,
display data and documents, encryption of provider references, lists and pages (but
for the workforce's), log lines, cryptography. Each module's header and section 2 name
what is particular to it.

Not modelled:

- *Delivery adapters, HTTP clients of the provider and of Cerbos, WeChat and Feishu*: input
  and output. What a call may answer and leave behind is modelled where it is made.
- *Configuration and wiring* (`config`, `bootstrap/server.go`, the mains): start-up code
  without concurrency; one validated relation is in `SecurityState` (`Punctual`).
- *`localzitadel`*: prepares a developer's local instance.
- *Observability, integration boundaries*: metrics and a static table.
- *`mscaccess`*: verifies a signed assertion; its callers are the service requests of
  `Workforce`.
- *Department resolvers other than the flat one, resource selectors, numeric operators,
  check batching*: pure evaluation.
- *Legal publications, consent and grant lists, audit queries*: append-only or reads.
- *The front end*: views, without authoritative state.

## 7. Plan

Done: the security boundary with its proofs, consent decisions and the road to them, the
session inventory, factors and ceremonies, the whole of registration, WeChat onboarding and
notifications, recovery, applications, administrators, the DreamUp ledger, workforce,
policies, privacy, providers, and the one-time commands.

Proved: all safety of the entry side (sign-in, enrolment, onboarding, registration, recovery,
authorization), of sessions, consent and the security ledger, and, of administration, of
`AdminStepUp`, `IdentityAccess` and `MutationLedger`.

Left for later: `Workforce` (`JobsOnce`, `OwedIsPending`), `Policies` (`PublishedForward`,
`SelectedIsInstalled`), `Privacy` (`CoolingHonoured`, `DeletionForward`), `Bootstrap` (`GrantWhole`), `Applications`
and `Providers`; with them the rest of `AdminPlane` follows as `BoundToQuestion` does.

## 8. Running it

    tlc -workers 2 -config SecurityRaces.cfg MCSecurityState.tla
    tlc -workers 2 -config AdminPlane.cfg AdminPlane.tla
    tlapm ConsentDecisionProofs.tla

| Configuration | Module |
|---|---|
| `SecurityRaces`, `SecurityBoundaryRun`, `SecurityAuditGap` | `MCSecurityState` |
| `ConsentReuse`, `ConsentRevocation` | `MCConsentDecision` |
| `SessionInventory`, `SessionFalseSuccess` | `MCSessionStore` |
| `ApplicationLeak` | `MCApplications` |
| `AdminPlane` | `AdminPlane` |
| `EntryPlane`, `RegistrationStranded` | `EntryPlane` |
| `LivenessPlane` | `LivenessPlane` |

`AdminPlane` has 1.5 million distinct states; it and the other two planes take two to four
minutes on two cores, the other runs two minutes or less. To work on one component, name it
alone in `Parts`. A proof module takes one to ten minutes from nothing.

`PROJECT.json` maps the definitions to the lines of code they model. A helper whose lines the
action that uses it names, or a step of the environment that is no code (a crash, an expiry),
has mostly no entry of its own.
