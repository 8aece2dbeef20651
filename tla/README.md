# A formal model of auth-api

auth-api is an authentication service: an asynchronous Rust HTTP API over PostgreSQL (the
durable state), Redis (budgets, caches, short-lived challenges and markers) and NATS JetStream
(published events). Several instances run behind a proxy, every handler is a future that may be
dropped at an `await`, and almost everything the service promises — a refresh token works once,
a revoked session is refused, a password can be guessed only so often, an administrator always
remains — has to hold however those handlers overlap.

This directory models the stateful parts in TLA+, checks them with TLC on small instances and
proves every safety property the runs check with TLAPS for every instance. `PROJECT.json` is the index: the
components, the runs, the lines each definition models, the hazards and the findings. Paths in
this file are relative to the repository's root.

## Inventory

| Part | State | Operations | Hard because | Module |
|---|---|---|---|---|
| Sessions and rotation (`services/auth/session.rs`, `repositories/session.rs`, `migrations/0005`) | `sessions` | sign-in, refresh, replay detection, logout, bulk revocations, suspension | READ COMMITTED snapshots, row locks, retries, expiry | `Sessions` over `TokenFamilies` |
| Access-token state (`services/auth/tokens.rs`, `handlers/extractors.rs`) | Redis blocklist and validity cache, `sessions` | token check, every revocation's cache write | check-then-set, best-effort Redis, dropped handlers | `TokenState` |
| Event outbox (`services/events.rs`, `repositories/event_outbox.rs`) | `event_outbox`, an advisory lock, JetStream | enqueue in a transaction, relay, retry, sweep | at-least-once, crashes, lost locks, order | `Outbox` over `EventChannel` |
| Webhooks (`services/webhooks.rs`, `repositories/webhook.rs`) | `webhook_endpoints`, `webhook_deliveries` | dispatch, claim, post, record, administration | leases, crashes, administrators meanwhile | `Webhooks` |
| Authorization codes (`services/authorize.rs`) | `authorization_codes`, `sessions`, the connection pool | approve, redeem, replay, device poll, sweep | two transactions of one handler, session limit, pool exhaustion | `AuthCode` |
| Device flow, authorization requests, revocation by a client (`services/device.rs`, `services/oauth.rs`) | Redis entries, user codes and requests, `sessions` | initiate, preview, approve, deny, poll, claim, consent, revoke, introspect | claim before issue, two users on one request, expiring keys | `Grants` |
| Password sign-in (`services/auth/login.rs`, `utils/redis_counter.rs`) | `login_attempts`, `users`, a Redis budget | sign-in, lock, release, rehash, reset, unlock | counted before, recorded after; Redis away | `Lockout` |
| Second factor and links (`services/auth/second_factor.rs`, `services/auth/magic_link.rs`, `services/email_2fa.rs`) | Redis challenges and their index, codes, links | login, link, complete, resend, reset | several Redis commands per operation, row locks, purge | `SecondFactor` |
| Registration, reset, address change, erasure (`services/auth/register.rs`, `services/auth/password_reset.rs`, `services/email_change.rs`, `services/user.rs`) | `users`, mailed tokens, Redis flow | register, resend, verify, forgot, reset, change, four steps of a change of address, erase | several registrations of an address, a long sequence over expiring state | `Accounts` |
| Roles and administration of accounts (`services/admin/`, `cli.rs`) | `roles`, `role_permissions`, `user_roles`, `users` | assign, withdraw, set permissions, delete, suspend, force a reset, erase; command line | the last administrator under concurrency, locks taken one by one | `Administration` |
| Enrolment, passkeys registered, key rotation (`services/two_factor.rs`, `services/passkey.rs`, `services/key_rotation.rs`) | methods, recovery codes, keys, stored secrets | setup, confirm, remove, regenerate; options, register, remove; sweep and redeploy | statements committed one by one, a sweep beside live enrolments | `Enrolment` |
| Passkey sign-in, external identities, personal access tokens | Redis challenges, flows and outcomes, `passkeys`, `external_identities`, tokens | options, assertion; start, callback, complete, unlink; create, revoke | one-time state, a copied authenticator, an answer carried to another browser, a limit | `AccessItems` |
| Registered clients (`services/admin/clients.rs`, `services/oauth.rs`, `cli.rs`) | `registered_clients`, a Redis budget | save, delete, rotate and remove a secret; command line; client authentication | an administrator's change beside the command line's | `RegisteredClients` |
| Recent re-authentication (`services/reauth.rs`) | Redis markers and budgets | prove the password, use the marker, change the password, end sessions | two budgets with their own expiry, a proof that outlives its password | `Reauth` |
| Rate limiting (`middleware/rate_limit.rs`, `domain/rate_limit.rs`) | two counts per bucket and network | one script per request | window boundaries, several buckets at once | `RateLimit` |
| Audit log and retention (`repositories/audit.rs`, `services/cleanup.rs`, `migrations/`) | `audit_log` partitions, an advisory lock | append, erase, coarsen, purge, rotate, page | overlapping tasks, configured below the floor, cursors over a changing log | `AuditLog` |
| JWT, hashing, TOTP, encryption, mail, captcha, configuration, telemetry, HTTP surface, verifier crates | none | pure functions or I/O | cryptography and formats | not modelled |

How they interact. Sign-in (`Lockout`, `AccessItems`) leads to a challenge (`SecondFactor`), and both end in
`issue_tokens`, whose row is where `Sessions` begins. `AuthCode` and the device flow of `Grants` issue
sessions for a client and share its quota. Every revocation in `Sessions` is followed by the Redis writes of
`TokenState`. Almost every change records an event (`Outbox`) and its webhook deliveries
(`Webhooks`) in its own transaction. `Accounts` and `Administration` decide who an account is and what it
may do; a reset in the first purges the challenges of `SecondFactor` and forgives the failures of `Lockout`.
The modules are joined at these edges by naming what the neighbour leaves behind (a session issued,
a transaction committed, a password chosen), not by one product of all their states, which TLC
could not enumerate.

## How the models are written

- A request is a record with a program counter; one step is what a handler does between two awaits
  that another actor could see. A handler may be dropped at any such point (`Abort`, `Drop`): its
  transaction rolls back, its Redis commands already sent stay. A handler refused by a check, or whose
  call fails, ends the same way unless it leaves something behind.
- PostgreSQL runs at READ COMMITTED. An `UPDATE` takes a snapshot of the rows that match, locks
  each one, waiting for a transaction that holds it, and evaluates its condition again. Where it
  matters a statement is therefore two steps. `NOW()` is the start of the transaction. The locks of
  a connection that dies are released at once; of two transactions waiting for each other one is dropped.
- A Redis command, a Lua script or a pipeline is one step; two commands in a row are two steps
  unless nothing can come between them that matters. Redis errors are a choice where the
  code goes on after one, and an `Abort` where it does not. A Redis restarted without its data is
  not modelled. A key with a lifetime may expire at any moment unless a property depends on how long it lives.
- Time is one clock shared by the service and the database, or countdowns where only delays count.
- A token, a code, a name, an address is a model value; a signature, a hash or a code is right or
  wrong. What a request draws at random is its serial number (`RequestSteps`).
- Parts that share no state are run together, *one part at a time*: `MCEvents` (outbox, webhooks),
  `MCPeople` (owners, administrators) and `MCSurface` (nine parts) choose a part in the initial state and then
  only that part moves. The reachable states are the union of the parts', not their product, which
  would show nothing more.

### Sessions, TokenFamilies

`rows` and `session` are the `sessions` table, `status` the account's, `req` the handlers.
`SignInBegin`/`SignInCommit` are `issue_tokens`; `RefreshRead`, `RefreshUser`, `RotateLock`,
`RotateCommit` and `RefreshLost` are `refresh_token` and `rotate`, with the verdicts of
`domain/session.rs` (`refresh_verdict`, the retry grace, the capped expiry, the address binding);
`FamilySnapshot`/`FamilyApply` are `revoke_session_family`; `Revoke…` are logout, sign out
everywhere, password change, suspension and removal of a client. A family is named after its first
session; the clock a refresh reads and its `BEGIN` are the same instant. Refusals that touch no
row (the address budget, unknown tokens, the refresh blocklist) do not begin. `TokenFamilies` is what
rotation promises: one credential per family, exchanged once for a new one, never revived.

### TokenState

One access token per session. `CheckRead`, `CheckDb`, `CheckSet` are the three awaits of
`token_state`; the handler of each kind commits its row and then writes Redis, or fails to.
Kinds: `logout` (blocklist and cache), `single`, `listed` (sessions listed before the transaction),
`returning` (sessions returned by the `UPDATE`), `rotate`. `MaxCheck` is the longest time between
a check's read and its `SET`, which the request timeout bounds.

### Outbox, EventChannel, Webhooks

In `Outbox` `tx` are transactions that enqueue events, `row` and `seq` are `event_outbox`, `lock` the
advisory lock, `relay` the instances, `stream` what JetStream stored, `orphans` publications nobody waits
for any more. Faults (timeouts, crashes, a dropped lock connection) are bounded by `MaxOutages`.
`EventChannel` is what the outbox promises, with no transaction, lock or relay in it: events are announced
in an order, told to consumers at least once and never ahead of one announced before it about the
same user, and settled only once they were told. In `Webhooks`
`Dispatch` covers claim, post and record of `services/webhooks.rs`; administrators create, update,
move, rotate the secret, delete and redeliver, each in the steps their handler takes. A secret is known to
the host it was made for.

### AuthCode

One user; a session stands for its family. `Redeem…` are `redeem` with its outer transaction and the
second connection `issue_tokens` needs, `Replay…` are `revoke_on_replay`, `Device…` a poll that
competes for the client's quota, `PoolTimeout` the five seconds after which acquiring a connection
fails. A code is swept only when no request still works on it (the code keeps it an hour).

### Grants

`device` and `uc` are the Redis entry of a device flow and the reservation of its user code,
`request` the authorization request behind the consent page, `session` what a client got.
`DeviceAuthorization`, `Reserve`, `Initiate` start a flow; `Describe…`, `Verify…`, `UpdateStatus…` are
the user's side with the compare-and-set that records a decision; `DeviceGrant`, `Poll…` the
device's, where `PollClaim` deletes the entry before `PollIssue` opens the session; `LoadRequest`,
`ClaimRequest`, `TakeRequest`, `AnswerRequest` decide an authorization request; `RefreshRotate` and `RevokeRow`
race for a refresh token. Permissions a user holds change meanwhile (`ChangeHeld`).

### Lockout

One active account, one day, so that no recorded failure ages out of the consecutive count. The
budgets by address, of the same shape and three times as wide, are left out, and the transaction of
a successful sign-in is one instant. `LoginGate` to `LoginProven` are `login`; `Rehash` is
the background task; `Change…` are a reset, a change and an unlock by an administrator; `LockEnds`,
`BudgetExpires` and `FailureAges` are the passing of time. `guesses`, `returned`, `answered`
and `chosen` are history variables.

### SecondFactor

One active account that keeps its method. `Login…` and `Link…` prove a first factor and open a
challenge (store, count, pop, drop, index, each a Redis command), `Complete…` are the completions,
`Send…` mails a code, `Reset…` and `Purge…` a password reset. `LinkDeadlock` is PostgreSQL
choosing a victim of two links consumed at once. The Redis fast path against a TOTP code used
before is left out, since it refuses only what the table refuses too; the deletion of a challenge
and of its index entry after a completion are one step.

### Accounts

`user` are the rows, `link` the mailed verification and reset tokens, `flow` and `active` the Redis state of
a change of address. `Register…`, `ResendVerification`, `VerifyCommit` and `Adopt` are registration and the
adoption of the credentials behind the link that was followed; `Forgot`/`Reset…` the reset with its purge;
`StartEmailChange` to `ConfirmCommit` the four requests of `domain/email_change.rs`, each
reading the flow it then replaces; `PurgeUnverified` the sweep. `chosen` and `proven` record what the person
who reads a mailbox did.

### Administration

`db` is the committed state of roles, permissions, accounts, factors and sessions; a transaction
takes its locks one by one (`Acquire`), computes what it would write over what it sees, checks
`keep_an_administrator` under its advisory lock and `KeepsASecondFactor` under the account's row, and commits. The
command line's `GrantRole` takes fewer locks. `hurried` and `late` name the two exceptions the properties
make, both listed under *Also seen*.

### Enrolment, AccessItems, RegisteredClients, Reauth, over RequestSteps

`Enrolment` follows one account: setup, the statements of a confirmation committed one after the other
(`CheckSetupCode`, `MarkVerified`, `FindPrimary`, `SetPrimary`, `CreateRecoveryCodes`), the transaction of a
removal with its promotion, passkeys, and `RotateTotpEncryptionKey`, which reads a batch and rewrites each
secret by compare-and-set while instances are redeployed key by key (`Redeploy`). `AccessItems` are
three parts: passkey sign-in with the signature counter, the round trip to an identity provider bound
to a browser, personal access tokens counted under an advisory lock. `RegisteredClients` are the
administrators' transactions on a client beside the command line. `Reauth` reserves an attempt on the
session's budget and then the account's, checks the hash against the row read before, and marks the session.

### RateLimit, AuditLog

`RateLimit` is the script: two fixed windows per bucket, the estimate, the check of every bucket
before any is counted, the seconds a refused client is told to wait, the key an address gives (IPv6 by
network). `AuditLog` has the partitions, the floor the database enforces, the retention task of
each instance under its lock and in batches, the trigger that only lets an entry be narrowed, erasure and
keyset pages.

## Runs

| Run | Asks | Bounds | States |
|---|---|---|---|
| `sessions_safety` | Is a family one chain with one live end, never revived, never past its lifetime? Does `Sessions` implement `TokenFamilies`? | 3 sessions, 2 handlers, 2 instants, 1 client | 308 thousand |
| `sessions_devices` | Is a retry by the device that rotated forgiven? | 3 origins, 2 sessions, strict binding | 296 thousand |
| `sessions_replay` | *violation*: a compromised family is dead | 3 sessions, 2 devices | 246 thousand (until violated) |
| `token_state` | How late can a revoked token be accepted? | 1 session, 2 checks, 1 revocation of any kind, 6 instants | 1.1 million |
| `events` | Is everything committed published, in each user's order, and nothing else? Does `Outbox` implement `EventChannel`? Does every delivery end, posted by one dispatcher at a time, under a secret of its own host? | 2 changes of a user, 2 relays, 2 outages; 1 delivery, 2 dispatchers, 2 crashes, 2 administrators | 373 thousand |
| `auth_code` | One answer per code, replay ends its session, the quota holds, everyone finishes | 1 code, 2 handlers, pools of 2 and 3 | 125 thousand |
| `lockout` | How many passwords can be tried? Does the budget end? Is the password the last one chosen? | 2 requests at once, 4 sign-ins, 1 change, 1 pause | 1.6 million |
| `second_factor` | Does a challenge, a code, a link sign in once? Is the code being typed kept? | 2 requests at once, 4 in all, 1 reset, 1 drop | 709 thousand |
| `people` | Are password and address those of whoever proved the mailbox? Does an administrator, with a second factor, remain? Does a suspension sign out? | 2 requests at once, 5 in all, 3 links, 2 flows; 2 transactions at once, 3 in all, 3 roles, 2 members | 393 thousand |
| `grants` | Is a session what one user approved, once? Is a decision final, a revocation too? | 2 users, 2 device flows, 1 request, 1 earlier session, 2 requests at once, 4 in all | 1.4 million |
| `surface` | The eleven questions of the nine remaining parts, below | 2 requests at once, 3 or 4 in all; 13 ticks over windows of 4; 3 months, 3 entries | 0.8 million |
| `rate_wait` | *violation*: a client that waits as told finds a slot | the rate limiter alone | 639 (until violated) |

Why the bounds are enough. Every hazard listed is a race of two actors around one row, key or code,
at most with a third event (an expiry, a crash, a reset). Two concurrent handlers therefore reach
each of them, and a third session, attempt or request shows what the loser of the race does next.
A chain of three sessions is a rotation, the rotation after it, and a replay of either. Countdowns
of one and two instants tell "within", "at" and "after" a limit apart. `lockout` uses a threshold and
a limit of two with four attempts, so that both are reached and passed; `second_factor` allows one
failure per challenge and two per account, so that either may be the one that refuses. In
`token_state` a check is shorter than the cache lifetime (`MaxCheck < CacheTtl`), as a request
normally is; the theorem on staleness makes no such assumption, and what a marker promises is stated
under it. `people` has as many requests as the four steps of
an address change and one more to disturb them, and as many transactions as two administrators
removing each other and one after them. The three months of `surface` are the floor and one
beyond it, its windows three, so that a count is this window's, the earlier one's and forgotten.

What the passing runs show, in words:

- *Sessions.* Of two refreshes of a token one rotates and the other is told so; the loser
  condemns the family only when the token really was spent and not merely retried by its device.
- *TokenState.* After a revocation commits, a token is accepted for at most the cache lifetime plus
  the time a check takes, even when every Redis write fails; after a logout answered with its
  blocklist entry written it is refused at once; after an answered revocation that reached Redis the
  cache does not say "active" again for a session it ended and marked.
- *Outbox.* A publication that times out, is stored late, or is repeated by another instance never
  overtakes an earlier event of the user, and nothing is marked published that is not stored.
- *Webhooks.* A lease longer than an attempt keeps two dispatchers apart, and a claim that crashed
  costs no attempt.
- *AuthCode.* The window between the session's commit and the code's is closed by the row lock a
  replay waits for; the advisory lock makes the quota exact; requests that hold one connection
  and want another end by the pool's timeout.
- *Grants.* Removing the entry, not reading it, decides which of two polls gets the session, and the
  session carries what its approver held at the approval. A request is shown to and decided by one user.
- *Lockout.* Reserving before the hash bounds the guesses that concurrent sign-ins can make; at
  most the attempts given back to a younger key are added. A release after a reset never leaves a
  key without an expiry for longer than the next attempt.
- *SecondFactor.* Taking the challenge, not verifying the code, decides which of two completions signs
  in; a mailbox's owner is never left without the code they are typing.
- *Accounts.* An account is activated with the password of the registration whose link was followed, whatever
  other registrations of the address do; no order of overlapping steps skips the code sent to the former
  address.
- *Administration.* `keep_an_administrator` holds against two administrators who remove, suspend or
  erase each other at once, because its lock is taken before it looks and held to the commit.
- *Enrolment.* Retiring the former key after a clean rotation loses no secret, not even one enrolled
  beside it; removing a method promotes the other, so a confirmed method is always asked for.
- *AccessItems, RegisteredClients.* Of two assertions with one challenge, or with one count by an
  authenticator and its copy, one signs in; an external sign-in ends in the browser that began it;
  the limit on tokens is exact; an administrator's request never overwrites a client made primary since it
  was looked at.
- *Reauth.* A thief guessing in a stolen session uses less than two of the account's three shares; a proof of
  a former password opens nothing after the change, but in the session that made it.
- *RateLimit.* In any minute fewer than twice the limit pass, and a request refused by one bucket costs the
  others nothing.
- *AuditLog.* A retention configured below the floor, by one of several instances, deletes nothing the floor
  protects; an erased account is named nowhere; a reader of all pages misses nothing that was there.

### Fairness

Two runs check liveness. In `auth_code` a handler that can take a step takes it (`WF` on its steps): tokio
polls a ready future, and nothing in the code waits for another request except through the database
or the pool. Waiting for a row or advisory lock is strongly fair (`SF`): PostgreSQL queues the waiters, so one
that is free again and again is granted. In `events` relays and dispatchers poll on a timer (`WF`), time
passes (`WF` on its step), and faults stop after their bound, without which nothing could be promised. Nothing is
fair about users: sign-ins, refreshes, polls, resets and administrators may never come. Deadlock
checking is off because every model may stop once its bound is used up; what must not stop is stated as
a liveness property (`RequestsFinish`, `CommittedIsPublished`, `DeliveriesEnd`).

Each property of a passing run has a mutant in `PROJECT.json`: a plausible bug in one definition (a
dropped lock, a late reservation, a missing recheck) that makes TLC report it violated.

## Findings

Two runs show the code departing from what its documentation or comments say.

1. `sessions_replay` — a rotation that commits while `revoke_session_family` waits for its row inserts
   a successor that the statement's snapshot does not hold: the family is marked compromised and one
   of its sessions lives on (`migrations/0005_sessions.sql:109`, against
   `docs/dev/security-model.md:135`).
2. `rate_wait` — when a window is full of its own requests the client is told to wait until it turns; at
   that instant the full count weighs whole as the earlier window's and the client is refused again
   (`src/middleware/rate_limit.rs:56`, against `src/domain/rate_limit.rs:32`).

Also seen while modelling. Those a model reaches are excluded by name from the property they would
break; the others follow from reading the lines quoted.

- `revoke_all`, `change_password` and `reset_password` list the sessions to mark before the transaction that
  revokes them, so one opened in between keeps its cached "active" (`src/services/session.rs:110`, against
  `docs/dev/security-model.md:132`); `BoundedStaleness` covers the result.
- A change that locks no row of its user may take the lower sequence number and commit after a later one
  was published (`src/services/session.rs:138`, against `src/services/events.rs:14`); `Locking` names the changes
  that do lock one.
- A challenge is stored before it is indexed, and a reset that reads the index in between leaves it
  open (`src/services/auth/login.rs:373`, against `src/services/user.rs:271`). In the same way an address
  change started before a reset may survive it (`src/services/auth/password_reset.rs:244`).
- A sign-in or rotation that read the account as active commits after a suspension's snapshot and
  leaves a live session on a suspended account until its next refresh (`src/services/admin/users.rs:61`,
  `:87`; `late` in `Administration`).
- `CHECK sessions_revoked_after_creation` makes a suspension fail as a whole when it meets a session
  created after its own `BEGIN`, which the comment at `src/services/admin/users.rs:85` expects
  it to revoke.
- The "ended" marker lives five seconds and a request may last thirty, so a slow check can still write
  a stale "active" after it (`src/services/auth/tokens.rs:419`).
- A delivery queued again can be given up by the last failing attempt of its former budget
  (`src/repositories/webhook.rs:280`); two administrators moving an endpoint at once can leave it
  with a secret its former host knows (`src/services/webhooks.rs:351`, `crossed` in `Webhooks`); an error recording
  one delivery drops the other attempts of the round (`src/services/webhooks.rs:85`).
- A failure counted to the threshold before a password reset locks the new password after it
  (`src/services/auth/login.rs:236`), although `src/services/user.rs:226` says the new one is not locked by
  the guesses at the old one.
- An event repeated after JetStream's deduplication window is stored twice: delivery is at least once, and
  the code promises no more (`src/services/events.rs:54`).
- Concurrent sign-ins may leave more challenges open than `MAX_OPEN_CHALLENGES`
  (`src/services/auth/login.rs:386`), and concurrent sends three live mailed codes where two are meant
  (`src/repositories/email_2fa.rs:110`).
- A method confirmed while the primary one is removed, or a confirmation dropped between its statements,
  leaves a confirmed method that is not primary and that no sign-in asks for
  (`src/services/two_factor.rs:238`, `overlooked` and `cut` in `Enrolment`). `MAX_PASSKEYS` is looked at when
  options are asked for, not when a key is stored.
- The command line looks at a role without its lock: an account given a role that is extended meanwhile
  may hold administration with no second factor (`src/cli.rs:181`, `hurried` in `Administration`).
- An administrator saving a client that did not exist when it was looked at can overwrite one the
  command line made primary meanwhile (`src/services/admin/clients.rs:61`).
- A user code is reserved before its entry and expires first (`src/services/device.rs:9`); a code reused then
  names two entries. A revocation racing a refresh answers success and ends nothing when the refresh wins
  (`src/services/oauth.rs:1244`).
- One stolen session can add up to one less than twice `LOCKOUT_THRESHOLD` failures to the account's budget
  within one of its windows, where the comment at `src/services/user.rs:78` says once; the ceiling is three times.
- `reserve_username` stores nothing while an expired reservation of the name is not yet swept
  (`src/repositories/user.rs:421`), so a name asked for again is answered differently on a registered
  address than on a free one (`src/services/auth/register.rs:67`).
- The rate limiter reads each instance's own clock; the model has one.

## Proofs

Of the forty properties the passing runs check, thirty-seven are theorems: all but the three that are liveness. They hold for every value
of the constants that satisfies the named `ASSUME` of the modules: any number of sessions, users, handlers,
relays, administrators, instants and requests. The assumptions say what the code or the
database fixes (limits are numbers, `None` is nobody's name, the budget key of an account is not a
session's, the kinds of code have no code in common); the three that say more are named where they are used. A part run together with others is proved on its
own specification (`OutboxSpec`, `WebhooksSpec`, `LockoutSpec`, `AdministrationSpec`, `AccountsSpec`,
`EnrolmentSpec`, `AccessSpec`, `ClientsSpec`, `ReauthSpec`, `RateSpec`, `AuditSpec`): its
initial states and its own steps, which is what the part does in the run.

Hardly any of the properties is inductive as it stands: a handler that has read something and not yet acted on
it could do anything. The strengthening says in each case what a handler between two steps still knows, and
which lock, removal or comparison makes that true.

**Sessions** (`SessionsProofs`)

- `TypeCorrect`: `TypeOK` includes `RequestOK`, that what a handler remembers while it waits (the row it
  read, the id it reserved) is still there.
- `OneLiveSession`, `SpentTokensCondemn`: two rotations of one row could both be about to insert. `IInv` adds
  `ReservedIds` (no two handlers insert the same id, and none that exists) and `LockHolders` (a handler
  past `RotateLock` holds its row alone, and the row is live). A rotation then ends the only live row
  of its family in the step that inserts the next, and a revocation can only wait for it.
- `DeadFamily`, an action property, which no run checks on its own since `TokenFamilies` promises as much. Only a sign-in and a rotation insert rows (`OtherStepsOnlyEnd`); the
  first opens a family of its own, the second holds a live row of the family, which is therefore not dead.
- `Implementation`: the refinement of `TokenFamilies` under `issued <- rows`, `holder <- Holder`. The
  holder of a family is its live session (`HolderOf`); a sign-in maps to `Open`, a rotation to `Exchange`,
  every other step to `End` of the families it leaves without one, possibly none.
- `Chain`: `ChainInv` adds that what a refresh carries from the row it read is still that row's
  (`Carried`), and that every row names the first of its family.
- `Forgiven`: what justified a condemnation cannot be undone, since the spent row has no rotation ahead
  and its successor keeps its origin (`JustifiedInv`). Its hypothesis `~ReadErrors` is needed: a failed
  read of the successor is taken for a replay.

**Access-token state** (`TokenStateProofs`)

- `StalenessBounded`: `CacheBounded` (an entry expires at most `CacheTtl` from now and `CacheTtl + MaxCheck`
  after its session ended) and `ReadBounded` (a check about to write "active" read the row before the session
  ended). No step of a revocation is needed: the bound holds even if no marker is ever written, which is why
  Redis may fail.
- `RevocationSeen`: a marker outlasts every check that read its session as active (`MarkersKept`), if checks
  are shorter than its life, as the property says; an entry of the blocklist lives as long as its
  token (`BlocklistKept`).

**Outbox and webhooks** (`EventsProofs`)

- `StreamFaithful`: what a relay has in hand (`RelayInv`), and what nobody waits for any more (`OrphanInv`),
  is committed, and everything of the user that was numbered before it is stored already or in the same batch. Numbers
  taken under the user's row lock are in the order of the commits (`NumberInv`). The proof uses the
  relays' advisory lock nowhere: two relays at once may repeat an event, never disorder the first copies.
- `OutboxIsAChannel`: the refinement of `EventChannel`. A commit maps to `Announce` of the transaction's events, in the order of
  their numbers, which are distinct (`DistinctInv`), and behind everything announced of the user: an event numbered before a
  committed one of another locking transaction is decided by then (`NumberInv`). A publication stored maps to `Tell`, of an event whose
  predecessors were told, whoever sent it and however late (`RelayInv`, `OrphanInv`); a copy is a stutter; `mark_published` maps to
  `Settle`, the sweep and everything else to nothing.
- `SecretOfHost`: an update knows the host its endpoint has until it writes, unless the row was moved since.
- `LeaseKeepsApart`: a leased delivery has as long to wait as its attempt has left, so its row still says what
  the attempt read and no other dispatcher can claim it. Hypothesis `AttemptTime < Lease`: by
  default five seconds against `LEASE`, three hundred (`WEBHOOK_TIMEOUT_MS` is not checked against it).

**Authorization codes** (`AuthCodeProofs`)

- `TypeCorrect`, `OneDelivery`, `ReplayEnds`, `LimitHeld`. The row lock of a code makes its redemptions take turns
  and keeps it unconsumed until the holder commits (`CodeInv`); a session not yet attached is its
  handler's alone (`IssueInv`); what was delivered is the session the code names, a refused code names none (`DeliverInv`),
  so that a replay, which comes after, revokes the right one (`ReplayInv`). Between the count and the session it allowed
  the advisory lock lets nobody else count (`LockInv`).

**Password sign-in** (`LockoutProofs`)

- `BoundedGuesses`: the property counts what has been answered; the invariant counts what may still be. The budget
  covers the guesses made and those pending on the same key (`BudgetInv`); below the threshold every
  answer was counted, and past it only attempts that had read the row before are left (`LockInv`).
- `LastChosen`: by the comparison with the hash that was verified.

**Second factor** (`LockoutProofs`)

- `OneSignIn`: two completions of one challenge may both have found their code right, and one code may be presented
  for two challenges. `FactorInv` says what decides between them: a challenge somebody took is gone and its taker alone
  has it (`ChallengesInv`); a code found right has ended, which for a mailed one includes that no mailing under way
  will store its number again, and one request holds it (`CodesInv`, `NumbersInv`); a link is consumed under the lock of its row, and
  one that died with another stays dead (`LinksInv`). That wrong codes stay within the budget is not inductive: the
  invariant counts the attempts reserved and not yet judged with them (`FailsInv`).
- `LatestCodeStays`, an action property: what a mailing is about to delete it read before the latest code was
  stored, or beside a later one (`MailsInv`).

**Roles and administration** (`AdministrationProofs`)

- `AdministratorStays`, `AdministratorsProtected`, `SuspendedOut`. `Protected` says of each transaction what it looked at
  under the locks it holds, as true now as when it looked: the state a guarded one would leave still
  has an administrator, the account it grants still has a second factor. `Leaves` says what the commit of another
  transaction cannot change of what is locked; locks are exclusive. One lemma per operation (`PermissionsSet`,
  `Unassigned`, `Suspended`, …) says what it does to who holds what.

**Accounts** (`AdministrationProofs`)

- `AccountsAreTheirOwners`: a request reads an account and a link and writes later, under no lock. `AccountsInv` says
  what makes that sound. A link of an account still pending was sent to its address (`LinkOK`), and whoever is
  about to mail one has that address; a verification that has checked a password checked the one the account, if it is still
  pending, will be given (`RequestOK`). Both survive because rows only move on (none, pending, active, gone), a pending
  one keeps address and password, and a link keeps what it was made with (`Onward`, `Keeps`). The code of a new address was
  sent to that address, in the flow and in what a request read of it (`FlowOK`).
- `BothMailboxes`, an action property: a flow past its first step is confirmed (`FlowOK`), what the last request loaded
  is such a flow, and no other step writes the address of an account that stays (`WritesRows`, `SameEmail`).

**Device flow and authorization requests** (`GrantsProofs`)

- `SessionApproved`, `FinalDecision`, `RevocationEnds`. A poll that read an approval read one that was answered, with
  scopes its author held; of the polls that read it one removed the entry, and no session exists before it
  opens one (`ClaimInv`). A request is its first viewer's, and the one that takes it finds nothing answered (`ViewInv`). A user code
  is its flow's until it outlives it (`SetUpInv`). Every refresh token but the latest has ended (`TokenInv`).

**The smaller parts** (`SurfaceProofs`)

- `RoomForTheOwner`: the two budgets begin and end at different times, so the bound on what one
  session adds depends on which of the two ends first (`RoomInv`): one that ends before the account's began before
  it, hence one attempt at least was not added.
- `ProofsAreCurrent`: a request that is proving the password, like a marker, has the hash of now or belongs to the
  session that chose it (`ProofInv`).
- `PrimaryKept`: a transaction that holds a client's row looked at it under the lock, and found it not
  primary (`LockedInv`).
- `TheTrailIsKept`: every entry has an origin, what it was when written, of which only name and address may have
  been narrowed, and every origin within the floor still has its entry (`TrailInv`); partitions are there for
  every month until the next rotation (`AheadInv`, from the assumption `MaxIdle <= LOOKAHEAD_MONTHS`: a rotation
  runs at least as often as partitions are made ahead, daily against months in the code).
- `PagesAreWhole`: what the first look found is on a page already read or after the cursor (`PageOK`). A page is
  the newest entries after the cursor; that a finite set of entries has a least one is the one induction it needs, done
  over the sets of `FiniteSetTheorems` (`Least`, `Minimal`).
- `FewerThanTwice`: the two counts of a bucket, integers in a hash, are compared with cardinalities of what it let
  through. The count of this window is exactly that; the count of the window before is no less than what of that window lies within
  the last minute; both are within the limit, and this window fills up only when nothing is remembered of the one
  before, since the earlier count keeps some of its weight to the last tick (`Covers`). IPv4 addresses, mapped ones and IPv6 networks
  name the same clients as their buckets do (`OneClient`).
- `OneSignInPerAssertion`, `FlowsEndWhereTheyBegan`, `TokensAreBounded`: a challenge, a flow or an outcome is in one place
  only, the store or one request (`ChallengeInv`, `OnePlaceInv`); a count recorded is not presented again
  (`CounterInv`); one creation at a time is between its count and its insert (`PatInv`).
- `SecretsOutliveTheKey`: while both keys are deployed, what is still stored under the old one is what every running
  rotation read (`RotationInv`), so a pass that rewrote nothing and failed at nothing leaves none.
- `AFactorIsAsked`: what a removal is about to delete and promote is as it found it, and a method confirmed behind
  it was confirmed by a request that has still to look for a primary one and to replace the codes (`RemovalInv`,
  `DroppedInv`); ids and batches are never reused (`IdInv`, `BatchInv`).

Only model-checked. Liveness (`CommittedIsPublished`, `DeliveriesEnd`, `RequestsFinish`): fairness and `ENABLED` are
beyond the prover. No module that is proved about uses a `RECURSIVE` operator.

## Plan

Done, in this order: sessions, access-token state, outbox, authorization codes, webhooks, password
sign-in, second factor; then device flow and authorization requests, accounts and address change,
roles and administration, enrolment and key rotation, passkeys, external identities and tokens, registered
clients, re-authentication, rate limits, audit log and retention; then the theorems above. What is left:

1. An abstract one-time ticket that codes, links, challenges and device entries implement.
2. Names and their reservations; the exchange of a personal access token; introspection of access tokens.

## Not modelled

Cryptography, encodings and formats (JWT, Argon2, AES-GCM, TOTP arithmetic, CBOR, PKCE): the models take a
signature, a hash and a code as right or wrong. Mail, captcha and breached-password lookups: calls
to other services that may succeed, fail or come late. Configuration, telemetry, routing and the wording
of answers; listings and exports, which change nothing; the verifier crates, which are stateless; the
benchmarks. Usernames, locales and other profile data. The sweeps of expired one-time tokens,
login attempts and ended sessions delete rows no action of a model looks at any more.

## Running

`tlc -config X.cfg M` for the module and configuration of a run, `tlapm M.tla` for each module `*Proofs.tla`.
Each run ends within five minutes on two cores, each proof module within ten on four.
