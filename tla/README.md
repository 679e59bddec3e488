# PMH-ID: specifications, model checking and proofs

TLA+ modules for the identity provider in `src/apps/sso-server` (NestJS, PostgreSQL,
`oidc-provider`), its single-page portal in `src/apps/portal-fe`, and what an application does with
both as `src/apps/demo-app` shows it; the configurations that check them with TLC, and proofs checked by TLAPS.
Paths below are relative to `src/apps/sso-server/src/` unless they start with `src/`.
`PROJECT.json` maps each definition to the lines it stands for.

- [1 The system](#1-the-system)
- [2 The modules](#2-the-modules)
- [3 The runs](#3-the-runs)
- [4 The proofs](#4-the-proofs)
- [5 What the checks found](#5-what-the-checks-found)
- [6 What is not modelled](#6-what-is-not-modelled)
- [7 Plan](#7-plan)

Run them in this directory: `tlc -workers 2 -config OidcRevoke.cfg MCOidcStore`,
`tlapm OidcStore_proofs.tla`.

## 1 The system

All state is in PostgreSQL, shared by every instance of the server. Nearly every operation is a
sequence of SQL statements, each its own transaction: **the statement is the unit of atomicity**,
and requests, cron jobs and other instances interleave between statements. In-process state is
small: the settings cache, the signing keys read at the start, the `running` flags of the workers.

| component | state | operations | hard because | what makes it correct |
|---|---|---|---|---|
| OIDC payload store `oidc/pg-adapter.ts` | `oidc_payloads`, `sessions` (a projection), `token_replays` | `upsert`, `find`, `consume`, `destroy`, `revokeByGrantId` | `upsert` writes back what was read several statements ago; `consume` is a race by design | one working token per code; revoked grants never work again; no session outlives its cap |
| Provider configuration `oidc/provider.factory.ts` | none | `loadExistingGrant`, `ttl.*`, `expiresWithSession`, `loadUserClaims` | decides from a stale session which grant to reuse | access gate before any grant; the cap is counted from the login |
| Session revocation `common/session-revocation.service.ts` | as above, `users.tokens_valid_from` | `revokeForUserInProjects`, `revokeSession`, `revokeOtherSessions`, `revokeAllForUser` | requests in flight hold copies of what is deleted | final, and no wider than its scope |
| Back-channel logout `common/backchannel-logout.service.ts` | none | notify each client that has a grant | before the revocation, best effort | every client of the user is told once |
| Guards `common/admin/admin.guard.ts`, `common/auth/user.guard.ts`, `common/admin/access-token.service.ts` | reads `users`, `admin_roles`, `tokens_valid_from` | check a JWT on each request | seconds against milliseconds | no token from before a revocation passes |
| Login interaction `modules/auth-oidc/interaction.controller.ts`, `login.service.ts`, `stage.service.ts` | interaction rows, signed stage tickets in a cookie | password, forced change, second factor, enrolment | the stage travels with the browser, the account changes meanwhile | nobody finishes without every step the account requires |
| Multi-factor `modules/auth-oidc/mfa.service.ts` | `mfa_totp`, `mfa_recovery` | enrol, confirm, verify, recovery codes | replay of a code, two enrolments at once | a code works once |
| Rate limiting `modules/auth-oidc/rate-limit.service.ts` | `auth_attempts` | record, wait per account, wait per address | check and record are apart | the wait grows with failures |
| Passwords `modules/users/password-reset.service.ts` and others | `password_resets`, `users.password_hash` | issue and redeem links, temporary passwords | two requests at once, revocation after the commit | a link works once; old sessions end |
| Users, administrators `modules/users/users.service.ts` | `users`, `admin_roles` | create, lock, delete, expiry, appoint | counts in one statement, writes in another | somebody can always administer the system |
| Expiry cron `modules/users/expiry.service.ts` | `users` | lock what expired, warn | acts long after the decision, on every instance at the same hour | never the break-glass account; a warning before the lock, once |
| Groups, projects `modules/groups`, `modules/projects` | `groups`, `group_members`, `project_admins` | membership, appointment, removal | access is derived from several tables | removal ends the access |
| Clients `modules/clients/clients.service.ts`, `main.ts` | `oidc_clients`, `client_secrets` | secrets with a grace period, disable | two secrets valid at once | a revoked secret stops working |
| Events `common/user-events.service.ts` | `user_events`, `webhook_deliveries` | `emit` after each change | numbers drawn before the commit; errors swallowed | followers end up with the current state |
| Directory API `modules/directory-api` | reads, `directory_hits` | lookup, list, `listEvents`, window of requests | cursor against late commits and the purge; pages against users who move | stale clients are told to resync; a full read has everybody, or a reason |
| Job queues `modules/notifications/webhook-worker.service.ts`, `email-worker.service.ts`, `email-queue.service.ts` | `webhook_deliveries`, `email_queue` | claim, deliver, retry, give up, requeue | several instances, crashes in mid batch, answers that are lost | at least once, bounded retries, nothing stuck |
| Hourly purge `modules/jobs/cleanup.service.ts` | several tables | delete what is old | runs beside everything | deletes nothing that is still needed |
| Audit log, archive `common/audit.service.ts`, `modules/jobs/audit-archive.service.ts` | `audit_log`, files | append, archive a month, delete it | file first, rows later; run twice | no row is lost |
| Settings `config/settings.service.ts` | cache per instance, `settings` | get, set, periodic reload | a reload overwrites a fresh value | instances converge; the form shows what is stored |
| Signing keys `oidc/keys.service.ts`, `scripts/rotate-key.js` | key files | add, promote, retire | instances restart at different times | living tokens verify |
| Egress filter `modules/notifications/egress.util.ts` | the allowlist, a setting | resolve a name, compare its addresses | the list is cached, names resolve differently each time | no delivery to an internal address that is not listed |
| Departments, CSV import `modules/departments`, `modules/users/csv-import.service.ts` | `departments`; users carry the name, not a key | add, rename, remove; create, import, update a user | the catalogue is read statements before the user is written | users carry departments that exist |
| Portal, tokens `src/apps/portal-fe/src/auth.ts`, `App.tsx` | `sessionStorage` of each tab, variables of the page | login, callback, refresh, calls, logout | calls fail together; tabs are duplicated; answers are lost | a refresh token is presented once; nobody is sent to log in for nothing |
| Portal, screens `src/apps/portal-fe/src/pages` | React state: choice, list, card | choose, load, act, show a secret once | answers come in any order, also for what is no longer looked at | no list under another's title; the secret that was shown is the one that works |
| Demo application `src/apps/demo-app/src/index.ts` | its own sessions | sign in, back-channel logout | a logout that arrives while a session is being made | no session outlives the one it came from |
| Heartbeat, health; database schema; seed scripts; deployment | | | | see `PROJECT.json` |

Interactions: a change of a user (users, groups, passwords) is committed, then sessions are revoked
(session revocation → payload store), then an event is emitted (events → `webhook_deliveries` → job
queue → application; events → `/v1/events` → application), then the audit row is written. A sign-in
passes the rate limit, the password, the second factor and then `loadExistingGrant`; from there on the
payload store decides. Access is derived: a user, a group, a client of a project; what takes the right
away (groups, clients) calls the revocation. The portal holds nothing but tokens and lists and finds out
by a 401 or by asking again. The hourly purge and the expiry cron touch the rows of all of them. Every
arrow is a place where a step can fail or be overtaken, and those places are the `hazards`.

## 2 The modules

| module | what it models | processes |
|---|---|---|
| `OidcStore` | payload store, the parts of the provider that use it, session revocation, purge of the store | requests `Reqs`, at any statement of `/authorize`, `/token`, logout, lock, revocation |
| `JobQueue` | the two Postgres queues and their workers | workers (instances of the server), administrators |
| `Outbox` | abstract: what a job table promises to who puts a job in; `JobQueue` implements it | - |
| `EventFeed` | emission of events and webhooks, the events API, the purge of events, an application that follows it | emitters, the purge, one polling client |
| `Settings` | run-time parameters, their caches, the egress allowlist and what it lets through | instances, writers, webhook deliveries |
| `SettingsForm` | the form of the parameters and the rows it writes | saves in flight, other administrators |
| `AuditArchive` | one month of the audit log on its way into a file | inserts, runs of the archive |
| `DirectoryPages` | a full read of the directory page by page, the window of requests | calls of one application, members who come and go |
| `AdminRoster` | lock, delete, expiry and appointment of administrators, the expiry cron | requests of administrators, the cron, time |
| `Warnings` | the expiry cron statement by statement: locks, warnings, marks | runs of the cron on several instances, administrators, time |
| `ProjectAdmins` | projects, their applications and administrators | requests |
| `GroupAccess` | groups, who may sign in where, the revocation when the right ends | requests |
| `Onboarding` | creation, import, update of users; departments | requests |
| `ClientSecrets` | secrets of a client: rotation, revocation, grace, check at `/token` | transactions, token requests |
| `BackchannelLogout` | the end of sessions as the applications learn of it | revocations, sign-ins, logout tokens in flight |
| `SignIn` | steps of a sign-in, changes of the password, the revocation that follows | requests |
| `ResetLink` | mailed links that set a password | requests, transactions |
| `Backoff` | the waits after wrong passwords | requests, seconds |
| `SecondFactor` | the second factor of one account: enrolment, verification, recovery codes, disabling | requests `Reqs` |
| `SigningKeys` | key file, rotation, instances, the offline check of a token, `tokens_valid_from` | instances, an operator, an application, time |
| `Portal` | tokens of the portal in the tabs of a browser | tabs, answers in flight |
| `Screens` | lists of the portal that follow a choice | answers in flight |
| `Handout` | secrets and codes that are shown once | answers in flight |

`MC<Module>` extends a module with the model values and symmetry sets of its configurations,
`<Module>_proofs` with theorems; those of a machine that only a host module instantiates, or extends, are in the proofs of the host. `Ranks_proofs` has the lemmas on finite sets of numbers they share. `MCServer`, `MCAdministration`, `MCAccount` and `MCStatements` put machines side by side,
by `INSTANCE`, and check them in one run: a variable `subject`, which never changes, says which machine a behaviour is about, the
others rest, so the states add up. The machines meet at narrow interfaces and are checked apart:

- `OidcStore` sees of the users only whether they are active (`LockUser`, `UnlockUser`, the gate of
  `LoadGrant`), which `AdminRoster` decides; its gate is `GroupAccess!MayUse`;
- `AdminRoster!AutoLock` is `Warnings!AutoLock`, with the administrators told apart instead of the warnings;
- `EventFeed` takes the full read after a 410 user by user, `DirectoryPages` is how that read is made;
- `Settings!Write` is a row stored by `SettingsForm!Put`;
- `EventFeed` ends where a row enters `webhook_deliveries`, which is `JobQueue!Enqueue`; the address a
  delivery may go to is `Settings!Passes`;
- a right code in `SignIn!TakeStep` is `SecondFactor!Stamp` or `UseCode`, the redemption of a link in
  `SignIn!Redeem` is the commit of `ResetLink!Redeem`; `Backoff!AskAddress` and `AskAccount` come before
  `SignIn!Validate`, and `AskAccount` alone before `SecondFactor!ReadForVerify` and `ClientSecrets!Ask`;
- `GroupAccess!Revoke` and `SignIn!RevokeAll` are, in one step, what `OidcStore` and `BackchannelLogout` do
  statement by statement; a token request that passes `ClientSecrets!Verify` is `OidcStore!Redeem`;
- the provider in `Portal` is `OidcStore` seen from outside: a code or refresh token works once;
- `Handout!Serve` of an application's secret is `ClientSecrets!Commit`.

In the modules, a definition marked `(mutation)` stands right before the one it is a wrong variant
of: it is not used by the specification. Each property has such a variant under which it fails.

### OidcStore

`oidc_payloads` is three functions: `session` (by uid), `grant`, `token` (codes and refresh tokens,
each with `root`, the code it descends from); `listed` is the projection `sessions`. Request `r` has
`pc[r]`, `copy[r]` (the session payload it read, with its own changes), `held[r]` (the token it will
write) and `aim[r]` (whom a revocation is about).

- `/authorize`: `Login` or `AuthorizeRead`; `LoadGrant` (the gate of `loadExistingGrant` and the choice
  between the remembered grant and a new one); `MintGrant`; `SaveCode`; `SaveSession` (the upsert of
  the whole payload, expiry from `ttl.Session`); `MirrorSession` (the second statement of that upsert).
- `/token`: `Redeem` (find), `Consume` (the transaction of `consume()`, which resolves also when it lost
  the race or the row is gone), `IssueRefresh`, `SlideSession`. `RedeemReplay` is the library
  finding a consumed token.
- revocation: `RevokeSession`/`UnlistSession`, `ResolveCurrent`/`RevokeOtherSessions`/
  `UnlistOtherSessions`, `LockUser` or `LogoutAll` then `RevokeAllForUser`, `RevokeForUserInProjects`,
  `LogoutMark`/`Destroy`, and `Cleanup`.
- `Abort` ends a request between any two statements: an error, or the server stops.

A delete by grant (`DeleteByGrant`) is `DELETE ... WHERE grant_id = $1`, as `consume()` and `revokeByGrantId` run it. It takes codes
and tokens and leaves the row of the grant: `provider.factory.ts:510-519` builds the grant with an account and a client only, so
`upsert` stores NULL in its `grant_id` (`oidc/pg-adapter.ts:156`). The library, when it finds a consumed token, deletes the row of the
grant by its id afterwards, in a statement of its own (`DropGrant`); an authorization may come in between. A request that loses the
race inside `consume()` deletes the tokens there are, and nothing else: the request that won and the one that lost both go on to issue.

`overtaken` records the codes with an exchange that nothing is left to notice (`Unnoticed`): `consume()` found no row, because
a delete by grant, a revocation or the purge took it since the find, and resolves all the same; or another request of the line had
consumed and was still to issue, so that what it issues comes after the delete. These are the exception in
`OneUsablePerLineage`; the first redemption of every line, and every one whose rival has finished, is within it. `OidcOrphan` shows that two
racers do keep a working token each.

### JobQueue

`webhook_deliveries` and `email_queue` are one machine (`Webhook = FALSE` drops `ConfigFail`,
`CheckThrows` and `Requeue`). The clock is abstracted to what the claim reads of it: `due`
(`next_attempt_at` reached), `stale` (`locked_at` older than five minutes); both become true in steps of
their own, so every ratio of delays is covered. `Claim` is one statement; `Pick`, the checks, `Post` and
the statement that records the outcome are separate. `Post` chooses whether the receiver took the
message and whether the answer arrived. Outcomes are recorded `WHERE id = $1` alone, with the attempts
read by the claim (`Task.tries`).

`Outcome` is what a job is to who put it in: `sending` is still waiting, and so is a dead letter that was
requeued. `OB == INSTANCE Outbox WITH state <- Outcome, arrived <- accepted` maps every step to one of
`Submit`, `Arrive`, `Confirm`, `GiveUp`, `Resend` or a stutter, where one instance works on the queue; two can
overwrite an outcome, which `QueueFinal` shows.

### AdminRoster

`user` (rows of `users`: status, deleted, and of `expires_at` whether it is absent, ahead or past) and
`ssa` (`admin_roles`). A request goes through the SELECTs of its operation (`CheckRole`, `Count`,
`Confirm`, `HasRole`, `CountRoles`) to `Write`. `seen[r]` remembers, as history, the administrators a
count saw. `Init` is what `scripts/seed-prod.js` leaves: the break-glass account, and up to two founders.

### SecondFactor

`factor` is the row of `mfa_totp` (`None`, or secret, enabled and last step; 0 stands for NULL),
`recovery` the unused rows of `mfa_recovery`. A request's `pc` names the statement it is about to run;
`held` is the code it was given, as the secret it belongs to and the step. The comparison of the code
happens where the secret is read (`ReadForConfirm`, `ReadForVerify`, `ReadForRecovery`), the write in a
later statement (`ConfirmEnrol`, `Stamp`, `UseCode`). The window of one step is left open: a code of any
step may come at any time, which includes codes on either side of now and codes that were delayed. The
two ways to enrol, self-service and the step `mfa_enroll` of a sign-in, are `AskEnrol` (the factor was
off when it was asked) followed, any time later and for a ticket more than once, by `BeginEnrol`.
`spent`, `twice`, `forgotten` and `overtaken` are history.

Left out: wrong codes, the rate limit before the check, `scripts/enroll-mfa.js`, which an operator runs
on the server and which replaces a factor without asking for a code.

### EventFeed

A change is a version number of its user. An emitter commits the change, draws `seq`
(`DrawSeq`), makes the row visible (`CommitEvent`), reads the groups (`ReadGroups`) and enqueues the
deliveries (`EnqueueDelivery`), for a client with which the user shares a group **by then**: the JOIN of
`common/user-events.service.ts:61-66` is evaluated after the change, and `removeMember` and `remove` of `groups.service.ts` have
deleted the membership before they emit. `apart` are the users who share no group with the client; a change may put one there or take him out
(`MayMove`). `Rescope` is a change that emits nothing: a group is given to the client or taken from it
(`clients.service.ts:472-498`), or renamed (`groups.service.ts:111-151`). The removal of a group is a `Change` of each of its members. `hardDelete` emits first and deletes afterwards (`EraseUser`), which takes
the user's events along by cascade and makes a later event of that user fail (`RefuseEvent`). The client
is external and does what `src/docs/integration/README.md:297-303` asks of it. Its two statements
at the server (`PollBounds`, `PollPage`) are apart, so the purge can fall in between.

What a user who is `apart` looks like to the client is a 404 (`directory.service.ts:98-131`), which is why a client that polls
does learn of it, while a receiver of webhooks does not; `HighestIdIsCurrent` is about users who are not `apart`, among them those who were and came
back.

Approximations: the purge takes the oldest events by `seq`, although the statement compares
`created_at` (equal up to the few milliseconds of an INSERT); one client, whose scope is all users;
the full read after a 410 resolves user by user; what it misses when it goes page by page is in `DirectoryPages`.

### Warnings, DirectoryPages, SettingsForm

`Warnings`: each run of the cron is the UPDATE that locks, the revocation of one user after the other, and then
for each who is about to expire the sub-select, the UPDATE that marks him, and the INSERT of the mail. `nestjs` fires the cron
on every instance, so two runs are at any of these statements at a time. A run can end anywhere (`Mishap`), and it throws where
a date became NULL between the UPDATE and the mail. `SetExpiry` and `Unlock` are administrators, `SignIn` is what opens a session again.

`DirectoryPages`: a request is two statements of the window (`COUNT`, then `INSERT`), then a page at the offset it
asks for, in the order of the codes; members leave and join between pages.

`SettingsForm`: the list the page asked for (`List`, `Loaded`), the fields (`draft`), what their rows show (`shown`), the one
flag `savingKey`, the saves in flight (`Put` at the server, then `Saved` or `Failed`), and values another administrator stores.

### SignIn, ResetLink, Backoff

A password is the number of its version. `SignIn` follows what a sign-in has shown (`Proof`: version, age,
what it owed when the password was checked, what it did since) from `Validate` through `Decide`
(`postPasswordStep`, a stage ticket) and `TakeStep` to `Finish` (the login result of the interaction) and
`Resume`, where the provider makes the session. Tickets stay in `tickets` after use: they are signed cookies, valid for five
minutes. Beside it run the ways to change a password (`SetPassword`, `SelfChange`, `AdminReset`,
`Redeem`), each followed by the revocation its handler calls, which may be cut off (`Abort`).

`ResetLink` has the statements of `issue` (`DisableOld`, `InsertLink`) and the transaction of `redeem`
(`TakeLink` holds the row lock, `Redeem` commits). `newer` remembers, as history, which links were inserted by
requests that saw an older one.

`Backoff` keeps `login_attempts` with ages. `AskAddress` and `AskAccount` are the two waits, `Record` the row written once the
answer is known, `Drop` a 429 or an error that leaves no row. The keys are called accounts: e-mail addresses (`Emails`), `mfa:<user>`, and
`client:<id>:<ip>`. All rows carry the address. `submitLogin` asks for the address, then for its key, and others may record in between;
`submitMfa` (`interaction.controller.ts:219`) and `/oidc/token` (`main.ts:111`) ask for their key alone, and still record
failures of the address. Rows are named by their places in the log. Requests that pass a wait together do not see
each other's failures, and one may set out while another is still to record, so failures need not come in batches. What
is promised is `Spaced`: between a failure and the one as many further on as there are requests lies the delay for the
failures there were with the first; and `Few`: once the delay is as long as the window, as many again are all. By the
defaults of the settings (5, 900 s, a quarter of an hour) that is, at one account within a quarter of an hour, 14 and as many
as can be in flight. For the address the bound is on wrong passwords, whose wait counts all failures of the address; there is none on the wrong
codes and client secrets of an address, which is what `Passwords` in `GuessesBounded` says.

### SigningKeys

`file.keys` in order, the first one signs. `rotate-key add`, `promote`, `retire`, `emergency`; `loaded[i]` is what instance
`i` read when it started; an application keeps the JWKS up to `MaxAge`. The token that is looked at has a key and an
age, the last revocation an age; the clock counts half seconds, since `iat` is cut off and `tokens_valid_from`
rounded. `shown` and `silent` remember since when a key has been known to all, or been used by none:
`rushed` is set when an operator goes on before the waits the procedure asks for.

### Settings, AuditArchive

`Settings`: a reload is `Select` and `Replace`, a `set()` is `Write` and `InPlace`; boot is the first reload, then `Seed` where
the environment has the list; `Restart`, `ReloadFails`. `recent[i]` is what the row has been since the SELECT
the cache of `i` is from. `SetWebhook` and `Deliver` check the addresses of a name, which may be other ones each
time, against the cache of their instance and connect to one of them.

`AuditArchive`: `Record`/`InsertEnds` (an INSERT has a beginning, which is `created_at`, and a commit), and a run:
`List`, `Open` (empties the file), `ReadBatch`, `Close`, `Delete`, with `Abort` anywhere. Nothing keeps runs apart.

### ProjectAdmins, GroupAccess, Onboarding

One action per statement, with the checks and the foreign keys the statement meets. `ProjectAdmins`: the two
rows of an appointment, the removal of a project and of a person, applications, the cascade. `GroupAccess`: members,
groups, groups of a client, the flag for all; `RemoveMember` and `DeleteGroup` are followed by `Revoke` in
the scope of the caller; `Gate` and `SignIn` are apart. `Onboarding`: `create`, import of a file, `update`,
deletion and return of a user, the catalogue of departments, and the transaction of a rename.

### ClientSecrets, BackchannelLogout

`ClientSecrets` has the transaction of a rotation as READ COMMITTED runs it: `Look` (the rows the UPDATE saw),
`Take` (after waiting for those another transaction holds), `Commit` (the INSERT); and the token request from `Ask` over
`Verify`, in the middleware, to `Grant`. `BackchannelLogout` has the steps of `revokeAllForUser` (`List`, `Find`, `Post`,
`Delete`), in which each read may fail, and an application with sessions of its own, in which a login may be
under way (`Exchange`, `StoreSession`) while the logout token arrives.

### Portal, Screens, Handout

`Portal`: `sessionStorage` of each tab (`store`), the variables of its page (`page`, `asked`), calls and token requests in flight.
A 401 clears the tokens and goes to log in, and so do a refused refresh and a callback with an unknown state.
`Duplicate` copies the storage, `TokenLost` loses an answer that the provider may have acted on.

`Screens`: the ten lists differ in what happens to the old list, when a choice is made and when an action
ends; that is one record each. Answers arrive in any order.

`Handout`: the flags that hold buttons back (`held`), the card that shows what an answer brought, and the
credential the server accepts (`inForce`) against the one the person took note of (`noted`).

## 3 The runs

| run | instance | properties | question |
|---|---|---|---|
| `OidcRace` (`MCStatements`) | 1 user, 2 clients, 1 session, 2 grants, 3 tokens, 2 requests: with the clock stopped, 5 ids; with a clock 0..3, `Idle` 2, `Cap` 3, 4 ids and nobody locked; 2 users with a date, 2 runs of the cron; 3 members, pages of 1, 2 calls | `AllTyped`, `KillSwitchIsFinal`, `OneUsablePerLineage`, `NothingPastCap`, `RefreshNeverRevives`, `LossHasCause`, `WarningsSound`, `PagesSound` | does any interleaving of statements leave a working token under a revoked grant, or two where somebody could have noticed; can a late write carry a session past its cap, or a refresh revive it; can one application sign a user out of another; is somebody locked without a warning, or warned twice; whom does a full read leave out? |
| `OidcOrphan` | 1 client, 3 tokens, 2 requests, clock stopped | `OrphansRefused` violated | is what a race over a code leaves behind refused at its next use? |
| `OidcRevoke` | 2 requests | `EndedStaysEnded` violated | is a revoked session gone for good? |
| `QueueSafe` | 2 rows, batches of 1, 2 attempts, 2 workers, 1 stop | `ExclusiveClaim`, `RetryBudget`, `DeliveredWasAccepted` | two instances, stale locks, lost answers |
| `QueueFinal` | 1 row, 2 workers | `DeliveredIsFinal` violated | is a delivered row ever sent again? |
| `QueueLive` (`MCServer`) | 2 rows, batches of 2, 1 worker, 2 stops; 2 instances, 2 writers; 2 fields; 3 records, batches of 2, 2 runs | `AllTyped`, `EverySettles`, `ImplementsOutbox`, `SettingsSound`, `SettingsSettle`, `NoRecordLost` | is any row stuck or starved, is the promise of the outbox kept; how old is what an instance works with, and do all agree in the end; does the form show what is stored; can an audit record be lost? |
| `RosterRace` (`MCAdministration`) | 2 founders and break-glass, 2 requests; and one small instance of each of the other seven machines | `AllTyped`, `BreakglassOperable`, `LastOperableLostToRace`, `SecretsSound`, `AppointmentWhole`, `AccessSound`, `LabelHasCause`, `AppLogoutHasCause`, `WrongListHasCause` | what do administrators who work at the same time do to each other's work? |
| `RosterRemoval` | 1 request | `RemovalLeavesOperable` violated | does a removal leave somebody operable? |
| `FactorRace` (`MCAccount`) | 2 requests; 2 secrets, 2 steps, sets of 1 recovery code, 3 codes; and one small instance of each of the other five | `AllTyped`, `CodeOnce`, `FactorOffHasCause`, `SignInEarned`, `OldSessionWasLate`, `ChangeHasProof`, `LinksSound`, `GuessesBounded`, `NoNeedlessLogin`, `VerdictHasCause` | what gets somebody into an account, and what throws him out? |
| `FactorConfirmed` | 2 requests, 2 secrets, 1 step | `EnabledWasConfirmed` violated | is the secret that is turned on the one that was confirmed? |
| `FeedSync` | 2 users and a hidden one, one of whom leaves the groups of the client and comes back, 2 emitters, pages of 1, 2 events, 1 fault | `TypeOK`, `StaleHasCause`, `HighestIdIsCurrent`, `Converges` | does a follower catch up, and if not, why? |
| `FeedGap` | 1 user and a hidden one, 3 events | `NeverEmptyAfterPurge` violated | are lost events always answered by 410? |

Several properties have the form *what goes wrong has one of these causes*: a login nobody needed, a list
under another's title, a user with a department that does not exist. The code does not exclude these
states, and the property says exactly when they come about; a history variable records each cause where
it happens. Anything else that leads there is a violation.

A property of a host module joins those of its machines that are about one thing: `AllTyped` the type invariants (and
`RecoveryBounded`), `SettingsSound` is `Settings!StaleIsRecent` and `SettingsForm!FormSound`, `AccessSound` is `GroupAccess!NoRightHasCause`
and `GroupsApart`, `SecretsSound` what concerns secrets and cards. `TypeOK` of `OidcStore` and `JobQueue` is in `AllTyped` of
`OidcRace` and `QueueLive`, and proved.

**Bounds.** Every bound is a constant with a comment. Two requests are enough for each race in the list
of hazards: each is a read of one request, a write of another, a write of the first. Three tokens are a
code and two successors issued by racing redemptions, or a code, its token and that one's; two grants are
a revoked one and its replacement, or one for each client. `MaxIds` bounds the ids handed out, sessions, grants and tokens together: five are a session, a grant, a code and the two
successors of racing exchanges; while the clock runs, four are a session, a grant, a code and its token, or the code of a later authorization. Two secrets of a factor are the replaced one and its replacement, two steps an earlier and a later
one; three recovery codes are one more than two enrolments in flight can leave
(sets of two with five codes pass too, in more time than a run should take). `MaxTime` 3 with `Idle = 2 < Cap = 3` passes the idle window and the cap.
Two attempts distinguish a retry from giving up; `MaxStops` of two reaches a stop after a recovered
stop; a batch of two makes a worker stop between the rows of its batch, a batch of one lets two workers
hold one row each. Two events with pages of one make the second page, the gap, the late commit and the purge between
them; `FeedGap` needs a third one. `Movers` is one user: the other one, who never moves, is still to be caught up with. `Fresh` hands ids out in order: ids are only compared for equality.

The machines of the host modules, where not said above:

- `SignIn`: `TicketTTL` and `InteractionTTL` 1 (an age of 0, the last valid age, and a passed one), two changes of
  the password, one ticket, result and session kept at a time (`Kept`): a new one may take the place of the old, in any order.
- `ResetLink`: two requests and three links: one that is there, and one for each request.
- `Backoff`: three accounts, two of them e-mail addresses and one that only asks for itself, thresholds 1, wait at most 3 (the delay after three failures at one
  account is then the window, and `Few` says that there are fewer than five), window 3, at most 5 rows, two requests.
- `Portal`: two tabs, two logins, one refresh and one call for each: a tab and its copy that both
  present the same token, two calls that fail together in different tabs, a call that fails beside a refresh.
- `Warnings`: two users, one of whom may be dealt with while the other is in hand; two runs, one date changed (or user
  unlocked), one mishap.
- `DirectoryPages`: three members read one by one, so that there is one before and one after any that moves; two moves, two
  calls, two requests a window.
- `SettingsForm`: a plain parameter and a secret, two saves in flight, one value stored elsewhere.
- `SigningKeys`: two instances, two keys, `TTL` and `MaxAge` 1: before, during and after a rotation.
- `Settings`: two instances, one internal and one external address, two writes, one fault.
- `AuditArchive`: three records with batches of two make a full and a short batch; two runs.
- `ClientSecrets`: three secrets, a grace of two hours; `ProjectAdmins`: one person, two projects, one application;
  `GroupAccess`: one member, one group, two clients; `Onboarding`: one person, two departments, two names.
- `BackchannelLogout`: two sessions, one application with a logout address, one revocation.
- `Screens`: two choices, two requests of a kind in flight; `Handout`: two places, three requests.

**Symmetry** is over requests or workers (`Interchangeable`), which the modules never compare other than
for equality, over the clients of `OidcStore`, in `RosterRace` over the two founders, and in `OidcRace` over runs of the cron and calls, which share the model values of the requests; never in a run with a liveness property.

**Deadlock** is checked except where a queue, a feed or one of the machines of `MCServer` stops legally: all rows are settled,
the numbers drawn have reached the bound, the month is archived.

**Fairness.** `JobQueue!FairSpec` and `MCServer!FairServer`: `Claim` and `Deliver` are weakly fair for each worker, because the
interval timer fires for ever (`webhook-worker.service.ts:69-76`) and every call has a timeout, so a tick
ends; `BecomesDue` and `LockExpires` are, because time passes. `Stop`, `MarkThrows` and the requests of
administrators are not: `EverySettles` assumes only that administrators do not requeue for ever
(`RequeuesStop`). `Settings`: `Select` and `Replace` of each instance (the timer fires for ever, statements are cut
off), `Seed` (boot goes on once it has loaded) and `InPlace` (the second step of a `set()`); nobody has to write, and
restarts and faults are bounded, not fair. `EventFeed!FairSpec`: statements of an emission end, and the client goes on polling
(documented at `src/docs/integration/README.md:297-303`); the purge, changes and faults are not fair.

## 4 The proofs

For every value of the constants, from the named assumptions of the modules only: ids are numbers and the kinds of ids
are disjoint (`FactorAssumption`, which also takes the requests in flight together to be finitely many); bounds, lifetimes,
thresholds, delays and grace periods are numbers (`AccountAssumption`, `AdministrationAssumption`, `ServerAssumption`, `StatementsAssumption`), and the
window of failures, the number of keys, of secrets and of answers in flight, the size of a batch and the rate are not 0; `None` is
none of the values it stands beside, and no null is a row (`RowsAssumption`); ids of audit records and employee codes are numbers,
because the code orders by them; internal and external addresses are disjoint; instances of the cron, codes and calls are finitely
many, because they are counted; in `AdminRoster` the sets are finite and the founders are at most two.

| theorem | says | argument |
|---|---|---|
| `OidcStore_proofs!TypeCorrect` | `Spec => []TypeOK` | `TypeInv` adds `ReqOK`: what `copy`, `held`, `aim` hold at each `pc`, without which `SaveCode` or `SaveSession` could write a null |
| `OidcStore_proofs!KillSwitch` | `Spec => []KillSwitchIsFinal` | `KillInv`: a grant once covered has no row, and no request is about to write that row. It is inductive because grant ids are minted once, a request at `mint` holds an id that has no row yet (so no revocation has covered it), and `LoadGrant` reuses only grants whose row is there. Tokens may be inserted late, but a token needs its grant's row |
| `OidcStore_proofs!AbsoluteCap` | `Spec => []NothingPastCap` | `CapInv`: each row's expiry is at most `loginTs + Cap` or already past when written |
| `OidcStore_proofs!OneSuccessor` | `Spec => []OneUsablePerLineage` | `LineageInv`: tokens of one line have one grant, and a grant belongs to the user and the client of its tokens; a code about to be saved, and a grant about to be saved, is nobody else's; of the unused rows and the requests about to issue, a line that is not `overtaken` has at most one (`OneEnd`, `Watched`). A request that passes `consume()` is alone with its line (`Alone`), because it consumed the one unused row there was or the delete took what there was, unless another is about to issue, which is `Unnoticed`. `RememberInv`: what a session or a copy of one remembers is a grant of its user for that client, which is why a revocation by user and client takes grant and tokens together |
| `OidcStore_proofs!NoRevival` | `Spec => RefreshNeverRevives` | two statements write a session, and the refresh looks at the expiry (`SessionSteps`) |
| `OidcStore_proofs!LossesHaveCauses` | `Spec => LossHasCause` | all of the above and `OriginInv`: every row and every copy of a session is of the login that opened it, so that saving or sliding it neither shortens it below now nor changes whose it is; one lemma for each way to lose a token |
| `MCServer_proofs!TypeCorrect` | `Spec => []TypeOK` | `WorkerOK`: a worker past `pick` holds a task |
| `MCServer_proofs!MutualExclusion` | `Spec => []ExclusiveClaim` | `ClaimInv`: while no lock on it went stale, a row in somebody's hands is `sending` and in one pair of hands, once |
| `MCServer_proofs!Budget` | `Spec => []RetryBudget` | `BudgetInv`: posts are fewer than attempts before the post and at most equal after it, and a row that is given back has attempts left |
| `MCServer_proofs!NothingInvented` | `Spec => []DeliveredWasAccepted` | `AcceptedInv`: a worker that read a good answer holds a job the receiver has; the receiver never gives one back |
| `MCServer_proofs!Refinement` | with one instance, `Spec => ImplementsOutbox` | `HandInv`: what the instance holds is `sending`, whatever was requeued or recovered meanwhile, so recording an outcome is `Confirm`, `GiveUp` or a stutter; one step of `Outbox` or none for each step of the queue, for any number of jobs, batches and attempts. False for two instances (`QueueFinal`) |
| `MCAdministration_proofs!TypeCorrect` | `Spec => []TypeOK` | `RequestOK`: operation and target are set while a request runs |
| `MCAdministration_proofs!EmergencyDoor` | `Spec => []BreakglassOperable` | no write reaches a row that is not `Visible`, the roles are protected by `Admissible` at the start of the request, and without an expiry date the cron never takes it |
| `MCAdministration_proofs!LastOperable` | `Spec => LastOperableLostToRace` | a count passes only with more than one, one write removes at most one |
| `MCAdministration_proofs!Ceiling` | `Spec => []SsaCeiling` | `CeilingInv`: administrators plus appointments in flight stay within 1 + the number of requests; needs finite cardinalities |
| `SecondFactor_proofs!TypeCorrect` | `Spec => []TypeOK` | a request past its comparison holds a code |
| `SecondFactor_proofs!OnlyOnce` | `Spec => []CodeOnce` | `FactorInv`: every secret ever minted is either in `forgotten` or is the current one, and then no code of it was accepted beyond `last` (`Recorded`); an accepted recovery code is not among the unused ones and its id is never minted again. Without the first part a request that holds a code of a replaced secret could not be followed |
| `SecondFactor_proofs!OffHasCause` | `Spec => FactorOffHasCause` | the same invariant: while the factor is on, whoever is about to replace the secret was overtaken |
| `SecondFactor_proofs!CodesAreBounded` | `Spec => []RecoveryBounded` | `RoomLeft`: the unused codes and those still to be inserted (pairs of a request and a number) together fit into one set for each request; an enrolment that deletes the codes makes the room it needs, an insertion moves a pair from one side to the other |
| `EventFeed_proofs!TypeCorrect` | `Spec => []TypeOK` | `PcMatches` |
| `EventFeed_proofs!NewestIsCurrent` | `Spec => []HighestIdIsCurrent` | `Succession`: each user who shares a group with the receiver is settled, or some emission is its heir: under way, with a number above every delivery there is, and still to read the groups or with the current ones read. `Parted`: whoever was deleted for good shares no group again |
| `EventFeed_proofs!CaughtUpIsCurrent` | `Spec => []StaleHasCause` | `FollowInv`: whoever is out of date in the client's view is owed something: an emission to come, an event beyond the cursor, a place on the page being worked off, or a purged event so far ahead that the next poll answers 410. That a page is an initial piece of what is left is an argument about cardinalities; the least number of a set comes from the well-foundedness of `<` on `Nat` |

**Host modules.** The machines of `MCAccount`, `MCAdministration`, `MCServer` and `MCStatements` share no variable, and `subject` never changes, so each has an
inductive invariant of its own; a lemma for each (`SignInSteps`, `ProjectSteps`, ...) says that a step of the specification is a step of
that machine or leaves it alone. The theorems hold for any number of requests, tickets, keys, people, applications and answers in flight.

| theorem | property | the inductive invariant, and what it is needed for |
|---|---|---|
| `MCAccount_proofs!SignInsAreEarned` | `SignInEarned` | `SignInInv`: a proof in a ticket, in a request at any step and in a login result names a version the account has had; what it still owes decides which step its ticket is for; and its age is bounded by the age of what carries it (one life at a change of the password, two afterwards). The property alone says nothing of the tickets results are made of |
| `MCAccount_proofs!OldSessionsWereLate` | `OldSessionWasLate` | the same, with: no revocation is newer than the password |
| `MCAccount_proofs!ChangesAreProved` | `ChangeHasProof` | the same: a request about to set a password holds a proof no older than a ticket. Every other way to another password is closed to a break-glass account |
| `MCAccount_proofs!LinksAreOnce` | `LinksSound` | `LinkInv`: a request that redeems has one live link locked, and no two the same (the row lock); a link that is not used up has set nothing; what a request saw when it disabled is used up when it inserts |
| `MCAccount_proofs!GuessesAreBounded` | `GuessesBounded` | `WaitsInv`: the log is in order of time, and after each failure the ones of its kind recorded within its delay (`Early`), together with the requests in flight while the delay still runs, are fewer than all requests (`Slots`, of the rows that are bounded and of those that are counted for their delay, which for an address are more). In flight for a key are those that passed its own wait (`Cleared`), for the address those that passed the address (`InFlight`). A request that passes finds every delay over, one that records moves from the requests in flight to the log, and a second that passes can only shorten the delay of a row, since rows before it left the window. Delays grow with the failures: 2^n counts the parts of a set of n |
| `MCAccount_proofs!LoginsAreNeeded` | `NoNeedlessLogin` | `PortalInv`: of a lineage that was neither forked by a copied tab nor hit by a lost answer, one tab holds everything (`OneHolder`) and what it holds or is asking with is the newest token (`Newest`); a tab on its way knows the state it went for, or a 401 wiped it; answers in flight belong to the page that asked |
| `MCAccount_proofs!VerdictsHaveCauses` | `VerdictHasCause` | `KeysInv`: while no step of the rotation was rushed, the first key of the file, and the one each running instance signs with, are in the application's JWKS, in the file and in every running instance (`Public`), and a key is retired only after no token of it lives. `MarksInv` ties what the operator waits for to what the instances have loaded. Needs: a key is in the file once, and taking one out leaves the order |
| `MCAccount_proofs!AccountTypes` | `AllTyped` | all of these and `RoomLeft` |
| `MCAdministration_proofs!AccessIsSound` | `AccessSound` | `GroupInv`: a request that adds a group to a client within its scope has found no client outside that scope with the group, or the group is recorded as shared. Steps that only add rows keep every right (`RightsGrow`) |
| `MCAdministration_proofs!AppointmentsAreWhole` | `AppointmentWhole` | `ProjectInv`: about somebody who is not `mixed` at most one request is under way, and `Midway` says which of the two rows it has written |
| `MCAdministration_proofs!LabelsHaveCauses` | `LabelHasCause` | `UsersInv`: unless crossed, a writer of the catalogue is alone, and `Knows` says what it has found at each step: nobody carries the name it removes, the users a rename has seen are all that carry it |
| `MCAdministration_proofs!AppLogoutsHaveCauses` | `AppLogoutHasCause` | `LogoutInv`: a login under way or a session of an application, by pairs: the sign-on session lists the application while it lives, a revocation that is past its reads has seen both, and once the session is gone the application was told, or will be |
| `MCAdministration_proofs!WrongListsHaveCauses` | `WrongListHasCause` | `ScreenInv`: a choice opened while nothing was in flight is the only one anything is asked for until it is closed |
| `MCAdministration_proofs!SecretsAreSound` | `SecretsSound` | `SecretsInv`: a rotation that inserts holds the rows it looked at, one such at a time unless overlapped; what was dead when a request came in stays dead. `HandoutInv`: a lone request is the only one that can move the credential, and an undisturbed card shows the one in force |
| `MCAdministration_proofs!AdministrationTypes` | `AllTyped` | the types of the eight |
| `MCServer_proofs!SettingsAreSound` | `SettingsSound` | `SettingsInv`: a row on its way, read by a reload or written by a `set()`, is one the table has had since the SELECT the cache is from; whoever puts an older one back was `overtaken`; an instance that has loaded has its environment in the table. `FormInv`: a row of the form with no save in flight is what is stored, one with a save is what that save will make of it once it is served |
| `MCServer_proofs!RecordsAreNeverLost` | `NoRecordLost` | `ArchiveInv`: while runs have not crossed there is one at most, and what it has got is every record of the month up to `last`, so that a short batch means there is nothing beyond. A batch is an initial piece of what is left, `FirstOf` in `Ranks_proofs` |
| `MCServer_proofs!ServerTypes` | `AllTyped` | the types of the four |
| `MCStatements_proofs!WarningsAreRight` | `WarningsSound` | `WarningsInv`: unless two runs took him before either marked him (`doubled`), one run at most has a user in hand, who has then had no mail; whoever is marked for a date he still has was mailed, is in hand, or a run stopped with him; likewise for the sessions of whoever is locked |
| `MCStatements_proofs!PagesAreRight` | `PagesSound` | `ReadSound`: whoever was in the scope all along ranks at or above the offset or has been told of, unless somebody before him left, which is what moves ranks down, and the other way for those who joined; one page at a time. `WindowInv`: calls inside the window and calls let through but not yet inserted together are fewer than the rate and the calls, since each found room for itself. Ranks are cardinalities of what is below |
| `MCStatements_proofs!StatementsTypes` | `AllTyped` | the types of the three |

Only model-checked, and why:

- `EverySettles`, `SettingsSettle` and `Converges`: the prover does neither `ENABLED` nor liveness under fairness.

## 5 What the checks found

The six runs that end in a violation, each with its source line under `findings`:

1. `OidcRevoke`: an `/authorize` request that had read a session before it was revoked writes it back.
   The grant stays dead (`KillSwitch`), the session cookie lives. With several statements before the
   upsert (`pg-adapter.ts:139-162` is an upsert, not an update) the window is the whole request.
2. `QueueFinal`: a worker whose lock went stale overwrites `delivered` by `pending`.
3. `RosterRemoval`: `revokeSsa` counts administrators who are locked or deleted.
4. `FactorConfirmed`: a confirmation enables the row by user alone. If another enrolment replaced the secret
   between the SELECT and the UPDATE, the factor is on with a secret no code was ever right for.
5. `FeedGap`: when the purge has emptied `user_events`, a client that missed events gets an empty 200.
6. `OidcOrphan`: two requests race over a code. The one that loses inside `consume()` deletes what carries the grant's id before either has
   issued, both go on, and both new tokens work. The comment at `pg-adapter.ts:260-262` knows that a token may survive there and counts on the
   provider to refuse it at its next use as an orphan; but the grant is still there, since its row has no `grant_id`, so it is none.

Divergences seen while modelling that have no run, because a property of a passing run, or a
theorem, states what holds instead: the count and the write of `grantSsa` are not atomic, so the ceiling of two
(`users.service.ts:548`) is one more for each further request (`SsaCeiling`); `hardDelete` reads the state,
writes the audit row and the event, then deletes without looking again (423-478), so its condition
holds at the check only; an expiry date can take the last administrator, though
it is guarded when it is set (145-147, `expiry.service.ts:41-46`); a row that is retried after a stop
may be posted once more than the six times of `src/docs/integration/README.md:347` (`RetryBudget` counts
from claims, and a stop between claim and post uses one up; a lock that went stale exempts the row);
events of a user who is deleted for good vanish by cascade (`StaleHasCause` leaves such users out).

- a receiver of webhooks is not told of the change that took a user out of the last group they shared: the deliveries are found by a JOIN over the
  memberships that are left (`user-events.service.ts:61-66`, after `groups.service.ts:227-233` and `263-266`), while
  `src/docs/integration/README.md:306-311` lists `user.groups_changed`, and the comment at `user-events.service.ts:52-53` has the
  client build its groups from it. It keeps the user with the group he has lost. A client that polls gets the event and then a 404
  (`HighestIdIsCurrent` leaves out who shares no group, `StaleHasCause` does not);
- a group given to a client or taken from it, and a group that is renamed, change what the client may see of its users, and nothing is emitted
  (`clients.service.ts:472-498`, `groups.service.ts:111-151`; both properties leave such users out until something else is emitted).

The same for the modules of the other components:

- revoking the sessions of an account ends neither a stage ticket nor a login result, so a sign-in that was under
  way when the password changed still ends in a session (`OldSessionWasLate`);
- two links may live side by side when two requests disabled the old ones before either inserted
  its own (`password-reset.service.ts:68`), where line 55 says that one is left (`OldLinksDisabled` is about requests one after the other);
- the wait of an address is asked by `submitLogin` alone (`interaction.controller.ts:116`), though `submitMfa` (219, 228) and `/oidc/token`
  (`main.ts:111`, 122) record their failures for it. AD-9 (`src/docs/architecture/arch-pmh-id-2026-07-04/ARCHITECTURE-SPINE.md:73`) asks for
  `/oidc/token` to be covered "by client_id + IP", which is the key `client:<id>:<ip>`: whoever tries many clients, or many users' codes, from one address never
  waits for the address. The bound over all failures of an address does not hold of the model; the one over its wrong passwords does (`Passwords`);
- an error of the rate limit lets a request at `/oidc/token` through, unrecorded (`main.ts:127`), and requests for a reset link and its redemption
  are recorded under keys of their own without an address (`forgot-password.controller.ts:62-63`, 100): neither is in the log of `Backoff`;
- attempts in flight together do not see each other's failures (`GuessesBounded` counts them in). A bound that took them
  to come in batches, one for each wait, is wrong: with two requests, threshold 1, and delays and a window of two seconds, a third
  guess fits where it allows two, because a request let through before the wait may record after it;
- `tokens_valid_from` is rounded to a second and `iat` is cut off, so a token from before a revocation may pass, and one
  from after it be refused, within one second (`VerdictHasCause` says in which half);
- the usage of `src/apps/sso-server/scripts/rotate-key.js:9-14` and `src/docs/ops/runbook-recovery.md:102` go from the restart after `add`
  straight to `promote`; AD-8 (`ARCHITECTURE-SPINE.md:68`) asks to wait for as long as clients cache the JWKS. Who follows them is `rushed` in
  `SigningKeys`, and an application with an old JWKS refuses what the new key signs (`VerdictHasCause` exempts it);
- two rotations of a secret at once leave two active secrets (`OneCurrent`), two requests about an
  administrator of a project leave a role without a project or the other way round (`AppointmentWhole`);
- taking a group from a client, or allow-all, ends no session (`NoRightHasCause` of `GroupAccess`);
- a department can be removed under a user who is being created (`LabelHasCause`);
- a reload that ends between the two steps of a `set()` is overwritten by the value of that `set()`, also where another
  instance has written since, until the next reload (`SettingsSound`, `SettingsSettle`);
- an archive run that starts over while another is at work may empty the file after the rows were deleted
  (`NoRecordLost` exempts `crossed`: nothing keeps the cron of two instances and the script apart);
- the cron of two instances warns twice when both read before either marks, contrary to `expiry.service.ts:14` (`WarnedOnce`); the mark is set
  before the mail is queued, so a run that ends in between, or throws because a date was taken away meanwhile, leaves users
  who are never warned (`LockedWasWarned`), and a lock whose revocation fails leaves sessions until they expire (`LockedIsSignedOff`);
- a full read by `OFFSET` passes over somebody when a user before him leaves (`directory.service.ts:84`, `ReadHasCause`), and calls in
  flight together are not counted against each other (`WindowBounded`); `src/docs/integration/README.md:291` names parameters `group`,
  `search` and `page`, of which `listUsers` takes none;
- a secret of blanks is trimmed away by the server and shown as set, and Enter saves a row again while its save is in flight
  (`Settings.tsx:262`; both `RowHasCause`);
- in the portal, a second 401 clears the login state that the first one's `login()` has just stored, contrary
  to the comment at `src/apps/portal-fe/src/auth.ts:61-64`, and the callback then begins again (`NoNeedlessLogin`);
  a late answer fills a drawer under another title, contrary to `AdminGroups.tsx:234` (`WrongListHasCause`);
  `MfaEnrollForm.submit` has no `finally`, so a lost answer leaves the form busy and the recovery codes
  unseen (`InteractionLogin.tsx:567`), and two rotations in flight show two cards of which the later
  need not be the secret in force (`AdminWorkspace.tsx:132`; both `SeenIsInForce`).

## 6 What is not modelled

- Claims, scopes, rendering, mail templates, password hashing, JWT signatures, TLS, DNS pinning:
  data or cryptography that no property here tells apart.
- The library `oidc-provider` is external: its order of calls to the adapter is modelled from the adapter
  and the configuration.
- PostgreSQL's own guarantees are taken as given: a statement is atomic, uniqueness and foreign keys hold,
  a transaction is READ COMMITTED.
- What only reads or only shows: lists, searches, exports, profile, launcher, heartbeat and health; layout,
  scenes and validation of forms in the portal; the preview of a template.
- Rows nothing else depends on: replay detection of assertions, rows of the audit log but for the archive.
- Deployment, backup and alerting scripts; the schema, except for the rows and cascades the modules use;
  `scripts/bootstrap-admin.js` and `scripts/enroll-mfa.js`, which an operator runs on the server.
- The machines of the host modules do not interact within a run: interfaces are matched by
  hand (section 2). A composition of `OidcStore` with `GroupAccess` multiplies two of the larger state spaces.

`PROJECT.json` lists each component with its status, and under `hazards` what is hard to test, each with the properties that would see it go wrong.

## 7 Plan

Modelling is complete for the components marked `modelled`, and every invariant and action property of the runs is proved.
What is left: an abstract `Lineage` that `OidcStore` implements (one live token for each code), and a last-writer-wins
register for each user that `EventFeed` implements.
