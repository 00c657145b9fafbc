# A TLA+ model of hsa

hsa (Home Secure Auth) is an authentication service: passkeys (WebAuthn),
accounts by invitation only, wrapped data keys kept for each passkey, PASETO
access tokens and rotating refresh tokens, on PostgreSQL. Everything
interesting about it happens when two requests meet in the database, so the
models follow its handlers from one SQL statement to the next.

Contents: [components](#1-the-system), [plan](#2-plan),
[modules](#3-the-modules-and-the-code), [runs](#4-what-the-runs-show),
[findings](#5-where-the-code-and-its-documents-disagree),
[proofs](#6-what-is-proved), [limits](#7-what-is-not-modelled).

## 1. The system

A request goes from the generated router (`api/http`) through the middleware
of `internal/presentation/http` to a handler, which calls one use case of
`internal/application`. A use case works on entities of `internal/domain` and
on repositories of `internal/infrastructure/storage`; what it does inside
`Transactor.RunInTransaction` is one PostgreSQL transaction, READ COMMITTED.
All that requests know of each other is in five tables; what else they share
of a process is its pool of connections and its pools of buffers.

| Component | State | Operations | Correct when |
|---|---|---|---|
| Refresh sessions (`refresh_access_token.go`, `session_issuer.go`, `revoke_*.go`) | `refresh_tokens` | issue, rotate, revoke one, all of a user, of a chain | a token is traded once; a revoked session and its heirs stay out; what the client is told is committed |
| Invites and registration (`create_invite.go`, `*_invite_registration.go`) | `invites`, `users`, `wrapped_keys`; challenges held by clients | create, begin, finish | a user has at most `max_active` open invites; an invite admits one user; roles and keys follow the chain of trust; an open invite can be used |
| Logins and credentials (`begin_login.go`, `finish_login.go`, `webauthn/authenticator.go`) | `credentials`, the sessions opened | begin, finish, clone | a counter opens one session; a clone verdict has a cause and revokes what it says; a revoked credential stays revoked |
| Transactor and pool (`storage/transaction.go`) | connections, the transaction in the context | run, join, commit, roll back on error and on panic | all or nothing, no wait for a second connection |
| Startup and shutdown (`main.go`, `di/di.go`, `bootstrap_root.go`) | how far a process is; the schema, the root user, its first invites | migrate, bootstrap, create invites, listen, stop | one root, the latest schema, every code printed; a process that is told to stop does |
| Access tokens and roles (`crypto/token_*.go`, `auth_middleware.go`) | none stored | issue, verify | no operation without a role it asks for; a role is checked as it was issued, and for how long |
| HTTP edge (`handler.go`, `errors.go`, `ip_middleware.go`, `context.go`) | the context of the request | find the client address, check the token, decode, map errors | the address stored is the client's, whatever the header says; a success is told just if there was one; every error has the answer the API documents |
| Generated API (`api/http/oas_*_gen.go`) | a request and its answer on a connection | the client encodes and decodes, the server routes, decodes, encodes | a call arrives as it was made, and its answer is understood |
| Hashes and ids (`secret_manager.go`, `idgen`) | pooled buffers | hash, new id | callers do not see each other's buffers |
| Error groups (`errkit`) | a list of errors, final functions | go, finally, wait | every failure is told once |
| Configuration, logging, telemetry | - | I/O | - |

What is hard here:

- **Interleaving.** Some lookups lock their row (`FindRefreshTokenByIDForUpdate`,
  `FindInviteByIDForUpdate`), some do not (`FindRefreshTokenByTokenHash`,
  `FindCredentialByExternalID`), and every save is an upsert that overwrites the
  mutable columns with what the entity held when it was read.
- **Atomicity.** A use case that is called inside another joins its
  transaction, and is rolled back with it.
- **Time.** A handler reads the clock once, early, and compares with it after
  it has waited for locks.
- **Delivery.** The reply to COMMIT may be lost; clients retry; challenges are
  encrypted tokens that the server does not store, so they can come back.
- **Deadlock.** Batches lock rows in the order in which they were listed.

## 2. Plan

Done, in this order because the tables above are where a mistake costs most:

1. `Sessions`, with the abstract `SessionLedger` it implements, and
   `SessionsProofs`.
2. `Invites`: creation, challenges, registration; and `InvitesProofs`.
3. `Logins`: counters, clones; and `LoginsProofs`.
4. `Front`: one request from the router to a use case and back; and
   `FrontProofs`.
5. `Api` and `Exchange`: the generated client and server around `Front`; and
   `ExchangeProofs`.
6. `Transactor` and `Process`: nesting, the pool, several processes that start,
   stop and crash on one database; and `ProcessProofs`.
7. `Pools` and `Group`: what goes on inside of one process; and `PoolsProofs`
   and `GroupProofs`.
8. A proof of every invariant and action property that a passing run checks.
   `SessionsAlone`, the sessions as long as no two requests overlap, and
   `InviteBook`, what `Invites` implements, were split off for that.

Next:

9. `Chain`: the recursive query of descendants against registrations and
   refreshes that commit meanwhile. It composes what `Sessions` takes as the
   constant `Descendants` with what `Invites` does to `users`.
10. `AccessTokens`: what revocation means for tokens already issued.
11. The safety part of the liveness properties: that in every reachable state
    somebody can go on, written out as the guards of the steps it takes.

## 3. The modules and the code

`Sessions`, `Invites` and `Logins` have the same shape. `Requests` is the set of requests
the server receives; each is handled once, by a handler chosen when it begins,
and its local variables are functions of the request: `pc[r]` is the statement
it is about to execute, `verdict[r]` what it answers. An action is one
statement together with all the Go code up to the next one. What a transaction
has written but not committed is kept apart from the tables; `Install` at its
commit adds it. Four ways to end are common to all: `Commit`, `CommitUnseen`
(the server commits, the reply is lost, the handler answers an error),
`Rollback` (the use case returned an error) and `Fail` (a statement or the
commit fails, or the client goes away, at any point).

A row that a transaction has written, or has read FOR UPDATE, is locked until
the transaction ends; a statement that needs it is not enabled before that.
This is PostgreSQL, modelled from how the queries rely on it and marked
external in `PROJECT.json`, as are the deadlock detector, the clock, what
clients may present and the WebAuthn library's comparison of counters.

**Sessions** (`refresh_tokens`). `StartLogin`/`Issue` is the part of a login
that opens a session, `StartClone` the other branch of the same use case, which
suspects a clone, revokes every session of the user, commits, and answers an
error all the same (`Answer`). Which branch a login takes depends on credentials
and is decided in `Logins`; here it may take either. A registration opens its first
session with the same `SessionIssuer.Issue` as a login and is not told from one.
`StartRefresh`, `Lookup*`, `Rotate` are
`RefreshAccessToken` and `SessionIssuer.Rotate`; `StartRevokeSession`, `Find*`
are `RevokeSession`, whose lookup locks; `StartRevokeChain`, `Targets`,
`ListActive`, `SaveRevoked` are `RevokeCompromisedChain` and
`RevokeAllUserSessions`, shared with `StartClone`, which saves row by row and can deadlock
(`DeadlockVictim`). `LookupReused` enters the same `ListActive` from inside a
refresh, and remembers that the refresh will fail. A row is its user, its
expiry and whether it is revoked; its id stands for its hash.

**SessionLedger** is what the sessions promise, without requests or
transactions: grants that are issued, revoked, and traded for an heir.
`SpecSpendOnce` trades a token once; `SpecSpendStale` admits that a token is
traded although it was traded or revoked before. `Sessions` maps its table and
the heirs it can read off it to the ledger: it implements the second always,
the first only if requests do not overlap.

**SessionsAlone** extends `Sessions` with a history variable, `alone`: have
requests never overlapped so far? The `Lone*` properties say what holds until
they do.

**Invites** (`invites`, `users`). `StartCreate`/`StartCreateRoot`,
`LockCreator`, `CountOpen`/`CountFull`, `Insert` are `CreateInvite` and the
loop of `createRootInvites`; `StartBegin`, `Read*` are
`BeginInviteRegistration`, which leaves a challenge with the client;
`StartFinish` (with `Objection`: keys, key policy, expired challenge), `Open`,
`Redeem*`, `ConstraintBroken`, `Account` are `FinishInviteRegistration`. A user is kept with the
scopes of its wrapped keys: user, credential, keys and session are inserted
under new ids by one transaction, and nobody sees them apart. Two constants
describe the environment of this code. `CheckedAtCommit` says whether the
foreign key of `invites.used_by` is checked at commit or, as the schema in the
repository has it, at once. `Wirings` is the set of policies the container may
have given the handler of `POST /invites`: it asks for an interface that both
`*CreateInvite` and `*RootCreateInvite` satisfy (`http/package.go:44`), and the
container takes the first it meets while it ranges over a map. The choice is made
once, `wired`, and every run covers both. With the policy of the root a creation
also takes the lifetime of the root's invites (`Lifetime`). `LimitedKeepsCap`
states the cap for a container that chose the limited one; that it does not hold
of the other is finding 4.

**InviteBook** is what the two tables promise to whoever reads them: a member
with room under the cap, where the cap binds (`capped`), offers an invite
(`Offer`), an unused invite admits one new user with an inviter, a role and keys
(`Admit`), time passes (`Pass`), and rows change in no other way. `OneBook` of
`Invites` says that it implements this, table by table under the identity, with
`capped` for the limited wiring: what is pending in transactions is not in the
tables.

**Logins** (`credentials`, sessions). `StartLogin`, `Reject`, `Validate` are
the handler and `Authenticator.Finish`, which reads the credential outside of
the transaction; `Lookup*` reads it again and decides; `Save` is the upsert of
the whole credential; then `Issue`, or `ListActive` and `SaveRevoked` when a
clone is suspected. An assertion is a credential and a counter. It may be
presented by any number of requests in any order: that is a retry, a delayed
request, or a copy of the authenticator, which the server cannot tell apart.

**Front** (no table). One request, since requests share nothing here: `pc` is
the stage it has reached, `i` the place of the scan, `ctx` its context, and
`acted`, `asUser`, `fromIP`, `outcome` remember what reached the use case.
`ExtractClientIP`, `ScanPart` and `ScanEnds` are the middleware of
`ip_middleware.go`, one action per turn of the loop over `X-Forwarded-For`; the
line is a sequence of addresses, commas, white space and other text, since that
is what `TrimSpace` and `ParseAddr` tell apart. `ctx` has room for one value:
`userIDContextKey` and `clientIPKey` are both `ctxKey{}`, so the later value
hides the earlier. `HandleBearerAuth` and `Decode` follow in the order of the
generated server, `Following` says which order that is. Each of the nine
handlers is an action; whatever its use case does is an outcome, taken from
success, panic and `Errors`, and `Resolve` makes an answer of it by the
registry of the operation.

Of the body of a request `Front` sees only whether it is good.

**Api** and **Exchange**. `Api` holds the tables and functions of the generated
code, one for each end: `Routes` and `ServeHTTP` are the router, `Send` the
paths and methods of the client; `*Encode` and `*Decode` are the fields that an
encoder writes and a decoder asks for, by type; `AnswerBody` and
`TakenFor` are what the server writes for an answer and what types the
client takes it for by its status. A body is the set of the fields of each kind
of object in it, with the members of enumerations; what any other field holds
is never looked at. `Exchange` extends `Front` with a connection: `call` is
what a caller asked of the generated client (or `NoCall`, when some other
program wrote the request), `wire` the request as written, `sent` the answer,
`recorded` the status that the wrapper of the `ResponseWriter` saw, `result`
what the caller is told. `Serve` is a step of `Front`; `WriteAnswer`,
`ReadAnswer` and `Break` are the rest. Where the connection is broken an
encoder may fail, and the error handler then writes an answer after it.

**Transactor** (the pool, the transaction in the context). `Script` says for each
of nine use cases which calls it makes of the storage: enter and leave
`RunInTransaction`, read, write, or fail by itself. What is written is counted,
not named. `Enter` joins or takes a connection, `Leave` returns from a call that
joined, `Commit` from the one that began; every way to fail (`Refuse`, `Fail`,
`Panic`, `TurnAway` of a closed pool) rolls back.

**Process** extends it with `stage[p]`, how far a process is: `ReadVersion` and
`Migrate` are goose, `FindRoot`, `InsertRoot` are `BootstrapRoot`,
`MakeInvite`, `PrintInvites` are `createRootInvites`, `Listen`, `Await`,
`StopServer`, `Exit` are `Run`, `ShutdownOnSignals` and the shutdown of the
container. There are two listeners for signals: that of `main` cancels the
context that the start uses (`told`), the second one, installed after the
start, begins the shutdown. `Kill` is a crash, at any point.

**Pools** follows `generateHashBase32` and `NewID` step by step on objects of a
`sync.Pool`, which may be collected while they lie there. **Group** follows
`errkit.Group`: `Go`, `Finally`, `Add` (the mutex is taken and released in two
steps), `Wait`.

The `MC*` modules hold the values of the constants; each `.cfg` is one run.
`MCAnswered` puts `Sessions`, `Invites` and `Logins` side by
side, one of them in each behaviour, to ask one question of all three, whether
their requests are answered; `MCProcess` extends it, so that the run `process`
asks what must eventually happen of everything that shares a server.

## 4. What the runs show

| Run | Instance | States | Shows |
|---|---|---|---|
| `sessions` | 3 requests at once of all five handlers, 2 users of one chain, 3 old sessions, clock to 1 | 1.0 M | the invariants and the ledger, under every interleaving; as long as no two requests have overlapped, that a token is traded once and that logout and revocation end what descends from a session |
| `invites` | 3 requests at once, 3 challenges for 2 invites, 2 lists of keys that can be registered and 2 that cannot, cap 2, both wirings, clock to 1, key checked at commit | 1.8 M | the tables implement the book of invites; cap where it binds, one user per invite and by a registration that went through, chain of trust, answers |
| `logins` | 4 requests, 3 at once, 3 credentials of 2 users, counters to 3 | 1.7 M | clone verdicts, the sessions of a revoked credential; for credentials whose logins do not overlap, counters and revocations |
| `exchange` | every line of up to 5 texts on a login through a proxy; every path with every method; every operation with every token, peer and kind of body; every call of the client; every sentinel, none, and some pairs | 0.70 M | the address, the authorization and the answer of a request; a call arrives as it was made, its answer is understood and recorded; it returns |
| `process` | five rehearsals, fair: two processes that start twice each; two requests on one connection; two callers of the pools; a group of two tasks and three final functions; two requests at once to sessions, invites (key checked at commit, both wirings) or logins | 0.42 M | all or nothing, one root and its codes, buffers apart, every error told once; nobody waits for ever, and every request is answered, deadlocks included |

The other runs (`sessions_double_spend`, `sessions_chain_race`,
`sessions_reuse`, `invites_wiring`, `invites_schema`, `logins_unrevoked`, `exchange_expired`)
each end in a counterexample; section 5 says of what.

**Bounds.** `MaxTime` stops the clock, `MaxInFlight` limits how many requests
are handled at a time, `Handlers` which handlers receive requests (all of
them, except where a counterexample needs only some). Every race in this code
is between two transactions on the same rows; a third request is there to see
the result, or to have made the state the two meet in. Lifetimes are such that
a session, an invite and a challenge can each expire between any two
statements. Tokens that no row ever had are presented in `process`, to two
requests at once: such a request reads no row and writes none. `MaxActive` is 2 over one existing invite, so that the cap is
reached by the first creation and tested by the second and third. Counters go
from 1 (already stored) to 3, so that an equal, a smaller and a greater one
occur on both reads. Requests, with the ids generated for them, are
interchangeable, and the runs without fairness use that symmetry; the others do
not. In `exchange`, five texts are enough for two listed addresses with a comma
and something blank or unreadable around each; since requests share nothing
there, one at a time is all there is.

In `process` the pool has one connection, so that a second one taken inside a
transaction would never come; two requests compete for it, of any of the nine
operations. Two migrations, two invites and two starts of each of two processes
(`Latest`, `CountInvites`, `MaxStarts`) are enough for one process to overtake
another between any two of its steps and for a crash between two invites and
after both. What starts and requests do to each other goes through one process
at a time, so they are rehearsed apart; `Pools` and `Group` touch nothing of
either. Two callers with two holders and two buffers of two ids each, and three
calls, let an object be used twice, collected and shared if it could be
(`MaxCalls`, `Holders`, `Buffers`); of the group, a task starts another and
registers a final function, and that one another.

Deadlock is checked in every run: `Finished` (`Over`, `PoolsDone`, `GroupDone`)
is a stuttering step where there is nothing left to do.

**Fairness.** Only `process` and `exchange` assume any. For requests to
sessions, invites and logins (`AnswersFairness`) it is weak fairness, for each
request, of what it can do next when nothing goes wrong (`GoOn`) and of the
deadlock detector (`DetectDeadlock`). Go
schedules every runnable goroutine and PostgreSQL executes every statement that
does not wait; a statement that waits for a lock is disabled until the holder
ends. `Process` assumes the same of its requests (`Proceed`) and of every
process (`Advance`): with one connection, whoever holds it comes to an end.
`database/sql` serves those that wait in order, but weak fairness is enough,
because each request needs the connection a bounded number of times. In `Exchange` the server
goes on until it has written its answer and the client reads what has come:
weak fairness of `ExchangeStep`. Requests arriving, statements failing, replies
being lost, connections breaking, signals, crashes and time passing are never
assumed to happen.

**Why not only invariants over types.** Each module has one type invariant.
The others relate what an answer said to what is committed (`AnswersHold`), a
row to the one it descends from (`RotationKeepsGrant`, `ChainOfTrust`), a
verdict to an earlier request (`CloneHasCause`), or forbid steps
(`RevokedIsFinal`, `RevocationHasCause`, `LoneRevocationSticks`).
`DrainedBeforeExit` of `Process` is stated and is no run's property: no document
promises it, and it does not hold (section 7).

## 5. Where the code and its documents disagree

1. **A refresh token can be traded twice** (`sessions_double_spend`). The
   refresh reads the token without a lock; the query that locks it exists and
   is not called. Likewise a device can stay logged in when its refresh
   overlaps `DELETE /sessions/{id}`; that it cannot without overlap is
   `LoneLogoutEndsSession` of the run `sessions`.
2. **A revoked chain can keep a session** (`sessions_chain_race`). A refresh
   in flight commits an heir that the revocation has not listed; locking the
   token would not help, for the list is made by a plain SELECT.
3. **Reuse revokes nothing** (`sessions_reuse`). The sessions are revoked in
   the transaction of the refresh, which is rolled back because of the reuse;
   the client is told that all sessions are revoked. No overlap is needed.
4. **The cap on open invites depends on the container** (`invites_wiring`).
   Where `POST /invites` was given `RootCreateInvite`, a user has as many open
   invites as it asks for, and each lives as long as one of the root's.
   `LimitedKeepsCap` says that with the other one the cap holds however
   creations overlap.
5. **No registration can commit on the shipped schema** (`invites_schema`).
   `used_by` is saved before the user exists, and its foreign key is checked
   at once. The properties of registration are therefore checked with
   the key checked at commit, the smallest change that lets registrations happen;
   `OpenInviteAdmits`, which the schema breaks, is claimed of the shipped one only.
6. **A revoked credential can come back** (`logins_unrevoked`). A login that
   read it before the clone was detected saves `revoked_at` as NULL. The same
   missing lock lets one counter open two sessions.
7. **An expired challenge is an internal error** (`exchange_expired`).
   `ErrChallengeExpired` has a rule in no registry, so that the caller of a
   login or a registration is answered 500 `INTERNAL_ERROR`, where `api.yaml`
   documents 401 `CHALLENGE_EXPIRED`.

`Logins` has one variable that the program does not: `met[c]` remembers that
two requests with credential `c` were handled at the same time. It lets one
run say both what holds always and what holds for a credential whose logins
never overlapped, whatever the others do.

## 6. What is proved

`SessionsProofs` proves with TLAPS, for every set of users, tokens and
requests, every lifetime and every bound on the clock and on the requests in
flight:

| Theorem | Statement |
|---|---|
| `Invariance` | `Spec => []IInv` |
| `TypeCorrect` | `Spec => []TypeOK` |
| `RotationCorrect` | `Spec => []RotationKeepsGrant` |
| `AnswersCorrect` | `Spec => []AnswersHold` |
| `RevocationCorrect` | `Spec => RevokedIsFinal` |
| `WarrantHolds` | `Spec => []Warranted` |
| `RevocationCaused` | `Spec => RevocationHasCause` |
| `NothingSurvives` | `Spec => NothingListedSurvives` |
| `ImplementsLedger` | `Spec => LedgerStale` (`Sessions` implements `SessionLedger`) |
| `LoneInvariance` | `AloneSpec => []LoneInv` |
| `LoneSpentOnce` | `AloneSpec => [](alone => TokenSpentOnce)` |
| `LoneChainCorrect` | `AloneSpec => []LoneChainLeavesNoHeir` |
| `LoneLogoutCorrect` | `AloneSpec => LoneLogoutEndsSession` |
| `LoneLedgerCorrect` | `AloneSpec => LoneLedger` |

**Assumptions.** `ConstantsAssumption`, `NewIDAssumption` and `InitAssumption`
of `Sessions`: ids given out are new and distinct, and earlier traffic left a
well-typed table. TLC evaluates them in the runs.

**Argument.** `RevokedIsFinal` is the surprising one: the refresh overwrites a
row with what it read without a lock, so why can it not undo a revocation? It
holds because every row a request is about to write over is written as
revoked: the entity in memory has been through `Revoke`, and only the new row
of a rotation or a login is live, under an id nobody else has. That is what
`IInv` adds to the types: for every request, what its transaction has pending
is revoked versions of rows that exist, unchanged in user and expiry, and at
most one new row under `NewID[r]`, which is in nobody else's hands. Mutating
`Rotate` so that the old session is saved unrevoked breaks both the invariant
and the property. The proof goes action by action through one lemma on what
each action writes; the refinement maps each commit to an `Issue`, a `Trade`
or a `Revoke` of the ledger and everything else to a stutter.

Whose sessions a commit ends is the business of `Warranted`: a `RevokeSession`
holds the row of its token, and the user it was asked by owns it; a
`RevokeCompromisedChain`, or a login that suspects a clone, holds rows of its
list, everything it has found active of the users concerned (`Against`: the
branch, or the one user) is on that list, and what is not had not been committed
when the list was made, or had been over already by the clock of the request. A
session therefore ends by its own rotation, by its own logout, by the revocation
of a chain its user is in, or by a clone of a credential of its user. A refresh
that meets a reused token is in none of these cases: that reuse revokes nothing,
which the run `sessions_reuse` shows of one behaviour, is thereby proved of all.

`LoneInv` is what more there is while nobody overlaps: what the request in
flight has read is still so (`LoneRequest`), no token has two heirs, and no
session on the list of an answered revocation has one (`HeirsApart`). `IInv`
comes along, for `Sessions` takes the same steps with or without `alone`.

`InvitesProofs` proves, for every set of users, invites, challenges and
requests, every policy and lifetime, and either setting of `CheckedAtCommit`:

| Theorem | Statement |
|---|---|
| `Invariance` | `Spec => []Core` (`IInv` without the cap) |
| `InvariantHolds` | `Spec => []IInv` |
| `TypeCorrect` | `Spec => []TypeOK` |
| `CapHolds` | `Spec => []LimitedKeepsCap` |
| `AdmitsOne` | `Spec => []InviteAdmitsOne` |
| `RowsFinal` | `Spec => RowsAreFinal` (an invite changes once, from unused to used; a user never) |
| `TrustChained` | `Spec => []ChainOfTrust` |
| `AnswersCorrect` | `Spec => []AnswersHold` |
| `SpentOnlyByRegistration` | `Spec => []SpentByRegistration` |
| `SchemaAdmitsNobody` | `Spec => []NobodyRegisters`, if not `CheckedAtCommit` |
| `BookImplemented` | `Spec => OneBook` (`Invites` implements `InviteBook`) |

**Assumptions.** Those of `Invites`: ids given out are new and distinct; the
tables start typed and consistent (creators exist, only the root was invited by
nobody, nobody is over the limit) and the challenges out there have an invite
that exists and a candidate of their own. Nothing is assumed of how many
challenges an invite has, how often one comes back, or which of the wirings there
are. `CapHolds` has no hypothesis; what it says of a container that chose the
policy of the root is nothing, for there nothing limits a user (finding 4).

**Argument.** `Core` says what each request in flight knows. A creation that has
counted holds the advisory lock of its creator (`CreationInv`), so the only
commits that can touch the invites of that user are redemptions, which leave
fewer open; hence there is still room for its own at its commit, and the clock
has only closed others meanwhile. A registration that has redeemed holds the
row (`OneRedeemer`), so what it writes over it is that row with `used_by` set
and nothing lost. A challenge whose candidate is a user has that user in
`used_by` (`ChallengeInv`), so a registration that finds its invite unused has a
candidate who is nobody yet, which is why the same challenge presented twice
cannot overwrite a user. The lemma `OtherKept` says once and for all what a
step must leave of the requests that do not take it; `CommitFacts` says what a
commit can install: an invite behind a lock (`Issues`) or a user with its
invite (`Admits`). The other theorems follow from these two cases; the chain of
trust and the answers need `Trust` on top, which follows the keys, the role and
the verdict of a request from its arguments to its answer.

An invite is used by a request that is over and whose arguments are still there:
`SpentKept` follows that `Redeemer` through every later step. What is over stays
as it is (`DoneIsOver`), and what a registration brings to its commit has been
checked for scopes that repeat, and still has (`CheckedKept`).

With the key checked at once, as the schema has it, a registration would have
to find its candidate among the users before it may save the invite; but a
candidate who is a user has used that very invite (`ChallengeInv`), so nobody
gets past it (`NobodyRedeems`). Finding 5 is thereby proved of every behaviour,
and not of the instance of `invites_schema` alone. There is no theorem that with
the key checked at commit an open invite admits: that would be about a schema
the repository does not have.

The refinement maps a commit that `Issues` to an `Offer` and one that `Admits`
to an `Admit`; whether it is seen makes no difference. The one hard step is the
cap of `Offer`: what the creation counted is, but for what has expired or was
redeemed since, all that is open at its commit (`CreationInv` again). Where the
container chose the policy of the root, `capped` is false and `Offer` asks for
no room.

`FrontProofs` proves, for a line of any length, every list of proxies and every
set of errors:

| Theorem | Statement |
|---|---|
| `InvariantHolds` | `Spec => []IInv` |
| `TypeCorrect` | `Spec => []TypeOK` |
| `AddressCorrect` | `Spec => []ClientKnown` |
| `OnlyAuthorizedServed` | `Spec => []ServedAuthorized` |
| `NoneTurnedAway` | `Spec => []RefusedWithCause` |
| `AnswersCorrect` | `Spec => []AnswerTellsOutcome` |

**Assumptions.** `ConstantsAssumption` of `Front`: addresses, commas, white
space and other text differ, proxies have addresses, requests and errors are
typed.

**Argument.** `IsClient` says who the client is by looking at the whole line at
once; the code sees one part at a time. `PartIsSole` links the two: between the
last comma and `i`, a text is an address by itself in its part just if it is
one in the line. `Scanning`, the invariant of the loop, then says that what
lies right of `i` was split off at a comma and lists no client. For the one key
of the context, `Addressed` and `Identified` say what a stage finds under it:
an operation that asks for a role never looks for the address, and one that
looks for the address asks for no role, so the value hidden is never missed.
That is a fact about the nine operations of today, not about the context; it
fails for the first operation that needs both.

`ExchangeProofs` proves, for every set of calls and of other requests:

| Theorem | Statement |
|---|---|
| `ExchangeImplementsFront` | `ExchangeSpec => Init /\ [][Next]_vars`: seen from the request, an exchange is a behaviour of `Front` |
| `ExchangeAuthorized`, `ExchangeAddress`, `ExchangeTurnsNoneAway`, `ExchangeTellsOutcome` | the properties of `Front`, of every exchange |
| `ExchangeArrives` | `ExchangeSpec => []CallArrives` |
| `ExchangeRefuses` | `ExchangeSpec => []CallRefusedWithCause` |
| `ExchangeRecordsTruly` | `ExchangeSpec => []RecordedTruly` |
| `ExchangeUnderstood` | `ExchangeSpec => []AnswerUnderstood` |
| `ExchangeTypeCorrect` | `ExchangeSpec => []ExchangeTypeOK` |
| `ExpiryAlwaysHidden` | `ExchangeSpec => []ExpiryHidden` |

**Assumptions.** `ExchangeAssumption`: a call gives the value its operation
takes, with fields that its type has, and what is written is a request of
`Front`.

**Argument.** The four properties of `Front` come by refinement. That a call
arrives rests on two lemmas about the generated code: `RouterFindsOperation`
(the path that the client builds leads to one route, that of the operation,
whatever text an id is; routes are told apart by their length and their fixed
parts) and `RoundTrip` (what an encoder writes is what the decoder of the same
type reads). `Carried` then follows the value from the call to the use case.
`Told`, for the recorder, says what an answer already written and already read
have to do with each other; an encoder that fails on a broken connection
disturbs the status that is recorded, and then nobody is told any.

That an answer is understood is a fact about three layers at once: the
registries, the generated server and the generated client. `AnswerFits`
follows the answer through the stages. An answer is `Explained` if it is the
success of its operation, or a rule of its registry, or the default; an error of
the handler is what `RefusalsExpected` has the client expect. `AnswersListed`
and `StatusTellsKind` say, operation by operation, that the server has a body
for such an answer and that its status leads the client to that body and no
other, and `AnswerReads` that the client then reads it. Since the registries
send an expired challenge to the default (`NoRuleForExpiry`), finding 7 holds
of every exchange, `ExpiryAlwaysHidden`.

`LoginsProofs` proves, for every set of credentials, users, assertions and
requests:

| Theorem | Statement |
|---|---|
| `InvariantHolds` | `Spec => []IInv` |
| `TypeCorrect` | `Spec => []TypeOK` |
| `CloneCaused` | `Spec => []CloneHasCause` |
| `CloneEndsSessions` | `Spec => []CloneLeavesNoSession` |
| `LoneOpensOnce` | `Spec => []LoneCountOpensOnce` |
| `AnswersCorrect` | `Spec => AnswersHold` |
| `LoneRevocation` | `Spec => LoneRevocationSticks` |

**Assumptions.** `ConstantsAssumption` of `Logins`: credentials have owners, and
requests are told from earlier sessions.

**Argument.** A counter can be suspected in two places, each with a read of its
own. `Counted` says that every counter stored was accepted from somebody;
`Judged` and `Carried` say the same of the counter in the memory of a request
that has been warned or has seen a regression, so that whoever is suspected sent
no more than somebody else (`AcceptedCauses`), and since logins that are
committed stay so (`Monotone`), the cause stays too. For the sessions, `Listed`
says that one that is live and is not on the list of a clone's request was
opened since, with another credential: `OneWriter` keeps a login with the same
one from committing in between, because both write its row. Without overlap
(`Alone`), the row is as it was read (`Isolated`), and what is stored grows.

`ProcessProofs` proves, for every number of processes, requests, connections,
migrations, invites and starts:

| Theorem | Statement |
|---|---|
| `InvariantHolds` | `Spec => []IInv` |
| `TypeCorrect` | `Spec => []ProcessTypeOK` |
| `WritesWhole` | `Spec => []CommittedWhole` |
| `RootServed` | `Spec => []ServesTheRoot` |
| `CodesPrinted` | `Spec => []CodesHandedOut` |

**Assumptions.** The pool has a connection, `None` is no process, the bounds are
numbers, and `ScriptAssumption`: no use case writes outside of a transaction or
after the end of one. The last is about constants, and TLC evaluates it for all
nine.

**Argument.** `Follows` reads off the place in its script how deep a request is,
what it has written and whether that is committed, so that the commit of the
outermost call finds everything and every other end finds nothing; `Holding`
says that only a request inside of a transaction has a connection, which
bounds the pool. `Life` does the same for a process: an invite names its
process and its start, a schema that is the latest stays so, and a root is
inserted only where there is none.

`PoolsProofs` proves, for every number of callers, of objects, of calls and of
ids in a batch:

| Theorem | Statement |
|---|---|
| `InvariantHolds` | `PoolsSpec => []IInv` |
| `Apart` | `PoolsSpec => []CallersApart` |

**Assumptions.** A batch has an id, and a holder is no buffer. That what is
drawn is new, and that a hash is what went into it, is in the model.

**Argument.** An object that is borrowed lies in no pool (`Borrowed`), so what
its borrower put in is still there when it reads it (`Hashing`). An id is in one
of three places at a time: fresh in a batch, held by a caller that is about to
return, or given. `FreshOnce`, `HeldOnce` and `GivenOnce` say that no id is in
two; counting moves one from the first place to the second, and returning, after
the buffer went back, from the second to the third.

`GroupProofs` proves, for every set of tasks and of final functions:

| Theorem | Statement |
|---|---|
| `GroupInvariance` | `GroupSpec => []GroupInv` |
| `WaitCorrect` | `GroupSpec => []WaitTellsAll` |

**Assumptions.** `GroupAssumption`: tasks, final functions and the owner are
distinct, and each function is given to the group by one of them, a task never
by a final function.

**Argument.** `Add` reads the error, appends to it and stores it in two steps;
`MutexInv` says that what a holder of the mutex has read is still there when it
stores. `TellsInv` then counts: of a function that has been added, each
failure is in the error as often as it has it, of any other none. `FinallyInv`
and `ListInv` say that each final function is in one place, in `g.finally`, on
the list `Wait` took, or done; so at the return of `Wait` everything has been
added. A function that a final function registers comes too late: `Wait` has
taken the list.

**Only model-checked.** Liveness: `EveryRequestAnswered`, `EveryCallReturns`
and `NothingHangs` rest on fairness and on what is ENABLED, which the prover
does not reach. Every invariant and every action property of a passing run is
stated by a theorem above. That something does go wrong, as the runs that end
in a counterexample show, is a fact about one behaviour, which takes no proof;
for findings 3, 5 and 7 the theorems say more, that it always goes wrong
(`RevocationCaused`, `SchemaAdmitsNobody`, `ExpiryAlwaysHidden`).

## 7. What is not modelled

- Cryptography, formatting, logging, telemetry (but for the group that shuts it
  down), configuration, the debug server, and what a migration does to the
  schema.
- Of the generated HTTP layer the contents of fields other than enumerations
  and ids, tracing and metrics, hooks of its configuration that nothing sets,
  and helpers that nothing calls (`FindPath`, the lookups of the router beside
  `ServeHTTP`). The answers to CORS preflights.
- Of `X-Forwarded-For` the first line counts, as for `Header.Get`. Which
  addresses lie in the networks of the proxies is the constant `Trusted`.
- In `Process`, migrations use a connection of the pool that they have to
  themselves, since nothing else runs yet. A signal between the last step that
  uses the database and the second listener is only remembered: the process goes
  on, and stops at the next one. A request at work when the process is told to
  stop is not waited for by the server, because `http.Server.Shutdown` is given
  a context that is cancelled already; the pool waits for its connections. The
  setting `ShutdownTimeout` (`config.go`) is read nowhere. `DrainedBeforeExit`
  says what would hold otherwise; no run checks it, so that of a stop under load
  only the end of the pool and of the process is shown (`NothingHangs`).
- Of the errors that an operation documents and its registry does not have,
  `ChallengeExpiryTold` is about one; `AnswerTellsOutcome` and
  `AnswerUnderstood` say that the others too are answered as they are written,
  and the client understands the 500 it gets.
- How a logout and a refresh of one session meet: `LoneLogoutEndsSession` says
  that an heir outlives a logout only if they overlap, and the run
  `sessions_double_spend` shows the missing lock, but no property forbids that
  overlap, since no document does.
- How long an access token outlives the revocation of its session or of the role
  it names: `Front` checks a token as it was issued.
- `Descendants` is a constant of `Sessions`: a user who registers while its
  chain is being revoked is left to the module `Chain` of the plan.
- Sessions in `Logins` are neither rotated nor do they expire; that is
  `Sessions`. The external id of a credential is taken to be new at
  registration.
- The scope of a wrapped key: any string but `main` becomes `decoy`
  (`ScopeFromString`), so scopes are one of the two and always valid.
- A login with an unknown credential fails validation (`Reject`); the second
  lookup cannot miss a row, since nothing deletes credentials.
- Two notes on boundaries that no document decides: an invite whose expiry is
  the present instant is no longer counted and can still be redeemed; and a
  creation that waits for the advisory lock counts the invites, and starts the
  lifetime of its own, at the time before the wait.
