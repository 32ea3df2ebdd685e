# Learning Core: a TLA+ verification project

Learning Core is a multi-tenant HTTP API (Node, PostgreSQL behind PgBouncer,
Redis) that serves courses, records progress, runs and scores assessments and
issues verifiable credentials. Two worker processes share nothing but the
database and Redis. This directory holds models of its core logic, the TLC runs
that check them and the TLAPS proofs about them. Paths below are relative to the
repository (`src/routes.js`, `db/migrations/...`).

## How the models stand to the code

Every handler runs inside `withTenant` (`src/db.js`): one READ COMMITTED
transaction per request. That this is so, on pooled and shared connections that
fail, is the subject of `WithTenant`; the other modules build on it, and keep four
rules:

* A handler is split into one action per statement wherever another transaction
  can commit in between and the next statement would see it. The handlers take
  no row locks when they read, so "read, decide, write" is always split.
* The writes that end a handler are one step with its COMMIT. Nobody sees an
  uncommitted row, and a row lock taken by a write is held until the COMMIT, so
  the moment of the write is not observable. The two exceptions are modelled as
  separate steps: the INSERT of a credential, whose trigger *reads* another table
  without a lock, and an INSERT on which another transaction waits
  (`idempotency_key`, `lesson_progress`). In `Learners` a writer that would wait is
  simply ordered after the COMMIT it waits for: it has nothing left to read.
* A refused call (404, 409, 422) changes nothing: it is the absence of a step,
  except where it ends a request that had already begun. Any statement may fail
  (timeout, deadlock detector, lost connection, death of the worker): the
  transaction rolls back (`Abort`, `Fail`).
* Requests are slots that are used again and again (`Attempts`, `Progress`,
  `Learners`, `KeyCache`) where no history of a request is needed, and single requests where
  it is (`Idempotency`).

"History" variables (`raced`, `ran`, `swept`, `lost`, `early`, `purged`,
`taken`, `failed`, `listed`, `present`, `unsure`, `admitted`, `refusals`) exist only to state properties; no guard reads them. In particular `raced`
records which calls ever overlapped. Several guarantees of this code hold only
without such an overlap. The property with the suffix `UnlessRaced` says exactly
that; the section Findings says where a doc or a message promises more.

## Inventory

| Component | Code | State | Operations | Hard because | Module |
|---|---|---|---|---|---|
| Scoring | `src/scoring.js` | none | `scoreItem`, `scoreAttempt` | partial credit, caps, rounding against a pass mark | `Scoring`, `Marking` |
| Attempts and credentials | `src/routes.js` 560-699, 876-914; triggers in `001`, `004` | attempt, attempt_answer, credential | answers, submit, grade, get, issue, revoke, SQL | read-decide-write without locks, by several callers; an answer from two snapshots | `Attempts`, `AttemptView` |
| Idempotency keys | `src/idempotency.js`, `src/server.js` 190-216, sweep | idempotency_key | begin, finish, sweep | retries, concurrent duplicates, lost acknowledgements | `Idempotency`, `KeyedExecution` |
| Progress, start of attempts | `src/routes.js` 200-223, 376-403, 475-558 | lesson, enrollment, lesson_progress, attempt | add lesson, enrol, complete, get, start | two snapshots; count before insert | `Progress` |
| API keys | `src/auth.js`, `scripts/tenant.js` | api_key, a cache per worker, pub/sub | authenticate, mint, revoke, purge | a cache filled after an await, at-most-once messages | `KeyCache` |
| Usage and billing | `src/usage.js`, `scripts/usage_rollup.js`, sweep | buffers, usage_event, usage_daily, the billing service | record, flush, stop, aggregate, push | lost buffers, overlapping flushes, re-runs after failure | `Usage` |
| Tenant context | `src/db.js`, policies in `001` | pool clients, PgBouncer's server connections, the transaction and `app.tenant_id` of each | withTenant | connections are shared, statements, connections and acknowledgements fail half way | `WithTenant`, `Transactions` |
| Request pipeline | `src/server.js` 112-231 | the stage of a request, its answer | authenticate, limit, parse, run, meter, answer | up to three transactions per request from one small pool; the worker dies | `Requests`, `Idempotency` |
| Rate limit | `src/ratelimit.js` | two counters per key in Redis | check | weighted buckets, refused calls count, counted later than read | `RateLimit` |
| Learners | `src/routes.js` 248-306 | learner | upsert, PATCH, list | check before update | `Learners` |
| Lists | `src/pagination.js` | the cursor a client holds | page by (created_at, id) | rows that commit late, between two pages | `Learners` |
| Authoring: courses, lessons, assessments, schemes | `src/routes.js` 322-471, 724-773 | their tables | make a whole, show it | several INSERTs, several snapshots | `Catalog` |
| Approvals, stale citations | `src/routes.js` 788-873 | approval, citation | append, list, report | a subject that no foreign key holds | `Catalog` |
| Public verify | `002`, `004`, `src/server.js` | - | one SELECT | - | not modelled |
| Validation, problems, OpenAPI, config, log | `src/` | - | conversions | - | not modelled |
| Migrations, roles, seed | `db/`, `scripts/` | - | run by an operator | - | not modelled |

How they interact: `server.js` authenticates (`KeyCache`), limits (`RateLimit`),
parses and then opens the transaction (`WithTenant`) in which `idempotency.begin`, one
handler (`Attempts`, `Progress`, `Learners`, `Catalog`) and `idempotency.finish` run
(`Idempotency`); after the COMMIT it records usage (`Usage`) and answers. `Requests`
composes these stages on the pool that they and the flushes of `usage.js` share. `scoreAndStore` calls `scoreAttempt`
(`Attempts` EXTENDS `Scoring`). An attempt row of `Progress` is where `Attempts`
begins. The credential row is what public verification shows. The sweep deletes
key rows and usage events.

What makes each correct, in one line: a score is what the sheet deserves; a
verdict is final and a credential has one; a retried call runs once; progress is
what the rows say; a listing shows every row once; a revoked key dies; a bill is what was used; tenants
never meet; a call leaves all of its rows or none, and its client is told which; what
the rate limit says is left is left. PROJECT.json lists
under "hazards" where each of these is exposed, with line numbers.

## Modules

### Scoring and Marking
`SinglePoints`, `MultiPoints` are the branches of `scoreItem`, `GradePoints` the
cap on manual points, `Awarded` one turn of the loop of `scoreAttempt`, and
`ScoreAttempt` its result. A response is the sequence of the picks; a `multi` item
compares sets, as `new Set` does, and for a `single` item only the first pick
counts. Numbers: points are
integers in a unit ("ticks") in which every partial credit of the assessment is
whole (`TickAssumption`), and a score is an integer number of hundredths of a percent.
The pass mark may be finer than that, since schema and column take any number from 1 to
100: it is counted in parts of a hundredth (`Fine`), and `Reaches` compares the rounded
score with it. `RoundedPercent` is `Math.round(x * 10000) / 100` on exact rationals; that doubles
agree with exact arithmetic to a hundredth is not modelled.

`Marking` lets a sheet grow by one pick (`Blank`, `Pick`) and its constructed items be
graded and graded again (`Grade`), so that every sheet and every grading is a state, and
what one more pick or another grade does to the score is a step. `Attempts` uses the
same operators on the sheets that its requests store.

### Attempts
State: the three tables and, per request slot, `pc`, the row it is about (`on`),
what its caller sent (`body`) and what it has read (`read`). The comment at the
head of the module lists the actions of every handler. `OneWayRevoke` and
`RevokedConsistent` are the trigger and the CHECK of `004`; `OperatorUpdate` is
any UPDATE they let through, as `test/v101.test.js` tries. The points that grading
stores follow the code literally: each grade call scores with *its own* grades
only and overwrites the points of every answered item.

`AttemptView` adds GET of an attempt: `BeginView` is its first statement, `EndView`
the second one, and `Reply` what it answers if that statement runs now, so
`ViewAddsUp` speaks of every moment at which it may. A GET changes nothing and may be
followed by another.

### Idempotency and KeyedExecution
One action per statement of `begin`; `Commit` is handler, `finish` and COMMIT.
The outcome of a run is represented by the request that ran, since status and
body are data that is stored and replayed unread. `KeyedExecution` is the promise
with no transaction in it: a key runs once while it is remembered, answers are
outcomes of runs, the sweep forgets. `Promise` in `Idempotency` is the refinement
mapping (`remembered` is the outcome column, `runs` the committed requests).

### Progress
`CountLessons` and `ListLessons` are the two statements of `recomputeProgress`,
each with its own snapshot; `Visible` adds the row that the transaction itself has
inserted and not committed. `unlocking` and `attempt[a].unlockedBy` remember which
lessons were counted, to state that the exam was unlocked by them.

### Learners
`BeginCreate` and `Create` are POST: `created_at` is `now()`, the begin of the
transaction, and the row appears at its end. `BeginPatch` reads the learner,
`CheckRef` (or `RefuseRef`, the 409) looks for another holder, `Update` (or
`UpdateFails`, when the unique constraint strikes) writes. A client's traversal is
`BeginList` and one `Page` per call; `FirstOf` is ORDER BY with LIMIT, `After` the
comparison with the cursor and `PackPage` the cut of the extra row, which is
fetched to see whether there is a next page. Cursors carry the exact microseconds
(`created_text`), so a cursor is the key of a row. The other lists page in the same
way. `display_name` is left out.

### KeyCache
A lookup is three steps: arrival (cache miss), the statement's snapshot, and the
continuation that fills the cache and decides. Purge messages go to the workers
that listen when they are published; a worker subscribes some time after it has
begun to serve (`server.js` does not wait for it). `Tick` lets time pass but no
lookup outlast `MaxLookup`: the role's statement timeout is why there is such a
bound, its value is not in the repository. The time to live of the run is two ticks,
so that a key can expire while its record is cached, and the clock ends when a record
that was read before a revocation can just be used no more.

### Statements, Transactions and WithTenant
`Statements` says what a caller of `withTenant` does: a program, one statement after
another, each a SELECT that must find a row (`one`), must find none, or lists what
there is, or an INSERT. A row is named by the call and the statement that inserts it. It also
declares the state that both of the following keep: what each call runs, how far it
is, what it was shown and what became of it, and the committed rows.
`Transactions` is the promise: programs run among the rows of their tenant, and all
rows of a call appear at one moment or never.

`WithTenant` is the code. `client` is the client that a call has from the pool;
`link` is the server connection that PgBouncer has given a client, which lasts as long
as its transaction; `server` is the session there, with its setting of `app.tenant_id`,
its transaction and what that has inserted. Each query goes to the connection of the
client or, outside a transaction, to any that is free (`ServersFor`), and leaves the
session to whoever comes next. A setting made with `set_config(..., true)` ends
with the transaction and is then `''` and not NULL (`SettingAfter`), which is what the
policies' NULLIF is for (`CurrentTenant`). Steps may fail: no connection can be made,
a statement is refused (the transaction then is `failed`, and its COMMIT a rollback),
a handler throws, a connection breaks, a COMMIT is done and never acknowledged
(`unsure`), the worker dies. An idle client's broken connection makes the pool emit
an error, for which `db.js` has no listener: that too is the death of the worker.
`Spent` and `Discard` let a call that inserted nothing be made again, so that one name
serves for the lookup of a key and the touch of `last_used_at` after it. `Promise` is
the refinement mapping: `made` is what is pending at the other end of the call's
connection.

### Requests
`handle()` of an authenticated route on that pool. A request may find its key in the
cache or look it up (one call of `withTenant`), then touches `last_used_at` in a call
that nobody waits for, is turned away or runs its handler (another call), is metered
and answered. `Flush` is the timer's INSERT of `usage.js`. What the key cache, the
rate limit and the idempotency key decide is modelled in their own modules; here each
may decide anything.

### Catalog
The programs of the authoring routes, on `Transactions`: every module, lesson, item and
citation of a course, every rank of a scheme. A whole is made by one call and shown by
several SELECTs, between which others commit. `Parts` are the loops over what a body
lists, nothing or any number; a position that repeats is refused by the unique index,
and an item without its answer key by the handler when the loop comes to it. What is
decided before the transaction (the schema, duplicate positions of ranks) is a call that
never begins. A course's scheme and rank are taken from the body without a lookup
(`refs`) and are held by foreign keys alone, which `KeysHeld` checks at the INSERT as
PostgreSQL does, in whatever tenant; so `OwnersExist` says of these two that they are
there, and of everything else that it is there in the same tenant. `IsRoute(c, p)` says
that `p` is a program that a call of these routes can run, over whatever other calls'
rows it names and with bodies of any length. Beside them run lookups of keys (`OnKey`) and batches of usage events
(`UsageBatch`), which touch no table of theirs; `CatalogAssumption` says that the calls
run no other program. `WithTenant` implements `Transactions` (`KeepsThePromise`), so what
is shown of these programs on `Transactions` holds of them on the pool; that is proved
too (`OwnersOnThePool`, `WholesOnThePool`).

### RateLimit
One key. `Arrive` reads the clock, `Exec` is the MULTI and what `check` makes of its
result; other calls, and the clock, may come between. Quotients are multiplied out by
the window `W`, so all numbers are integers. `Before` is the bucket before, which
Redis forgets `Expiry` after it was last counted in. `obeys` chooses between any
number of clients and one that waits for Retry-After. `admitted` lists the calls that were
allowed, each with the time it had read and the count that its INCR returned.

### Usage
A flush takes the whole buffer (`splice`) and then inserts tenant by tenant, each
batch stored or dropped; flushes of one worker overlap because the timer does not
wait. `Exit` waits for the last flush only, as `shutdown` does. A run of the
roll-up aggregates, reads, and pushes row after row, and can end anywhere. The
billing service is external: it ignores an event whose identifier it has, which is
what `usage_rollup.js` says of it, without an expiry of identifiers. `made` remembers
the events that were recorded, each with the day on which its call was served; the row
is dated by the transaction of its flush, so that a call served just before midnight may
count on the day after. `NeverOverbilled` is therefore about days up to some day: the
meters have no more calls for them than had been served by then, which is also to say
that no call is billed twice. `MaxRuns` bounds the runs of the roll-up in all.

## Runs

| Run | Instance | Shows |
|---|---|---|
| `scoring` | 3 items (one of each kind), 3 options, up to 2 picks (`single`) and 3 (`multi`), grades 0..3 of 2 points, pass mark 66.668 | `ScoreInRange`, `PassMarkHonoured`, `PicksAreMonotone`, `GradesAreMonotone` |
| `attempts` | 3 slots and a GET, 1 attempt, 2 credentials, an item to grade and one to answer | `ViewAddsUp`, five safety and action properties of attempts, `RevocationPermanent` |
| `attempts_credential` | same | `CredentialBacked` fails (finding) |
| `idempotency` | 3 requests, with and without a key, 2 fingerprints | `AtMostOnce`, `OneOutcomePerKey`, `AnswersAreHonest`, `EveryRequestAnswered`, `KeepsPromise` |
| `progress` | 3 slots, 2 lessons, 1 enrollment, cap 1 | `ProgressCoherent`, `ExamUnlockedByCompletion`, `MaxAttemptsUnlessRaced` |
| `learners` | 2 calls, 1 reader, 3 ids and external_refs, pages of 1 or 2, clock 0..1 | `NoneListedTwice`, `AllPresentAreListed`, `ConflictIs409UnlessTaken` |
| `key_cache` | 2 workers, 2 slots, 1 key (expiring at 1 or never), clock 0..3, TTL 2, lookup 1 | `ExpiryHonoured`, `RevocationIsBounded`, `PurgedKeyIsDeadUnlessRaced` |
| `usage` | 1 worker, 2 flushes, 2 tenants, 2 calls, 2 days, 2 runs of the roll-up, also at once | `EventsConserved`, `NeverOverbilled`, `PushedIsBilled`, `BillMatchesUsage` |
| `usage_learners` | 1 tenant, a learner with two ids | `ActiveLearnersAreLearners` fails (finding) |
| `requests` | 1 request of up to 3 transactions (POST of a scheme, 3 statements), 1 flush of another tenant, 2 clients, 2 server connections | `Isolation`, `AllOrNothing`, `AnswerIsTrue`, `EveryRequestAnswered`, `KeepsPromise` |
| `rate_limit` | window 3, limit 2, expiry 7, delay 1, 2 calls at a time, clock 0..8 | `TypeOK`, `WithinLimit`, `PromiseKept`, `ObedientIsServed` |
| `catalog` | 4 calls of 2 tenants, each with any of its programs; wholes of 0 to 2 parts, repeated positions, lessons with and without a module, courses with a scheme and a rank of either tenant | `ShownWhole`, `OwnersExist` |

Why the bounds are enough. Every race found or excluded here involves two calls
on one row; the third slot lets an observer, an issue call or an operator come
between them. One attempt, one key, one enrollment suffice where rows of different
attempts, keys or enrollments never meet in a statement, as is the case in these
handlers; the proofs cover the rest where there is one. Two credentials are one
more than an attempt may have, two attempt rows one more than the cap. A clock of
three is as long as a lookup plus the time to live, so an entry that lives a tick
too long is seen. Two days are needed for a day that is over. Two runs of the roll-up
can overlap, and one can do again what the other left; workers share no buffer and no
flush, so that one worker's overlapping flushes meet all there is to meet but its crash
beside another's flush, and that, like a third run, is left to the theorems.
Three learners are one more than the larger page, so a listing has up to three
pages; two times are enough for a row that commits late to sort before the cursor,
and a second call for a value to be given away between a check and an update.
In `requests` two server connections and three calls are enough for a connection to be
left by one tenant and found by the other, with a call without tenant between them, and
two clients for three calls to wait for one another; a program of a check and two
INSERTs can fail before, between and after its writes. A whole of two parts has one
that may be missing when the other is shown, and positions that may repeat; more parts
are left to the theorems. The percentages of `scoring` are sixths: 4/6 is 66.666... %,
below the pass mark of 66.668, and meets it only because it is rounded to 66.67. Three windows (clock 0..8 at W = 3) have a bucket before and
one after; `MaxCount` is twice the limit, so that refused calls fill a bucket above
it and weigh on the next.
The expiry is two windows and ten seconds, and `MaxDelay` is at most what it exceeds
two windows by (1 of 7 - 6): a bucket is still there whenever it can be the one before.

Deadlock is checked where the system always has a step (`Progress`, `Learners`,
`KeyCache`, `Usage`) and switched off in `Attempts`, `Idempotency`, `Requests`,
`Catalog` and `RateLimit`, whose bounded rows, requests, calls and clock can be used up.

Every property of a passing run has a mutant: a changed definition, kept beside
the original and marked `Mutant:`, under which TLC finds that property violated.

## Fairness

`Idempotency` states weak fairness of `Advance(r)`, the
steps that the event loop and the database take by themselves once a request has
arrived (begin, insert, look up, commit, respond). Nothing has to arrive, fail, be
swept or meet a holder. It is justified because a promise that can settle is
settled by the event loop and a statement that can run is run by the database; a
waiting INSERT is woken when the holder's transaction ends, and the holder has no
wait of its own, so weak fairness is enough. The number of requests is bounded, so
the run does not speak of starvation by an endless stream of new requests.

`Requests` states weak fairness of `RequestStep(r)`, what the event loop does with a
request, and of `Proceeds(c)`, the next step of a call that has all it waits for: a
client of the pool, a server connection, the name another transaction has inserted.
No failure is assumed to happen, and none to stay away. pg's pool and PgBouncer serve
waiters in order, and so do PostgreSQL's locks; in the run no call can be passed for
ever, because calls are finitely many, so weak fairness suffices. What the run shows is
that nothing waits for itself: a call holds a client only while it has one transaction
of its own to finish, a request never holds two, and a client comes back however its
call ends.

## Findings

The first two are runs that expect a violation, with the quoted promise in
PROJECT.json.

1. Overlapping grade calls: the later one overwrites a verdict on which a
   credential was issued (`routes.js:895`). *A credential without a pass.*
2. `active_learners` counts enrollment and attempt ids, not learners
   (`server.js:240`).

The others have no run of their own, because a property of a passing run excludes
exactly that case, and nothing more.

3. An answers call that overlaps the submit changes the answers of a scored
   attempt (`routes.js:565`; `AnswersFrozenUnlessRaced`), although "Record answers on an
   in-progress attempt" (`routes.js:561`) says otherwise.
4. A lookup that straddles a revocation fills the cache after the purge; the key
   lives for another time to live on that worker (`auth.js:56`;
   `PurgedKeyIsDeadUnlessRaced` and, in any case, `RevocationIsBounded`), although
   SECURITY.md:47-49 says that it "dies immediately across all workers".
5. Two overlapping starts exceed `max_attempts` (`routes.js:544`,
   `MaxAttemptsUnlessRaced`).
6. A PATCH whose value another call takes between its check and its update is
   answered with a 500 where 409 is documented (`routes.js:286-295`,
   `ConflictIs409UnlessTaken`).
7. GET of an attempt may show points beside "in_progress": they were stored between
   its two statements (`routes.js:604`; `ViewAddsUp` speaks of scored attempts only).

"in flight -> 409" (`idempotency.js:6`, `openapi.js:54`) is never given: the row of a
request in flight is not committed, so a duplicate waits in its INSERT and is then
served (`MeetHolder`), which is more than is documented. With a limit of one call per
window a client that obeys Retry-After may be refused for ever, because its refused
call fills the bucket that weighs on the next one; `ObedientIsServed` begins at a limit
of two, and the limits in the repository are 30 and more but for a test's 5. A window
that begins within a bucket may see nearly twice the limit, and twice if two calls are
counted in the wrong order (`WithinLimit`). README.md:85 says that "every response
carries `X-RateLimit-*` headers"; one to a request that is turned away before the limit
is checked has none. A listing may lack a row that was committed while it
was under way, with a `created_at` before the cursor; `AllPresentAreListed` promises
only the rows there were when it began.

## Proofs

TLC checks the instances above; the theorems below hold for every value of the
constants, and TLAPS checks them (`tlapm <Module>Proofs.tla`). Each theorem about
a state or a step follows from an inductive invariant: the property alone is not
inductive, because what may go wrong is decided by what a request has read before.
The strengthening is a named definition at the end of the component's module (for
`WithTenant`, `Requests`, `RateLimit` and `Marking`: in the module of the proofs), so
that it can also be added to an INVARIANTS line and be model-checked. The theorems about
`Catalog` stand in `RequestsProofs`, beside those about the promise that it rests on;
`OwnersAreThere` and `WholesAreShown` are about `TxSpec`, and only they and what follows
from them use `CatalogAssumption`.

| Module | Theorem | Property | Rests on |
|---|---|---|---|
| `AttemptsProofs` | `TypeCorrect` | `TypeOK` | itself |
| | `CredentialKeepsItsPass` | `CredentialBackedUnlessRaced` | `LoneScoring` |
| | `ScoresAreFinal` | `ScoreIsFinal` | `LoneScoring` |
| | `OneCredentialPerAttempt` | `OneCredentialUnlessRaced` | `LoneIssuing` |
| | `SubmittedAnswersStay` | `AnswersFrozenUnlessRaced` | `LoneAnswering` |
| | `StoredScoreIsRight` | `ScoreOfTheStoredSheet` | `LoneScoring`, `LoneAnswering`, `ReadsAreCurrent` |
| | `RevocationIsPermanent` | `RevocationPermanent` | `TypeOK` |
| | `ShownScoreAddsUp` | `ViewAddsUp` | `ViewCurrent` and what `StoredScoreIsRight` rests on |
| | `ScoresAreInRange` | `ScoreInRange` | `MarkOK`, `AwardInRange`, `SumsGrow`, `Rounded` |
| | `MarkDecides` | `PassMarkHonoured` | `MarkOK`, `RoundedReaches`, `HundredthsReach` |
| | `PicksMonotone` | `PicksAreMonotone` | `MarkOK`, `MultiPointsGrow` |
| | `GradesMonotone` | `GradesAreMonotone` | `MarkOK`, `SumsGrow`, `RoundedGrows` |
| `IdempotencyProofs` | `TypeCorrect` | `TypeOK` | itself |
| | `EffectAtMostOnce` | `AtMostOnce` | `HoldersOK`, `RowsOK` |
| | `HonestAnswers` | `AnswersAreHonest` | itself, `RowsOK` |
| | `OneOutcome` | `OneOutcomePerKey` | `AnswersAreHonest`, `RowsOK` |
| | `KeepsThePromise` | `KeepsPromise` | `HoldersOK`, `RowsOK` |
| `ProgressProofs` | `TypeCorrect` | `TypeOK` | itself |
| | `RepliesAreCoherent` | `ProgressCoherent` | `ReadsOK` |
| | `ExamsAreUnlocked` | `ExamUnlockedByCompletion` | `ReadsOK` |
| | `AttemptCapKept` | `MaxAttemptsUnlessRaced` | `LoneStart` |
| `LearnersProofs` | `TypeCorrect` | `TypeOK` | itself |
| | `NoneTwice` | `NoneListedTwice` | `CursorOK` |
| | `NoneMissed` | `AllPresentAreListed` | `CursorOK` |
| | `ConflictsAreRaces` | `ConflictIs409UnlessTaken` | `CheckedRefIsFree`, `FailedHaveEnded` |
| `KeyCacheProofs` | `TypeCorrect` | `TypeOK` | `CopiesOK` |
| | `ExpiredKeysAreRefused` | `ExpiryHonoured` | `CopiesOK` |
| | `RevokedKeysDie` | `RevocationIsBounded` | `CopiesOK`, `AcceptedOK` |
| | `PurgedKeysStayDead` | `PurgedKeyIsDeadUnlessRaced` | `CopiesOK`, `PurgesOK`, `PurgedOK` |
| `UsageProofs` | `TypeCorrect` | `TypeOK` | `EventsMade`, `RunsOK` |
| | `NothingMeteredTwice` | `EventsConserved` | `EventsMade` |
| | `PushedDaysAreBilled` | `PushedIsBilled` | `RunsOK` |
| | `BilledOnceAndNoMore` | `NeverOverbilled` | `CountsOK`, `DatesOK`, `EventsConserved` |
| | `BillIsUsage` | `BillMatchesUsage` | `SettledOK`, `CopiesOK` |
| `RequestsProofs` | `TypeCorrect` | `TypeOK` | `PoolInv` |
| | `TenantsNeverMeet` | `Isolation` | `PoolInv` |
| | `NeverInPart` | `AllOrNothing` | `PoolInv` |
| | `ToldTheTruth` | `AnswerIsTrue` | `PoolInv`, `StagesOK`, `ReqsOK` |
| | `KeepsThePromise` | `KeepsPromise` | `PoolInv` |
| | `OwnersAreThere` | `OwnersExist` | `StoredOK`, `ShownOK`, `ProgramOK` |
| | `WholesAreShown` | `ShownWhole` | `StoredOK`, `ShownOK`, `ProgramOK` |
| | `OwnersOnThePool` | `OwnersExist` | `KeepsThePromise`, `OwnersAreThere` |
| | `WholesOnThePool` | `ShownWhole` | `KeepsThePromise`, `WholesAreShown` |
| `RateLimitProofs` | `TypeCorrect` | `TypeOK` | itself |
| | `RemainingIsKept` | `PromiseKept` | `LimitInv` |
| | `PatienceIsServed` | `ObedientIsServed` | `LimitInv` |
| | `AdmissionsAreLimited` | `WithinLimit` | `LimitInv`, `AdmittedOK` |

The arguments in short:

* *Attempts.* While no two calls of a kind have overlapped on an attempt, one call
  at most is between its read and its write (`Lone...`), and what it has read is
  what is stored (`ReadsAreCurrent`). So the decision is still right when it is
  written. `raced` only grows, and it grows at the begin of a call: a call that
  begins next to another is excused from then on. A scored attempt is therefore still
  what a GET has read of it when the points are read (`ViewCurrent`).
* *Scoring.* The library's sum of a function is a CHOOSE of a recursive function over
  the subsets of its domain. Such a function exists and is unique (`SomeAddsUp`,
  `AddsUpAlike`): a subset for which this fails could be taken minimal (`LeastSubset`),
  and it is not. So a sum may be taken one index after the other (`SumOneByOne`), and
  larger summands have a larger sum (`SumsGrow`). An item earns between nothing and its
  points, because the picks in the key are no more than the key; the score is then
  between 0 and 100 %, and rounding is monotone and off by half a hundredth at most.
  A score is a whole number of hundredths, so it reaches the pass mark exactly when it
  reaches the next number of hundredths that is no less (`HundredthsReach`).
* *Idempotency.* A request that has inserted the key holds it until it commits or
  rolls back (`HoldersOK`), and a row that is not swept names the one request that
  ran (`RowsOK`). The refinement maps the COMMIT of a holder to a run, the sweep to
  a forgetting, an answer to an answer and everything else to a stutter. An answer is
  given from one's own committed run or from a row, and rows are the memory of committed
  runs, so answers are honest; that they agree follows from the run being the only one.
* *Progress.* Lessons are never unpublished and completions never removed, so what
  the first snapshot counted the second still has (`ReadsOK`). Counting uses the
  library's facts about finite sets.
* *Learners.* The order of the list is strict and transitive on the keys of rows,
  and no step changes the key of a row. So a reader stands between what it has seen
  and what it has not: nothing seen is after its cursor, and everything that was
  there at the beginning and is not after the cursor has been seen (`CursorOK`). A
  value that was free when a PATCH checked it is free at its update unless it was
  given to another learner (`CheckedRefIsFree`).
* *KeyCache.* Every copy of a row, in a lookup's hands or in a cache, either agrees
  with the row or is younger than the revocation plus a lookup (`CopiesOK`). Expiry
  never changes, so it needs no bound.
* *Usage.* Every event there is belongs to a call that was made (`EventsMade`), so
  the events of a new call are new, and every other step moves events from one
  place to the next. What a run of the roll-up has pushed stays billed, which it
  relies on when it marks the day (`RunsOK`). The rows dated a day are only ever added
  to: a count of those there are, or were when a run copied it, is no more than all there
  ever were (`CountsOK`). A row is dated no earlier than its call (`DatesOK`) and no two
  rows are of one event (`EventsConserved`), so what is billed for the days up to any day
  can be mapped one to one into the calls served by then (`BilledCallsWereMade`). A day that is over and has no batch on its way gains no
  more rows, and if it has lost some to the sweep an aggregation of it makes it `early`:
  so every count of a day that is not early is the count of all the rows it ever had,
  and copies of it agree (`SettledOK`, `CopiesOK`).
* *Tenants and transactions* (`PoolInv`). A client belongs to one call, which is
  between its connect and its release (`ClientsOK`); a server connection to one client
  whose call is in its transaction (`LinksOK`); so a session is either free, with no
  transaction, no rows and no tenant, or it is in the transaction of one call, in that
  call's tenant, with exactly the rows of the statements it has done (`SessionsOK`). The
  rows that a COMMIT adds are then all rows of the call, and no other step adds any
  (`CallsOK`, `RowsOK`). A free session may hold NULL or `''`, and the proof needs both
  to mean no tenant. For the refinement every action maps to the action of that name
  or, when it only moves connections, to a stutter.
* *Requests.* The handler's call begins once, and a request is metered and answered
  only when that call is done (`StagesOK`); what the call did is `RowsOK`.
* *Rate limit.* What is left of the limit at a time only grows while no call is
  counted and time goes on, since the bucket before weighs less and less and, at the
  boundary, the current bucket takes its place at full weight; and a counted call takes
  one (`PromiseOK`). The counts that it rests on are still there, because a bucket
  outlives the window in which it can be the one before. A refused client that comes
  back in the next bucket may find the bucket before above the limit, through its own
  refused calls; the bucket after that has one call before it (`ObedientOK`). Of the
  calls of one bucket no two have the same number and none a number above the limit, so
  they are no more than the limit; a window meets two buckets, and the last number of the
  second is only given when the first is empty, unless calls raced (`AdmittedOK`).
* *Authoring.* Of the programs the proof uses four facts (`ProgramOK`, shown of every
  route and every body by `RoutesOK`): what an INSERT refers to was inserted or looked up
  before, a course's scheme and rank aside, parts are parts of their wholes, SELECTs come before INSERTs, and a whole is read before its
  parts. Rows are never deleted and those of a call appear at once, so whoever has seen
  the whole sees its parts in a later snapshot (`ShownOK`). A program of any length is a
  head of one to three statements and the loop over its parts (`HeadOK`, `WithParts`).
  What foreign keys hold was there at the INSERT, and stays (`KeysStay`).
* *Authoring on the pool.* `Requests` says nothing of `made`, the variable that
  `Transactions` has beside those of the pool. So a behaviour of `Spec` may be taken to
  have there what the refinement mapping says (`PoolMade`): it then is one of `TxSpec`
  (`PoolRunsTransactions`, step by step from `KeepsThePromise`), and the two theorems
  hold of the rows of the pool, which do not depend on `made`.

Assumptions. Beside the ranges of the constants (`TTL` positive, a clock of natural
numbers, finite sets where something is counted), the modules assume that `NULL` is
no row, number, name or status; TLC evaluates all of them in the runs.
`AssessmentAssumption` and `RequestAssumption` say that keys and responses are finite
sequences, grades natural numbers, and the pass mark any fraction from 1 to 100, which
is what the schemas of the calls ask for (grades in ticks); `CatalogAssumption`, that a
program is one of an authoring route (`IsRoute`), a lookup of a key or a batch of usage
events; that a score is not `NULL` is proved.

The programs of `Statements` are of any length, but only calls with a tenant insert
(`StatementsAssumption`), and a lookup or touch of a key has no tenant
(`RequestsAssumption`). `RateLimitAssumption` bounds the delay of a MULTI by what the
expiry exceeds two windows by.

Only model-checked: `EveryRequestAnswered`, in `Idempotency` and in `Requests`. It is a
liveness property under weak fairness, whose proof would need ENABLED, which is out of
the prover's reach. Every safety property of a run is also a theorem. Induction over data
is out of reach as a rule, since the library's induction theorems take an operator as a
parameter; for the finite sums of `Scoring` the least counterexample takes its place.

## What the models leave out

* Numbers are exact (no rounding error of doubles); see `Scoring`.
* Outside `Usage`, `WithTenant`, `Requests` and `Catalog` the handlers see one tenant's
  rows: that this is all they see is `Isolation`.
* The grants and the superuser check of `roles.sql`; tables without policies (`tenant`,
  `api_key`), which only calls without a tenant read; functions that run as their owner
  (`lc_verify`).
* Time is a small counter shared by all processes (`KeyCache`, `Usage`); skew
  between the hosts of the workers and the database is not modelled.
* The expiry of Idempotency-Key rows is the sweep alone, as in the code; the
  fingerprint is an opaque value, so a collision of hashes is not modelled.
* Reads that change nothing and have one statement (lists other than that of the
  learners, verification) and the conversions around them (validation, problem pages,
  OpenAPI, configuration).
* POST of a competency tag (one INSERT under a unique constraint) and of a rank's meta
  (one UPDATE of a value nobody interprets).
* The meta endpoints of `server.js` and public verification, which is one SELECT behind
  the same `check()` with another key; reading and parsing a body.
* Rate limit: the clocks of several hosts (the workers run on one), rounding of doubles,
  a Redis that loses its counters.
* Migrations, roles and seeds, which run alone; the reasons are in PROJECT.json under
  "components".
* An expiry of event identifiers at the billing service, and a failure of the
  service that lasts.

## Plan

In the order of what they protect; (1) extends the model, (2) the proofs.

1. Routing and public verification in `Requests`: a request without a key whose rate
   limit is that of an address, and the graceful stop of a worker with requests under
   way (`Usage` has what it does to the events).
2. A replay in `Requests`: `Idempotency`'s three statements as the first statements of a
   handler's program, so that `AnswerIsTrue` covers replayed answers.
3. `tenant.js:48`: keys of tenants whose slugs share their first characters, in
   `KeyCache` with two keys.

Runs are kept few: a component's run replaces a violation run that is covered by an
`UnlessRaced` counterpart.
