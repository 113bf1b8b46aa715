# VeriLearn backend: specifications and proofs

VeriLearn is a NestJS service for courses: users, courses with lessons and
enrollments, credentials recorded on the Stellar ledger, search, video, mail.
These modules model the parts of it that keep state and whose requests can
disturb each other. Paths below are relative to the repository.

To check a run: `tlc -config <run>.cfg <module>`; to check the proofs:
`tlapm <module>.tla`. `PROJECT.json` lists the runs, maps each definition to
the lines it models, and names for each property a mutation of the model that
breaks it.

## The system

| component | state | operations | correct when |
| --- | --- | --- | --- |
| Courses service (`src/courses/courses.service.ts`) | tables `courses`, `lessons`, `enrollments` in PostgreSQL | list, get, create, update, remove; add, update, remove lesson; enroll; complete | only owners change a course; lessons stay in their course; counts and enrollments agree; nothing removed comes back |
| Course cache (Redis through `cache-manager`) | `courses:<id>`, `courses:all:<published>:<page>:<limit>`, each with a TTL of 300 s | get, set, del, `store.keys` | an entry equals the database, or a deletion of it is on its way, or its TTL ends it |
| Connection pool breaker (`src/database/connection-pool.service.ts`) | state, failure count, `nextAttempt` | `execute`, `onSuccess`, `onFailure` | closed exactly below the threshold; failing calls keep it shut for the window; recovers |
| Blockchain (`src/blockchain/blockchain.service.ts`) | table `credentials`, hash in the enrollment; the account and ledger behind Horizon | issue, verify, list, balance, key pair | what is verified is on the ledger; what was applied is recorded |
| Users (`src/users`) | table `users` | profile, password, MFA secret, remove | an email is unique; what was answered holds, handlers do not undo each other |
| Auth (`src/auth`) | reset and verification tokens in the user row; JWTs hold role and email | register, login, MFA, refresh, forgot and reset password, verify | a spent token or password is refused; a secret that was set lets its owner in |
| Search (`src/search`) | the Elasticsearch index | index, delete, search | the index follows the table |
| Video (`src/video-streaming`) | none; signs and checks tokens, reads files by byte range | token, stream | a range answers the bytes asked for, however often the download resumes |
| Email, monitoring, health | none read back | send, log, check | |

Requests interact through the database rows, the cache keys and the Stellar
account; the service keeps no lock, and no handler opens a transaction of its
own. What follows a response (`indexDocument`, completion mail, audit rows) is
not awaited. Every `await` is a point where any other request, in this process
or another, may run. That is the source of nearly all hazards: an entity taken
from the cache is saved several calls later; a value read before an `await` is
checked after it; a write and the deletion of its cache key are two calls, and
the second may fail. `PROJECT.json` lists the hazards at their lines with the
properties that watch them.

## The models

### Courses.tla, CoursesProps.tla

One process per request, `pc[r]` naming the call it is about to make. An action
is one awaited call with the local code up to the next one:

| source | actions |
| --- | --- |
| `findById` (61-68): `cache.get`, `findOne`, `cache.set` | `FindById` (with the caller's guards), `ReadCourse`, `Fill` |
| `findAll` (45-59) | `ListCourses`, `ReadList`, `Fill` |
| `create` | `CreateCourse`, `InsertCourse`, `Scan`, `Del` |
| `update` | `UpdateCourse`, `Reload`, `Save`, `Del`, `Scan` |
| `remove` | `RemoveCourse`, `Delete`, `Del`, `Scan` |
| `addLesson`, `updateLesson`, `removeLesson` | the action of that name, `InsertLesson` or `FindLesson` and `ReloadLesson`, `SaveLesson` or `DeleteLesson`, `Del` |
| `enroll` | `Enroll`, `FindEnrollment`, `Increment`, `Del`, `InsertEnrollment` |
| a call that rejects, a process that dies | `Fail` |
| the TTL, eviction | `Expire` |

`repository.save` is two steps, as TypeORM performs it: a SELECT of what is
there (`Reload`), then one transaction that writes only what differs from what
was selected (`Save`, `SaveLesson`). So a save of an older entity sets back the
columns in which it differs from the row, leaves the others alone, INSERTs a row
it did not find, INSERTs lessons the entity holds and the row lacks, and fails
on lessons the row has and the entity lacks, whose `courseId` may not be null.
`Promise.all([del, invalidateCourseListCache()])` is the set `pend[r]` of
deletions still to make, in any order; the key scan replaces itself by a
deletion of each list key it finds.

`Migrated` chooses the schema: by the migration (UNIQUE and foreign keys on
enrollments, lessons removed with their course) or by `synchronize` (none of
these: the entities do not declare them, and a course with lessons cannot be
removed, for `repository.remove` does not cascade to them). The sample course may
have a lesson at start or none.
`completeCourse` looks the course up after it has answered; in this module that
lookup is a `get`.

Data: a course keeps title, status, instructor and count, a lesson its title;
other columns are written and read with the title. A list is its first page
without counts. A uuid is named after the request that inserted the row.
`raced`, `clobbered` and `bumped` are history: no action reads them. They name
the two known weaknesses, so that the invariants speak of everything else:
`raced` has the keys filled with a value that was already stale or whose
deletion was lost, `clobbered` the courses whose count a save wrote back.

### CourseBoard.tla

What clients of the courses API are promised: no cache, one atomic step per
operation. `BoardSpec` in CoursesProps substitutes the view of the tables for
the board, and the requests that were counted for the enrolled pairs. A read is
a stutter of the board, so `ReadsCurrent` says what it answers, and
`CountsEnrolled` that the count shown is the number of enrollment rows. These
three are the promise the service keeps while requests do not overlap; what it
keeps when they do is the rest of CoursesProps.

### CircuitBreaker.tla

`execute` is two steps, before and after `await fn()`, for each of a set of
overlapping calls; a call inside the window is a step that throws (`Refuse`).
Time is what is left until `nextAttempt`, and any amount of it may pass at once.
The database goes up and down at will.

### Credentials.tla

`completeCourse` and `issueCredential` on one enrollment row, with the network
they submit to. A learner is a user with a course. A transaction carries the
number after the one its request loaded (`loadAccount`) and is applied if that
is the account's next number (`Apply`), or dropped (`Drop`), possibly after its
request has timed out and recorded an unverified credential (`Throw`, `Catch`).
The mail that follows a completion is sent some time after the response, or
never. `struck` is history: the requests that met a failure.

The horizon and account behaviour is external: it is modelled from what the
service relies on, namely that a sequence number is used once and that an
answered submission was applied.

### SearchIndex.tla

Extends the courses service by what `create`, `update` and `remove` tell
Elasticsearch once their deletions are done (`courses.service.ts:76` and its
likes). Every step of the service is taken together with `Track`, which notes
the entity `save` returned and, when the handler answers, puts its call under
way. `Deliver` and `Lose` are the arrival and the swallowed error of
`indexDocument` and `deleteDocument`, in any order and at any time. A request
that fails before it answers never makes its call: in the code the call stands
after the `await` of the deletions. `strayed` is history: the courses whose
index a failure, or an overlap of two writes, may have left behind.

### Accounts.tla

One process per request over the table `users`, an action per awaited query:

| source | actions |
| --- | --- |
| `register` (`auth.service.ts`) and `create` (`users.service.ts`) | `Register`, `Insert` |
| `validateUser` and `login` | `Login` |
| `verifyMfaToken` and `verifyMfaAndLogin` | `VerifyMfa`, `ReadAgain` |
| `refreshToken` | `Refresh` |
| `forgotPassword`, `resetPassword`, `verifyEmail`: a lookup, then one UPDATE | the action of that name, `Set` |
| `update`, `changePassword`, `generateMfaSecret`, `enableMfa`, `disableMfa`: read, change, `repo.save` | the action of that name, `Reload`, `Save` |
| `remove` | `Remove`, `Delete` |
| the hour of a reset token is over | `Lapse` |

`Save` is the save of Courses: it writes the columns in which the entity differs
from the row its own SELECT found, and INSERTs the entity where it found none.
Passwords, tokens and secrets are named after the request that generated them,
so a client that presents a name presents any secret there ever was, its own or
not. A verification link may lack its token, which is not validated: TypeORM takes
an undefined condition for none, and some account is found (`FindOne`). `crossed` is history: the columns a save wrote to, or over, while they were
not what its handler had read. It names the weakness of the read-modify-write
handlers; the properties speak of all other columns.

### Video.tla

The service keeps no state, so the state is one player's fetch: the range it
asked for, the next byte it lacks, the answer that is arriving and what is left
of its token. `Last`, `Length`, `Unreadable` and `Byte` are the arithmetic of
`streamRange` (`video-streaming.service.ts:96`); `NaN` is what `parseInt` makes
of a missing number. Token expiry, broken connections and refusals happen at any
point, and the player resumes from the first byte it lacks.

## The runs

| run | instance | shows |
| --- | --- | --- |
| CoursesEnroll | 3 requests of an instructor and a student, one title, failures | `TypeOK`, `CacheCoherent`, `CountAccounted`, `EnrollmentKept`, `OnlyOwnersChange` while reads, status updates, removals and enrollments overlap |
| CoursesLessons | 3 requests, 2 at a time, two titles | `LessonsStayHome`, `CacheCoherent`, `OnlyOwnersChange` with two courses and lesson requests against saves |
| CoursesSerial | 3 requests of instructor, student and admin, 1 at a time, all operations, two titles | `BoardSpec`, `ReadsCurrent`, `CountsEnrolled`: the service implements the board, and without overlap the cache cannot be observed; `AdmittedOnlyPublished`, `RemovedStaysRemoved`, which overlap violates |
| CoursesLive (module MCSearch) | 2 requests of one owner, all operations, failures, synchronized schema, the search index | `CacheCoherent` for lists too, `IndexTypeOK`, `IndexFollows`; `StaleEntryDeleted` (no expiry is assumed), `EveryRequestAnswered`, `IndexCatchesUp` |
| CircuitBreaker | 3 calls, threshold 5, window of 3 ticks, of which any number passes at once | `TypeOK`, `BreakerConsistent`, `ShieldedUntilSuccess`, `WindowEnds`, `Recovers` |
| Credentials | 3 requests, 2 learners, failures | `TypeOK`, `VerifiedOnLedger`, `AnsweredIsRecorded`, `MailIsTrue`, `RefusedOnlyByOverlap`, `AppliedIsRecorded` |
| Accounts | 3 requests of any operation, 2 addresses, failures | `TypeOK`, `UniqueEmail`, `AnsweredWritesHold`, `EnabledHasSecret`, `SpentIsRefused`, `AnsweredSecretsWork` |
| Video | files of 1 to 7 bytes, an open range of 3, every range up to 2 bytes past the file | `TypeOK`, `Assembled`, `LengthHonest`, `FetchCompletes` |
| CoursesStaleAdmission | as CoursesEnroll, no removals or failures | violated: `AdmittedOnlyPublished` |
| CoursesResurrect | as CoursesEnroll, no failures | violated: `RemovedStaysRemoved` |
| CircuitBreakerWindow | as CircuitBreaker | violated: `OpenForTheWindow` |
| CredentialsHash | 3 requests, 1 learner, no failures | violated: `HashIsKept` |

**Bounds.** Races here need two writers and a reader whose fill falls between
them, or two writers and the value one of them held: three requests. A request
is used once, so three requests also give every sequence of three operations,
among them create, add lesson, update. CoursesLessons and CoursesLive have two
requests at a time, because a lesson race has a lesson request and a save;
CoursesLessons leaves out failures, which CoursesEnroll and CoursesLive have.
Two titles are enough to tell an old value from a new one; statuses are all
three. The sample course starts in each status (`StartStatuses`), so an enrollment is
possible without an update before it; in CoursesSerial and CoursesLessons it is
published, as the seed leaves it, and in CoursesSerial updates archive it. `CountCap` is one above the threshold: the code
compares the count with the threshold and resets it. With three calls at most
three failures can settle late, fewer than the threshold of five, so the window
is reached through several rounds. Requests are interchangeable where they name
uuids, and so are titles where both can be given; `SYMMETRY` uses that in the
runs of safety and refinement, and no run of liveness has symmetry.

Three requests are enough in Accounts too: a handler that read, a writer that
changes the row before or after its SELECT, and the request that meets the
result. The account at start is in every state a registered account can be in:
with a reset link or without, the second factor not set up, in setup, or on. Two
addresses let a removed account return while its address has a new owner. The
search index needs two writes of one course and their two calls: two requests.
In Video an open range adds 2 bytes instead of 2^20, so a file of seven bytes
takes three answers, the last of which ends at the end of the file (first + 2,
exactly the last byte, and past it all occur); a token lives for 2 ticks, so it
can expire within a body, between two, and before the first.

**Deadlock.** Requests run out and a fetch comes to its end, so all runs but
those of the breaker say `CHECK_DEADLOCK FALSE`. The breaker runs check
deadlock.

**Fairness.** `WF(Serve(r))`: a promise settles, or rejects, and Node runs what
waits for it. None is assumed of `Expire`: what the TTL would end anyway is not
counted for the deletions. In the breaker: time
passes, calls settle (`WF(Tick)`, `WF(Settle(c))`), and for `BusySpec` callers
keep calling (`WF(Start(c))`), without which an open breaker rightly stays open:
it is a call that makes it half open. Refused calls are not fair; they may come
at any time and must not keep the window from ending. In SearchIndex each step of the service
includes `Track`, and a call to Elasticsearch arrives or fails
(`WF(Deliver(r) \/ Lose(r))`: the client has a timeout). In Video the player
goes on (`WF`), and it is strongly fair that it asks while some token is valid
and that a byte arrives on some connection: tokens and connections may fail again
and again, but not each time before the first byte. Without the second a
connection could always break at once, which no server can help. No fairness is
assumed of failures, arrivals, expiry or outages.

## What the checks found

Each of these is a run above; the README, test or comment it departs from is
quoted in `PROJECT.json`.

1. *A stale admission.* A miss reads a published course; the course is archived
   and its key deleted; the miss then stores what it read. For the rest of the
   TTL enrollments are admitted to an archived course.
2. *A removed course returns.* `update` holds the entity across its save; if the
   row is removed meanwhile, `save` inserts it. The same happens with a cached
   copy of a removed course.
3. *The breaker closes early.* `onSuccess` does not look at the state, so a slow
   success of a call admitted before the outage closes an open breaker.
4. *A hash is lost.* A completion that read the enrollment before the hash was
   written, and selects it after, writes null over it.

Read from the code of the courses and credentials handlers while modelling,
without a run of their own: on the migrated
schema the second of two overlapping enrollments is answered 500, not 409
(`test/courses.e2e-spec.ts:144`), and leaves its increment behind; on a
synchronized schema both rows are inserted; the completion mail takes its hash
from the enrollment it read, mostly before a credential was issued
(`README.md:410`); nothing submits an unverified credential again, although it
is saved "for retry" (`README.md:403`); a list read before an update and stored
after it keeps naming the course for its TTL.

Of users and auth: a save of a stale user restores a password, a reset token or
an unverified flag that was replaced since its handler read the row (the columns
in `crossed`); `enableMfa` overlapping `disableMfa` leaves the second factor on
without a secret (`README.md:386` says both are cleared); generating a new secret
while the second factor is on replaces the confirmed one before it is confirmed
itself (`README.md:97`); `GET /auth/verify-email` without a token verifies the
account `findOne` returns first; the mail says a verification link expires in 24 hours
(`email.service.ts:90`), and nothing expires it; a reset link works twice between
the read and the UPDATE that clears it.

Of search and video: a search does not filter by status, so drafts and archived
courses are found; the seeded courses are never indexed; a deletion of a cache
key that rejects keeps the index from hearing of the write. A range that ends
past the file is answered with a Content-Length longer than its body, and a
suffix range (`bytes=-n`) with an error; `LengthHonest` states exactly these
exceptions.

## What is proved

All for any set of requests, users, titles and learners, any workload, with and
without failures and overlap; the assumptions are those named in the modules
(`ConstantsAssumption`, `DistinctAssumption`, `BreakerAssumption`,
`CredentialsAssumption`, `AccountsAssumption`, `VideoAssumption`: types of the
constants, null is not a value, keys are not ids). `Kept` assumes the migrated
schema; without its constraints it does not hold. The last rows of BoardProofs
assume `Serial`: `MaxInFlight = 1`, no failures, the migrated schema. Each of the
three is needed. Overlap violates them in the runs below CoursesSerial; a failure
between a write and the deletion of its key leaves a stale entry, one between the
increment and the row leaves a count too high; and without the foreign key a
course is removed with its enrollments, which the board refuses.
`NothingCrossed` assumes `MaxInFlight = 1` alone.

| theorem | module | states |
| --- | --- | --- |
| `TypeCorrect` | CoursesProofs | `[]TypeOK` |
| `LessonsHome` | CoursesProofs | `[]LessonsStayHome` |
| `Coherent` | CoursesProofs | `[]CacheCoherent` |
| `BreakerType`, `Consistent`, `Shields` | CircuitBreakerProofs | `[]TypeOK`, `[]BreakerConsistent`, `ShieldedUntilSuccess` |
| `CredentialsType`, `OnLedger`, `MailTrue`, `Recorded` | CredentialsProofs | `[]TypeOK`, `[]VerifiedOnLedger`, `[]MailIsTrue`, `[]AnsweredIsRecorded` |
| `OnlyByOverlap`, `AppliedRecorded` | CredentialsProofs | `[]RefusedOnlyByOverlap`, `[]AppliedIsRecorded` |
| `Counted`, `Kept` | EnrollmentProofs | `[]CountAccounted`, `[]EnrollmentKept` |
| `OwnersChange` | BoardProofs | `OnlyOwnersChange` |
| `ImplementsBoard` | BoardProofs | `BoardSpec`: the service implements CourseBoard |
| `ReadsBoard`, `CountsBoard` | BoardProofs | `[]ReadsCurrent`, `[]CountsEnrolled` |
| `AdmittedAlone`, `RemovedAlone` | BoardProofs | `AdmittedOnlyPublished`, `RemovedStaysRemoved` |
| `NoExceptions` | BoardProofs | `[](raced = {} /\ clobbered = {})` |
| `IndexTypes`, `Follows` | SearchProofs | `[]IndexTypeOK`, `[]IndexFollows` |
| `AccountsType`, `OneAccount`, `AnsweredHold`, `EnabledSecret` | AccountsProofs | `[]TypeOK`, `[]UniqueEmail`, `[]AnsweredWritesHold`, `[]EnabledHasSecret` |
| `SpentRefused`, `SecretsWork` | AccountsProofs | `SpentIsRefused`, `AnsweredSecretsWork` |
| `NothingCrossed` | AccountsProofs | `[](crossed = {})` |
| `VideoType`, `Assembles`, `Honest` | VideoProofs | `[]TypeOK`, `[]Assembled`, `[]LengthHonest` |

*Courses.* `TypeOK` is inductive because it includes `StepOK`: which operation
may be at which step, and what its handler holds there. `LessonsStayHome` is
not about the table alone: rows, cache entries, entities in handlers and targets
of lesson requests are all at home, since each is copied into the next. Its
proof uses that a home never changes (`HomeStable`) and is one course only
(`HomeUnique`): the request that inserted the lesson names it. `CacheCoherent`
needs `LessonsStayHome`: a write made under course *c* deletes only the key of
*c*, so it must not change what another key shows. With that, each write changes
the views of one course and of the lists, and leaves the matching deletions owed.

*Breaker.* `BreakerConsistent` is inductive with the types: only `Success` and
`Failure` touch count and state, and both set them together. With it
`ShieldedUntilSuccess` needs one more invariant (`HalfOpenLate`): a half-open
breaker has its window behind it. A failure in it finds the count at the threshold
and opens it again with a new window, so while the window runs the breaker is
open, or a success has reset the count.

*Credentials.* `IInv` adds what a handler holds between two calls: a completion
holds a hash that was issued to its learner; one that selected a completed row
will leave it completed; a request about to save a verified credential is on the
ledger; a mail belongs to a completion. `Growth` says that ledger and
credentials only grow and completed rows stay completed, so what was true when
it was read is true when it is used.

`FInv` adds, for the other two, that every sequence number below the account's
was used by an applied transaction and that no request holds a larger one
(`Numbers`), and what has become of the transaction of each request without a
failure (`Fate`): pending, on the ledger with its credential saved or about to
be, or dropped because another was applied with its number.

*Enrollment.* `CountAccounted` is a cardinality, and the library's
`FS_AddElement` makes each increment one. It needs that a course which has no row
yet was asked for by nobody (`Fresh`), so that its count starts at zero with
nobody counted, and that an enrollment which was not counted has found its
course gone (`UncountedOK`). That a count is never ahead, not even in a course whose count
was written back, needs the same of every copy (`BelowInv`): no row, cache entry
or entity holds a count that was not reached, and what is counted only grows.
`EnrollmentKept` adds that the course of a row is
there (`CourseOfRow`): a removal fails on the foreign key, a save that selected
no row fails on the primary key, and any other save leaves a row a row.

*Ownership.* `findOne` may answer from the cache, and `save` writes an entity
loaded earlier, so the check is only as good as the copy it was made on. `OInv`
says that rows, cache entries and entities all name the instructor their course
was created by, and that a handler past the check belongs to that instructor or
an admin. `SaveViews` and `LessonViews`, shared with `CacheCoherent`, say that a
write changes what its own course shows and no other.

*Board.* With one request at a time (`Alone`) `SInv` says that no value was stale
when it was stored and no count was written back, that what a handler read is
what the tables hold when it writes (`Held`: the entity of an update is the row
with the patch applied, the course of an enrollment is published and its pair not
yet enrolled), and that whoever was counted has a row or is about to insert it
(`Recorded`). Only the entity taken from the cache makes this hard: `findById` may
answer with an old entry, and `EntryCurrent` excludes it, as nobody owes a
deletion when a request arrives, so by `CacheCoherent` every entry is current.
Then `BoardStep` takes the actions one by one: the save of an update, the inserts
and deletes and the increment are each one step of the board (`PatchStep`,
`CreateStep`, `RemoveStep`, `LessonStep`, `EnrollStep`), and all others leave the
view of every course as it was. `CountsEnrolled` is a bijection between the
requests that were counted for a course and its rows.

*Search.* `IndexFollows` says that an index which differs is about to be told.
It must be told the right thing: what a handler holds for the index is what the
table holds (`ToldOK`), since the row its save selected is the row it writes over
(`SelectedOK`), or the course has strayed.

*Accounts.* What a step does to one column is one lemma (`ColumnStep`, with
`SavedColumn` for the save): it leaves the column, it is an announced writer's
value, or it is recorded in `crossed`. `UniqueEmail` needs that every entity in a
handler carries the address its account has or had (`EmailInv`), as a save can
insert it again under the UNIQUE constraint. For spent secrets `SettledInv` says
that the secret an answered request used up is in no row and, but for columns
already crossed, in no entity about to be saved; for the second factor
`ConfirmInv` and `ConfirmedInv` follow the secret that `enableMfa` was confirmed
with. The two action properties then hold at the step in which a request arrives.
`AloneInv` says for one request at a time that the user a handler holds, and the
row its save selected, are the row as it stands, so nothing is crossed.

*Video.* The invariant ties `next`, the first byte of the answer and the bytes
received: the next byte of the body is the next byte the player lacks.

Model-checked only: the liveness properties `StaleEntryDeleted`,
`EveryRequestAnswered`, `IndexCatchesUp`, `WindowEnds`, `Recovers` and
`FetchCompletes`, because the prover supports neither fairness nor ENABLED. Every
safety invariant, action property and refinement of the passing runs is a theorem.

## Not modelled

`verifyCredential`, `getCredentialsByUser`, the account queries and key pairs
change no state; nor do searches, profiles, listings of users and
`GET /courses/my/enrollments`. The ledger entry a transaction writes is one per
course and cut to 64 bytes (`blockchain.service.ts:46`); nothing reads it, and
credentials are looked up by hash. Monitoring and audit insert rows whose errors
are swallowed and nothing depends on; health, logging, configuration and
bootstrap keep no state; the throttler counts requests per minute and refuses
those above, which here is a request that does not arrive. Instructor profiles
inside cached courses, list pages beyond the first and counts in lists are left
out. Of the email service only the completion mail is modelled: the others are
text handed to SMTP. HLS and DASH manifests, segments and whole files are the
token check of `StreamRange` in front of a file; for a manifest `streamHls` and
`streamDash` also compare the lesson of the token, which `streamSegment` and
`streamRange` do not. The DRM key is a hash of its id. `role` and `isActive` are columns no handler changes; logging out changes
nothing on the server. `execute` of the breaker has no caller in the services
yet.

## Plan

Every safety property of the runs is proved. What is left is an abstract
specification of accounts (one table, each operation one step) with Accounts
shown to implement it for one request at a time, from `AloneInv`; and the step
of the breaker's `Spec` to a specification of the three states alone.
