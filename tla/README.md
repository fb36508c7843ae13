# OpenPPWR: TLA+ models and proofs

TLA+ modules of the parts of OpenPPWR where steps of several actors, failures
and restarts decide whether a record is true, TLC configurations that check
them, and TLAPS proofs of most of the safety properties.  Paths are relative to the
root of the repository.

## 1. The system

OpenPPWR keeps packaging records, the evidence that supports them, and the
dossiers frozen from them, for one tenant per deployment.  A web client talks to
an API process (`apps/api`); the API and one or more workers (`apps/worker`)
share a PostgreSQL database and an evidence volume, and the workers talk to a
ClamAV daemon.  There is no message broker.  The queue of scan jobs, the leases
of retention deletion, the review lock and the audit chain are rows and advisory
locks of the database, and every handler is a transaction plus, sometimes,
filesystem calls that no transaction covers.

| Component | Code | State | Operations |
|---|---|---|---|
| Retention deletion | `apps/worker/src/index.mjs` (`cleanupRetainedEvidence`), migrations 019-027 | retention columns of `evidence_files`, files and tombstones | claim, renew, rename, remove, verify, finalise, recover, release, mark uncertain |
| Scan queue | same file (`processNextScanJob`), 010, 028 | `scan_jobs`, `scan_status` | claim, scan, record, back off, park as dead, requeue |
| Evidence upload and review | `apps/api/src/evidence-service.mjs` | `evidence_files`, the quarantine directory | upload, review, requeue, download |
| Worker loop and health | `apps/worker/src/server.mjs`, `health.mjs` | fault and heartbeat fields in memory | poll, probe, sweep, snapshot |
| Assessment and gaps | `apps/api/src/assessment-service.mjs`, `packages/assessment` | `assessments`, `gaps` | run, assign, remediate, reassess |
| Review freeze and dossier | `apps/api/src/dossier-service.mjs` | `review_snapshots`, `dossier_artifacts`, four files | freeze, generate, verify, download |
| Imports | `apps/api/src/import-service.mjs` | `import_runs`, catalogue and packaging rows | execute, replay, reject |
| Transactions, audit chain | `packages/database`, 020, 037 | `audit_events` | begin, set identity, append, commit, roll back |
| Identities and sessions | `apps/api/src/app.mjs`, 018, 034, 035, 038 | `identities`, `auth_sessions` | sign in, sign out, rotate |
| HTTP service | `apps/api/src/app.mjs`, `permissions.mjs`, `server.mjs` | pools, requests under way | route, guard, query, answer, probe, start, shut down |
| Bootstrap, reset, operator's scripts | `apps/api/src/app.mjs`, `scripts/acme`, 008, 017, 033 | `tenants`, storage marker, token files | bootstrap, provision, issue a token, reset |
| ClamAV protocol | `apps/worker/src/index.mjs` | one socket | scan, ping |
| Rate limiter | `packages/security/src/rate-limit.mjs` | `rate_limit_buckets` | count, refuse |
| Migrations, provisioning | `packages/database/src/migrate.mjs`, `prepare.mjs` | `openppwr_schema_migrations`, roles | migrate, provision, retire |
| Observability | `packages/observability` | deliveries and counters in memory | log, route, suppress, send |
| Web tier and client | `apps/web` | the state of a tab | serve, redirect, proxy, sign in, operate, page |
| Rehearsal and gates | `scripts/release/rehearse-recovery.mjs`, `scripts/validation/*-gate.mjs` | reports | back up, restore, roll back; run stages, judge |
| Rendering, small validators, single gates | `packages/dossier` and others | none | |

### How they interact

* An upload places a file, then inserts its row and its scan job in one
  transaction.  The worker's loop takes a job, scans the file and writes the
  verdict in one transaction; it also starts the retention sweeps.
* Requeue, review, scan and retention write the same evidence row.  None of them
  holds a lock across its steps; they meet in `scan_status`, `review_status` and
  `retention_status`.
* Assessments read packagings and accepted evidence and write gaps under the
  advisory lock `review-freeze:<tenant>`; a freeze takes the same lock and reads
  everything in READ COMMITTED statements.  Imports and evidence reviews do not
  take it.
* Every write use case ends in `append_openppwr_audit_event`, which serialises
  all of them on the advisory lock `openppwr-audit-chain` until commit.

### Where it is hard, and what makes it correct

* *Filesystem against database.*  A rename or a removal cannot be rolled back.
  A row must never claim a deletion beside the bytes, nor a file that is gone.
* *Leases.*  A worker that lost its lease does not stop; it acts on what it
  knew.  Only fenced writes keep its outcome out of the row, and nothing fences
  the volume.
* *Whose fault it is.*  An outage must not be charged to a file, a bad file must
  not take the worker out of service, and readiness must come back on evidence
  and on nothing else.
* *Long reads.*  A frozen review is complete and consistent although it is read
  statement by statement.
* *Clean-up.*  Whatever a failed request created must go, and nothing else, even
  if the failure is the lost answer of a commit that was done.
* *Lock order.*  Advisory, row and audit locks are taken by every handler.
* *Lost answers.*  A client, a transport or an operator who was not told must be
  able to ask again, and who was told must have been told the truth.
* *Reports.*  A verdict of the scanner, of a readiness probe, of a rehearsal or of a
  gate is worth what it has looked at.

`PROJECT.json` lists each of these hazards at the line where it bites, with the
properties that watch it.

## 2. The modules

Every action stands for one transaction, one statement of a transaction whose
statements others can see between, or one filesystem call: whatever another
process can observe or interrupt.  A Mutated form next to a definition is a
plausible wrong version of it; it is used by no specification.

**Retention** models a sweep from claim to outcome.  Variables `status`, `owner`,
`lease`, `generation`, `operation` are the columns of the row; `original` and
`copies` are the names under which its bytes exist; `pc`, `claim` and `seen` are
the local variables of the function at each worker.  `Claim` and `Reclaim` are
the SQL functions, `Renew` ... `Release` the straight path, `ListTombstones` ...
`ListSurvivors` the recovery of an inherited claim.  The environment kills
processes (`Crash`), lets leases lapse during work (`LeaseExpires`), fails a
storage or database call, and detaches the volume, which then looks empty.

**DeletionPromise** is what a reader of the record may rely on, without leases,
tombstones or recovery: a row is retained, deletion may begin, it ends as deleted
with nothing left, as retained with the file in place, or as unknown.  Retention
implements it (`KeepsPromise`), a row in `deleting` being the begun deletion.

**ScanQueue** models the queue: `line` is the order of `available_at`, `holds`
the row lock of each worker's open transaction.  `Claim` skips locked rows,
`Finish` is the outcome with both budgets, `Dies` a process or connection that
takes its claim with it, `Requeue` the SQL function, `Stranded` rows an older
version left in `running`, with something left of their budgets.

**Scanner** is one scan or ping: the checked read of the file, then the socket
whose data, end, error and timeout race to settle the one answer.  The file may
change under the reader and the peer may say anything.

**EvidenceLifecycle** puts upload, scan, requeue, review and sweep around one
file.  It keeps of ScanQueue one budget and of Retention the claim, the lease,
the rename and the removal.

**Uploads** is one upload in detail, several side by side: the multipart stream and
its temporary file (`names`, `opening`), the checks, the rename, then `ReadRequirement`
... `Commit` statement by statement, and `CleanUp`.  `unheard` are commits whose
answer was lost, `orphans` files nobody will remove, `erasing` the keys a reset has
returned and not yet removed.  **Csv** is `parseCsvRows` and `findActiveContent` as
functions over characters, with a writer beside them that knows what it meant.

**WorkerHealth** is the poll loop with a step per await, and the fields of the
class `WorkerHealth`.  `broken` is the world; `suspect` records, for the
properties only, what failed when the scan path last used it.

**ReviewFreeze** gives the assessment run and the freeze a step per statement.
`run` and `freeze` hold what each has read; their writes appear at the commit.
`Import`, `Spoil` and `ReviewEvidence` are the writers without the lock.

**Dossier** models `generateDossier` for several requests, file by file, with
`created` for `createdPaths` and five kinds of fault, and beside them the reset that
removes the directory of a dossier, and downloads.

**Imports** is `executeImport`: the key looked up, the catalogue read in three
statements, the validation, and the rows inserted one by one.  An insert under a key
that an open transaction has inserted waits for that transaction; a circle of waits
is broken as PostgreSQL breaks it.  A client retries after an error.

**Transactions** has, for every writing transaction, the sequence of locks it
takes (`Steps`), and the audit append.  `events` holds the rows of the chain with
their links, `sequence` the table's sequence, which a rollback does not return.

**Sessions** lets a credential end between the transaction that authenticates a
request and the one that does its work.  `generation` counts the tokens of an
identity, `live` the sessions that are committed and not revoked; the writes of a
transaction appear at its commit, and `late` is what had expired when it began
(`now()` in PostgreSQL).  `Append` takes the audit lock and resolves the
credential again.

**Routes** is the table of permissions and the routes, each a sequence of stages:
limits, credential, guards, queries by the name of their effect, answers.  **Api**
takes requests through them over pools of connections, with the readiness probe and
its deadline, statements that fail, start-up findings and shutdown.

**RateLimit** reads the clock, then counts in the bucket of the window it read; both
are steps, with any time between them.  `late` are the buckets that the clean-up had
removed by then and that were counted from 1 again.  **Alerts** routes events to a webhook and a mailbox with their slots and
the hourly window of mails; **Smtp** is the dialogue of one mail with any server.

**Tenancy** has the bootstrap route statement by statement (`heard`: who got the
tokens), the operator's scripts, one at a time (`script`), and rotations of a worker's
token through the API beside them.  `token` is the one the database knows, `kept` the
newest that reached a file or an answer that was read; `file` is a token per path
(`Outs`), as `issue-worker-token.mjs:47` looks at the path only.  A reset counts the rows
of other tenants before and after: if those tenants added rows meanwhile it may fail,
and whether they did is not tracked, so `ResetVerifies` may go either way there.  **Provisioning** is `migrate` and `prepareRuntime` with one
step per statement, since each is committed by itself; `overlapped` are runs that
were not alone, `lapses` counts logins open under settings not yet cleared.

**Recovery** is the rehearsal of backup, restore and rollback: `live` and `backup`
are deployments, each step may damage what it copies, in what the script looks at
and in what it does not (`values`, the files of the rolled-back copy, a `request`
across tenants), and `report` is what the script prints.  `up` is what runs: a step
that throws leaves a start or a stop half done, and a stop that fails in the end is
passed over.  **Gates** are the two runners of validation stages, with the stage's
process, its timer, the report on disk and the search for left-over processes, each of
which is listed with the parent that started it, with the number of one that is gone, or
with another that is listed.

**Edge** is the web server's decision for a host and a path, the browser's choice of
view and the links of every view; a reader follows them (`promise`: the surface a
link names).  **Workbench** is a tab: `flight` holds its requests with the credential
they were sent with, `evidence` the rows on the screen.  `overtaken` and `unlocked` are
the two histories `ScreenIsTrue` excepts: an operation that outlived a sign-out, and a
catalogue button, which asks for no lock, that released it beside a request for rows.
**Controls** states for
every control which permission unlocks it, which must come before and what it asks;
it has no variables, and uses Routes for what the server would say.

### Harnesses

**MCRetention** adds symmetry and the constant that needs an expression.
**MCWorker** (ScanQueue, WorkerHealth), **MCRecords** (EvidenceLifecycle, ReviewFreeze,
Transactions, Dossier), **MCServices** (Imports, Scanner, RateLimit, Smtp, Alerts, Api)
and **MCDeployment** (Uploads, Csv, Tenancy, Provisioning, Recovery, Edge, Workbench
with Controls, Gates) explore modules that share no variable side by side: the
variable `part` is chosen in the initial state and only that module takes steps, so
the state space is the sum of theirs, not the product, and nothing about how the
parts interact is claimed.  What interacts is in one module: upload, scan, requeue,
review and sweep in EvidenceLifecycle; import, assessment, review and freeze in
ReviewFreeze; the locks of all writers in Transactions; sign-in, sign-out, rotation
and work in Sessions.

The theorems are in modules of their own.  **RetentionProofs** and **SessionsProofs**
extend the module they are about.  **WorkerProofs** extends MCWorker;
**ReviewProofs** (EvidenceLifecycle, ReviewFreeze), **TransactionsProofs** and
**DossierProofs** extend MCRecords, **ServicesProofs** (Smtp, Scanner, RateLimit,
Imports, Alerts, Api) MCServices and **DeploymentProofs** (Gates, Recovery, Tenancy,
Provisioning, Uploads, Workbench) MCDeployment: their theorems are about the specifications the runs check, with the
constants left open.  A pair of lemmas (`...Within`, `...Runs`) shows that a behaviour
of the harness is one of the part, and the proof goes on there.

## 3. The runs

| Run | Bounds | What it shows |
|---|---|---|
| RetentionOrderly | 2 workers, 2 rows, one with a copy of an older version, 2 crashes, 1 fault | Without overtaking and outages a recorded deletion is a deletion, one sweep at a time handles a row, a crash alone never makes a row uncertain, the promise is implemented; every disposable row settles |
| RetentionTurbulent | the same with 1 overtaken sweep, 1 crash, 1 fault, 1 outage, flapping, and a colliding legacy name | A retained row keeps its file; nobody can act on it any more; a deletion is recorded once and for ever; `FenceInv`, the invariant of the proofs |
| RetentionOvertaken | 1 row, 1 overtaken sweep | *Violation.* A deletion recorded over bytes that exist |
| Worker | Queue: 2 workers, 3 jobs, limits 2 and 2, 1 crash each. Loop: all five parts may fail, two at a time | A job that waits for a verdict has something left of both budgets, none is scanned twice at once, job and verdict agree, an outage spares the file, a verdict is final, every job ends next to a file that is requeued for ever. Ready is earned, nothing is claimed under a latched tenancy failure, readiness returns, a dead job is reported |
| Records | Lifecycle: 2 workers, budget 2, 2 stops. Freeze: 2 packagings. Locks: 3 sessions, 4 transactions of 10 kinds. Dossier: 3 requests, 3 files, 1 fault of each of 5 kinds | Acceptance rests on a clean scan and a retained row has its file; frozen gaps and assessments are complete, current at the commit and about the content frozen with them; failures have gaps; the chain verifies at every moment and no circular wait exists that the reset is not part of; a recorded artifact is there and whole unless its commit was not heard of, a reset takes rows and files, and somebody who keeps asking gets the dossier |
| LifecycleStopped | 1 worker, 1 stop | *Violation.* Accepted evidence is deleted by a sweep that inherits an old claim |
| ReviewFreezeImport | 2 packagings | *Violation.* A packaging without assessment gets into a frozen review |
| Sessions | 2 identities, one an administrator, 2 sessions, 3 requests, 1 expiry | Nothing is recorded under a credential after the event that ended it; what has ended is refused; who was told so was told the truth; no request waits for ever |
| Services | Imports: 2 clients, 2 keys, 1 fault. Scanner: responses of 3 and 2 pieces, 1 disturbance. Limiter: 3 requests, 3 ticks, buckets kept 2 ticks, statements late without limit. Mail: 2 recipients, 2 replies ahead. Alerts: 4 events, 2 slots, 1 mail per window. API: a caller and a probe, pools of 1 | What is stored came with an accepted run, whole; a verdict is the whole answer of the scanner about the recorded bytes; no more than twice the limit passes; no secret in clear and "delivered" exactly if accepted; every alert is counted somewhere; guards precede work and answers say what happened; who retries or waits gets an end |
| Deployment | Uploads: 2 and 2 mishaps. CSV: 3 cells. Tenancy: 2 bootstraps, 3 scripts or rotations, 2 paths, 1 mishap. Provisioning: 2 runs, 2 migrations, 1 tampering. Recovery: 2 damages. Workbench: 3 rows in pages of 1, 2 requests under way. Gates: 3 stages | Row and bytes stay together whatever races or is lost; cells are seen as a spreadsheet would; one bootstrap wins, a reset clears its tenant, principals are what the environment says; a PASS of rehearsal or gate is earned; links land where they promise; the screen shows what the server has, and offers what it serves |
| UploadVersions | 2 uploads | *Violation.* Two uploads of one requirement get the same version |
| WorkbenchSignOut | 2 requests under way | *Violation.* An operation lands on the screen after signing out |

**Why the bounds are enough.**  Two workers are an owner and the one that
overtakes it; a third can only repeat the second's part, and the proofs are for
any number.  Two rows are the one deleted and the one whose name collides.  A
second fault of a kind never meets a state the first cannot have left, except
for crashes, which compound and get two.  Limits of 2 leave room for a retry
before a job is dead.  Of the parts of the world two at a time are a fault and the
one that overwrites it in the single slot; a third only overwrites again.  Three
dossier requests are one that writes, one that loses and one that comes after;
three files are one written before a fault, one at it and one after.  Three sessions
are a cycle's smallest number beyond two, and four transactions let each session
finish and another begin.  Three requests of Sessions are a sign-in, one
authenticated under it, and the sign-out or rotation that comes between.  Two
imports race; a third waits for what the second waits for.  Three charges at a
limit of one are twice the limit and one more.  Pools of one make every waiting
request a blocked one.  Two uploads read one version; two mishaps are a lost
answer and a crash.  Three cells are two rows, one of them with a delimiter.  A
third script comes after one that died beside another.  Two requests of a tab
under way are an operation and the sign-out beside it.  Three stages are one that
passed, one that did not and one that was not reached.

**Deadlock** is checked, except where a specification is meant to stop: one file's
life ends, every job has its verdict, transactions, requests and scripts are
bounded.  There `NoWaitCycle`, `JobsEnd`, `RetriesEnd`, `WaitsEnd` and
`EveryRequestEnds` say what a deadlock would.

**Constraint.**  Deployment follows a tab until one of the two histories that
`ScreenIsTrue` excepts has come to be (`CONSTRAINT Followed`): after an operation has
outlived a sign-out the property says nothing, and after a button has released the
lock only `NothingStays`, which the theorem proves of those states too.  The states in
which the exception arises are explored and checked, their successors are not.

**Fairness.**  A worker keeps polling (`server.mjs` runs the loop until the
process is stopped, and the container is restarted), so a sweep, a claim and a
finish that stay possible happen (WF).  Clocks go on: a lease without owner
expires and a delay passes.  An operator brings a lost volume back.  The interval
checks of the loop are due again and again while polls go on, so they are taken
under SF.  In Dossier requests under way go on and somebody asks again; in Sessions the
process goes on with a request and PostgreSQL with a transaction that waits for no
lock.  In Imports a client goes on and retries (WF), and PostgreSQL wakes who waits
for a transaction before that one's client can send again (SF of `Insert`).  In
Scanner and Smtp what has arrived is handled and the timer fires; in Alerts and Api
the timers alone are fair: deliveries, callers and statements may hang.  A harness
states fairness once for actions of different parts where it can: only one part
takes steps, so fairness of their disjunction is fairness of each.  No fairness is
assumed for crashes, requeues, imports of others or users, and Deployment has none:
nothing in it must eventually happen.

### Where the code and its documents disagree

The five violations are listed with their quotations under `findings` in
`PROJECT.json`.  The models show more such places; the passing properties name
them as exceptions, so that everything around them is still checked:

* *Recovery after an outage* (`index.mjs:859`): a volume that goes away after a
  recovery listed the copies makes every later probe report absence, and the row
  is finalised although the comment at 611 says missing storage is no proof of
  deletion.  The same happens at 830 and 964, where reachability is asserted after
  the probes it vouches for.  Retention with `MaxOutages = 1`, and `Flapping`,
  violates `DeletedMeansGone`.
* *A sweep that fails is not retried* (`index.mjs:1021`): it leaves the row
  `integrity_unknown`, which is final (`SettledIsFinal`), where the comment at
  `server.mjs:175` says that the next sweep tries again.
* *A crash loop is not bounded* (`index.mjs:312`): `Die` of ScanQueue rolls the
  claim back with everything else, so the reclaim that the comment at 313 charges
  never sees a crash; only rows of older versions are found `running`.
* *A storage fault keeps an idle worker unready* (`health.mjs:160`): the probe
  clears scanner faults only.  `ReadyAgain` excludes such a fault; without the
  exclusion TLC finds a worker that stays unready with everything working.
* *A failed sweep makes a worker unready* (`server.mjs:178`), although the comment
  at 176 calls it an item fault: its codes are none of those `health.mjs` knows.
* *A crash or a full disk blocks a dossier for ever* (`dossier-service.mjs:205`):
  what was written exclusively and not noted stays.  `DossierAtLast` excludes it
  as `LeftBehind`.
* *A commit whose answer is lost* (`dossier-service.mjs:219`): the clean-up
  removes the files although the rows are committed, and
  `docs/dossier/DOSSIER_SCHEMA.md:20` promises the persisted artifacts to the next
  request.  `RecordedIsThere` is violated when it is checked instead of
  `HeardIsThere`.
* *A second sign-out is not always answered as such*: 038:109 calls it no error,
  but of two at the same time the second waits for the audit lock and is refused
  by the append, as is one whose session has expired since it was authenticated.  `Refuse` of Sessions is that answer.
* *A rotation leaves expired sessions as they are* (034:158): a transaction that
  began under one before it expired can record after the rotation.  `EndedBy`
  excludes them; without the exclusion `NothingAfterItsEnd` is violated.
* *Racing requests with one key* (`import-service.mjs:164`):
  `docs/user/REFERENCE_WORKFLOW.md:25` promises a replay, but of two at the same time
  the loser gets an internal error and only its next attempt the replay.
* *A bill that names a component twice* (`import-service.mjs:113`) passes validation
  and then fails in the database for ever (`SendsARepeat`); two rows with one bill's
  identifier are told that it already exists.
* *A code that cannot arise*: the worker reads at most as many bytes as the row
  records, so `MALWARE_SCAN_SIZE_EXCEEDED` is never its answer.
* *A lost count* (`packages/observability/src/index.mjs:355`): the number of
  suppressed mails rides on the next mail and is gone if that one fails, although the
  comment has the next message that does get sent say it (`suppressions.lost` in
  Alerts).
* *Limits before authentication* (`app.mjs:512`): `/v1/version`, `/v1/permissions` and
  `/v1/demo/accounts` use the limit `read`, whose only dimension is the subject, which
  an unauthenticated request does not have: they are never counted.
* *The clean-up of buckets* (`rate-limit.mjs:85`) removes windows that began an hour ago.
  For the rules whose window is an hour (`demoReset`, `credentialRotation`) a charge that
  reaches the database just after its window closed may find its bucket gone and count
  from 1 again; nothing in the code bounds that wait, and neither does RateLimit.
  `TwiceTheLimitAtMost` names the buckets this happened to (`Restarted`).
* *A refused upload* whose output stream opens after the clean-up leaves a temporary
  file (`orphans` in Uploads); nothing sweeps it.
* *A commit of an upload whose answer is lost* loses the file under its row
  (`evidence-service.mjs:374`, `unheard`).
* *The reset by slug* (`demo-reset.mjs:203`): its header promises to positively
  identify the fictional tenant, and it looks at the slug alone, not the disclaimer.
* *The rehearsal's request across tenants* (`rehearse-recovery.mjs:464`) goes to a
  route that does not exist, so its 404 shows nothing.  `databaseState` (153-172) counts
  rows: values altered in the backup with equal counts are restored and rolled back as
  they are, since manifests compare the restored copy with the backup and never the
  backup with its source, and of the rolled-back copy no manifest is taken, so that
  values and evidence files altered there are seen by nobody either.  `Unnoticed` lists
  all of these; everything else must be noticed.  A stop that fails in the end is
  swallowed (609-611), so a report says nothing of what still runs; that each copy is
  made at rest is what `PassIsEarned` says instead.
* *A host map of a few surfaces*, such as the example at `docs-content.js:168`, leaves
  the others without a host: links to them stay on the host they are on
  (`runtime.js:33`), whose surface shows something else.  Edge promises a landing only for
  declared surfaces.
* *A catalogue button beside an operation* (`App.jsx:472`) asks for no lock, and its
  answer unlocks the tab while the other runs: "load more" pressed again asks for the
  same offset, and a page is there twice, against the comment at `App.jsx:219`.  The
  buttons are in Workbench as they are; `ScreenIsTrue` names the history (`unlocked`),
  and without the exception TLC finds the page that is there twice.
* *Two sign-ins started with Enter* may land out of order and leave the identity of
  one beside the credential of the other; after a 401 or an edited credential the
  rows of the previous role stay on the screen.
* *Stale reports* (`full-gate.mjs:182`): the local gate does not remove the report of an
  earlier run, which the comment at `deployment-gate.mjs:348` calls the danger it
  avoids; it writes PASS before the clean-up is known; and the deployment gate that
  throws before line 351 leaves the old report too.  `VerdictIsEarned` says neither.
* *Left-over processes* (`orphan-check.mjs:79`) are found by a recorded parent that is not
  listed.  On POSIX an orphan is given to pid 1 or to a subreaper, and `ps -eo` lists
  either, so that the search finds none of them, against lines 5 and 18 of its own
  header; the same holds of a number given out again.  `VerdictIsEarned` says what a
  clean report is worth: what is left of the watched processes is listed with another
  parent, or with its own, itself left over and not watched.
* *A worker's token* is written to a path that must not exist (`issue-worker-token.mjs:47`).
  The same tenant's file at another path, or one written before a rotation through the
  API, stays with a token the database no longer knows.  `DeploymentIsOwned` says that
  the token it does know was handed out, unless a failure came between.
* *The reset does not take the review lock* (033:55), although
  `assessment-service.mjs:136` says that every writer of gaps does; it can block
  an assessment run and be blocked by it.  `NoWaitCycle` excludes it.

## 4. The proofs

Every theorem is about all values of the constants that the named assumption of its
module allows; nothing else is assumed except where a hypothesis is stated below.

| Theorem | Property | Hypothesis beside the specification |
|---|---|---|
| RetentionProofs: `TypeCorrect`, `Fences`, `RetainedIsPresent`, `RetainedIsUntouched`, `DeletionRecordedOnce`, `SettledStaysFinal` | `TypeOK`, `FenceInv`, `RetainedMeansPresent`, `RetainedMeansUntouched`, `RecordedOnce`, `SettledIsFinal` | none |
| `OneSweepHandles` | `OneHandler` | `stalls = 0` |
| `LeasesProtectTheRecord` | `LeasesProtect` | `Undisturbed` |
| `CrashesCostOnlyAPass` | `CrashKeepsCertainty` | `Calm` |
| `SweepsImplementDeletion` | `KeepsPromise` | `[]Undisturbed` |
| SessionsProofs: `SessionsTypeCorrect`, `NothingRecordedAfterTheEnd`, `EndedStaysRefused`, `ToldStaysTrue` | `TypeOK`, `NothingAfterItsEnd`, `EndedIsRefused`, `ToldIsTrue` | none |
| WorkerProofs: `QueueStaysConsistent`, `OutageCondemnsNoFile`, `VerdictsAreFinal`, `WorkerActsOnEvidence` | `QueueIsConsistent`, `OutageSparesItem`, `VerdictIsFinal`, `ActsOnEvidence` | none |
| ReviewProofs: `EvidenceStaysSound`, `FrozenStaysWhole`, `FailuresKeepGaps` | `EvidenceIsSound`, `FrozenIsWhole`, `FailuresHaveGaps` | none |
| TransactionsProofs: `TransactionsTypeCorrect`, `AuditChainVerifies`, `NobodyWaitsInACircle` | `T!TypeOK`, `ChainVerifies`, `NoWaitCycle` | none |
| DossierProofs: `DossierStaysThere` | `DossierIsThere` | none |
| ServicesProofs: `MailIsHonest`, `ScansAreJudgedWhole`, `LimitsHoldTwice`, `ImportsAreWhole`, `AlertsAddUp`, `RequestsAreVetted` | `SubmissionIsHonest`, `VerdictIsTheWholeAnswer`, `TwiceTheLimitAtMost`, `RowsHaveTheirRun`, `AlertsAreAccounted`, `RequestsAreSound` | none |
| DeploymentProofs: `PassesAreEarned`, `DeploymentStaysOwned`, `UploadsStayWhole`, `ScreenStaysTrue` | `PassIsEarned`, `DeploymentIsOwned`, `UploadsAreWhole`, `ScreenIsTrue` | none |

`Undisturbed` is that no lease has run out under its owner's hands and the volume was
never detached; `Calm` adds that no call failed and no key has the shape of another's
suffix copy.  They are conditions on the history so far, met by every initial state
and kept by everything but the one step they exclude: crashes at every step, any number of
workers and failing calls (for `Undisturbed`) remain.  RetentionOvertaken shows that
`stalls = 0` cannot be left out, section 3 the same of the outages.

**Retention.**  None of the safety properties is inductive.  A sweep that restores a
file hands its row back later, in another transaction, and between the two the file
must not move: so the state of the row has to be connected with where every
sweep stands.  `FenceInv` does this in named parts: two claims of one row differ
in generation and a claim is never newer than its row; a sweep whose generation
is the row's is at a place where the row says `deleting`; a fresh deletion acts
on the tombstone of its own operation; what it proved of the original stays true
while its claim is current.  From `FenceInv` a retained row is one no sweep's
claim is current for, and the steps that move an original are those of a current
claim or of one that was overtaken from it before the row could be handed back.
TLC checks `FenceInv` in RetentionTurbulent.  `HoldsLease` adds that without a stall who
works on a row has its lease, hence `OneSweepHandles`.  `ProvesAbsence` says for every
place of a sweep which names it has shown to be empty, so that at the outcome all of
them are: the record of a deletion is true.  `NeverDoubts` says what a sweep will find
there, so that the paths to a doubt are closed.  For the refinement each step of a
sweep is a step of DeletionPromise for its row or none: a claim begins the deletion,
the last removal ends the bytes, the outcome is told, and all else is a stutter.

**Sessions.**  `NothingAfterItsEnd` needs `EndedIsRefused`: an event is recorded under
a credential that was accepted when the lock was taken, so it must be shown that
nothing accepted has been ended, and that nobody ends it while the lock is held.  The
invariant `IInv` adds three parts.  `RequestInv`: what a request works on fits what it
does, and under the lock its credential is still accepted.  `SignInInv`: a session
whose sign-in has not committed is `Fresh`, no event names it, nobody was told of it
and no other request uses it; otherwise a sign-in could bring back what a rotation has
ended.  `EventInv`: no event has a number beyond their count, so that the next is the
last; a token that was replaced is older than its identity's; and a session that signed
in before a rotation of its owner is not live unless it has expired.

**Queue and poll loop.**  `QueueInv`: a due job waits for a verdict, a held job is due
and has something left of both budgets, nothing says `running` but what an older
version left so, and a sound file is charged nothing.  The lemmas before it say what
taking a job out of the line and putting it at its end does to a sequence without
repetitions.  `PollInv`: the one fault slot of `WorkerHealth` names a fault or nothing
the scan path uses has failed since it was last used, and a failed tenancy check stays
due and with it the latch.

**Evidence.**  `EvidenceInv` connects the row with the place of the file through upload
and sweep, the job with the verdict, and says that a retained row has no sweep at work,
not even one that lost its claim.  That last part is what a test could not see: a sweep
that was overtaken may still rename, and only because an inherited claim is never given
up can nobody have handed the row back before.

**Assessment and freeze.**  `FreezeInv`: what the run in progress judged is what there
is, because nobody remediates under its lock; a gap that is closed is one its
assessment judged; and what the freeze has read so far is still so, clause by clause,
except for what writers without the lock change, which it reads again.

**Audit chain and locks.**  `EventInv`: an uncommitted event has the lock, numbers tell
events apart, what is committed came first, and every event links to the newest before
it.  Then the committed events are a chain after every rollback.  `NoWaitCycle` is
proved from one order: `Rank` numbers the locks so that a program other than the reset
takes a lock it does not have only above all it has (`OneOrder`); a session that waits
for one that waits wants a lock lower down, and in a finite order one wants the highest.

**Dossier.**  `DossierInv`: every file on the volume is on somebody's list, the list of
a request under way holds whole files, no two lists share one as long as every commit
is heard, and a reset waits for a review that is held and is final.

**Services.**  `SessionInv` says for every stage of the mail dialogue whether the channel
is encrypted, what can be on it and how many recipients are left.  `ScanInv`: what was
heard is the beginning of what was written, and a call that came to its place passed
what comes before.  It needs `MaxResponse >= 2` (`ScannerAssumption`): the cap on an
answer that the code sets is longer than any proper answer.  `LimiterInv` is a ledger:
numbers a bucket gave are different and at most as many as it counted, and a bucket
that is gone is never charged again unless `late` names it.  Two windows cover an interval as long as one,
those who passed in a bucket have different numbers up to the limit, and by the pigeon
hole principle they are at most the limit; what was counted from 1 again is in `late`.  `ImportsInv`: a transaction
that has its `import_runs` row has inserted, skipped or still to insert every other row of
its plan, no two transactions under way hold one row, and what is stored is what the committed
runs brought (`Brought`), nothing else.
`AlertsInv` is a ledger too: counters and deliveries under way are the events accepted,
and every suppressed mail is in the window, in a delivery, told of or lost.  The sums are
folds; `Adds` characterises such a fold by its steps, and the lemmas say what one
counter more, or a delivery that ends, does to it.  For the ceiling, no hour before the open
window holds more than one window's mails (`MailsInv`), so none holds more than two.
`ApiInv` says of every request how far along its route it is, that it passed each guard
behind it, and what it holds and has committed.  What it needs of the table of routes is
`RouteSound`: everything that judges stands before the queries, but for what asks whose
a row is; only the last query commits, and commits what the route promises; a
refusal commits nothing but the record of a rejected import.  Each route is shown to have this shape, and the proof of the
steps uses nothing else of the table.

**Deployment.**  `GateInv`: a stage that passed was in time and the report follows the
stages.  `RecoveryInv` says for every step of the rehearsal what the copies can look
like, given what was damaged: a damage that later steps would find shows in the copy,
and the others are named in `Unnoticed`.  `TenancyInv`: the bootstrap lock is held from
the count to the end of the transaction, what a script has checked still holds when
it acts, and a token the database knows is with somebody or in the hands of the script
that runs (`Custody`).  `ProvisioningInv`: a run has come to a migration when all before it are
recorded, and what it has done to a principal stands as long as nobody else runs.
`UploadsInv`: where the bytes of an upload are at each of its steps, and that the
versions of committed rows are `1 .. n` for some `n` with every number that was read at most one above.
`TabInv`: until a button releases the lock, one operation of the workflow is under way at
most, a request for more rows asks
for those after the rows held, and its answer, when it comes, is a page of what its
credential may see.  What a role may see grows only at its end (`VisibleGrows`), so a page
stays a page while rows arrive and the new page continues the old ones; the rows of
another credential are told apart by the last one.

TLC has evaluated the inductive invariants on the instances of the runs (as invariants
of the module with the proofs, with the run's constants; only `FenceInv` stays in a
run). Where one was not inductive it was strengthened, never the property weakened. The
proof of the scanner led to the assumption above, and those of the transactions and of
the rate limiter to the types in their assumptions.

**Only model-checked**, and why:

* Liveness (`JobsEnd`, `ReportCatchesUp`, `DossierAtLast`, `EveryRequestEnds`, `RetriesEnd`,
  `WaitsEnd`, `DisposableIsSettled`): TLAPS does not reason about ENABLED and fairness here.
* `CellsAreSeen` (Csv) says what folds over the characters of a file compute: induction
  over data, which the provers cannot instantiate.
* `WaysLead` (Edge's links and Controls' offers) is about concrete tables without a
  free constant: every host map with its views, every role with its controls.  TLC goes
  through all of them, and a proof could do no more than evaluate them.
* The five violations are counterexamples and need no proof.

## 5. What is not modelled

* *The opt-out* `AllowMultiTenant` of WorkerHealth is in the module and no run sets it.
* *Evidence lifecycle*: the search for active PDF markers and the symlink checks of a
  path are one condition; uploads are taken to commit in the order of `created_at`,
  which paging in Workbench relies on.
* *Transactions*: row-level security and grants are configuration of PostgreSQL; the
  hash is an injective link.
* *HTTP service*: a second SIGTERM, the loss of a connection under a checked-out
  client, and what a query reads, which the component's own module says.
* *Observability*: metrics text, log redaction and MIME.
* *Assessment rules*: `evaluatePackaging` compares one packaging with constants, rule
  by rule; a model would repeat it.
* *Operator's scripts*: dry runs, and two scripts at the same time.
* *Queue*: rows an older version left `running` with a spent budget.  `Stranded` rows
  have one attempt left, the last with which a claim reaches them.
* *Retention*: the reads of `ProbeOriginal` (`index.mjs:794-818`), `AfterFailedMove`
  (953-955) and `CheckRest` (987-996) are one step each: an outage or another sweep
  comes before or after all of them, never between two.
* *Routes*: a download's second query and its check that the scan is clean (456-461) are
  one with the query that reads the row, since all of them answer 404.
* *Mail*: an answer too long (`reply_too_large`) is one of the malformed ones, and a close
  during the TLS handshake (`connect_failed`) one of the losses: each ends as "failed".
* *Gates*: a process that ends its parent after the search for orphans; the single
  gates, which compare texts; `--reap`; the installer's shell.
* *Web client*: wording, layout, translations.
* *Dossier rendering, small validators* (`supplier-evidence`, `packaging-master`,
  `reconciliation`, `compliance-core`) are pure and short.
* Passwords, hashes and tokens are opaque.  PostgreSQL, the filesystem, ClamAV, mail
  servers and the browser are modelled as far as the code observes them.

## 6. Plan

1. `ScreenIsTrue` without `unlocked`, and Deployment without its constraint, once the
   buttons of the catalogue ask for the lock.
2. Links for any host map, not only those of MCDeployment.
3. The search for active PDF markers as an operator, compared with a reference as in
   Csv; the remaining conditions of a confined path.
4. Two operators at once in Tenancy.
