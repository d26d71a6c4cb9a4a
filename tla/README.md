# IPTable in TLA+

IPTable keeps an inventory of IPv4 subnets: folders hold projects, a project is
a subnet with one row per address, and workers ping the addresses. It is a
FastAPI web application, one or more ping workers, and a PostgreSQL database
they share; no process talks to another except through the database. This
directory holds TLA+ models of that program, the TLC configurations that check
them and the TLAPS proofs about them. Source paths are relative to the
repository.

Run a check with `tlc -config SettingsStore.cfg MCSettingsStore`, a proof with
`tlapm SettingsStoreProofs.tla`.

## The system

| Component | State it keeps | Operations | Interacts through | Here |
|---|---|---|---|---|
| Ping queue (`app/services/ping.py`) | `ping_jobs`; ping columns of `ip_addresses`; transaction advisory locks | enqueue, requeue stale, claim, probe, apply results, finish | called by web routes, the REST API and the schedule pass; run by every worker | `PingJobs`, `JobLifecycle` |
| Ping schedules (`app/services/ping.py`, `app/web/routes.py`) | `ping_schedules` | ensure a default schedule, go over the due ones, save one | the worker's loop, web startup, the administrator, creation of a project | `PingSchedules` |
| Worker process (`app/worker.py`, `app/main.py`) | `next_poll_at`, a heartbeat file | one loop, restarted by compose | everything above; cancelled at shutdown | in both |
| Ping probe (`app/services/ping.py`) | none | `ping` under a semaphore, in batches | the `ping` program | what it writes, in `PingJobs` |
| Runtime settings (`app/services/settings.py`, `app/manage.py`) | `app_configuration` with a revision, its audit, the API credential with a version | initialize, save a group, replace the token, set and roll back on the command line | read before every request and every worker iteration | `SettingsStore` |
| Sessions and accounts (`app/services/sessions.py`, `app/services/auth.py`) | `users`, `user_sessions`, the cookie | login, check and touch, logout, changes of accounts, bootstrap of the administrator | every request | `Sessions` |
| Login rate limit (`app/services/security.py`) | `login_rate_limit_events` | check, record a failure, reset | login | `LoginLimit` |
| Addresses, history, custom fields (`app/services/custom_fields.py`, `history.py`, routes) | `ip_addresses` with a JSON column, `custom_fields`, `ip_address_history` | edit and clear an address, PATCH it, add a field, replace the fields of a project | web and REST API write the same rows | `CustomFields` |
| Projects (`app/services/inventory.py`, routes) | `projects`, the ordinals of `ip_addresses` | create, import, delete, renumber at start, list by pages | web startup and worker startup renumber the same rows | `Inventory` |
| Networks and files (`app/services/network.py`, `csv_io.py`) | none | hosts of a network, smallest network of a file, export | creation and import of a project | `Subnets` |
| Database and migrations (`app/core/database.py`, `migrations/`) | the schema | upgrade, then `settings.initialize` | compose runs it before web and worker | isolation, keys and cascades, in every action |
| Pages, translation, environment (`app/services/i18n.py`, templates, `app/core/config.py`) | none | render, read the environment once | | the pages of the address table, in `Inventory` |

What is hard, and what correctness means for each component:

* **Queue.** Several workers and any number of callers interleave between every
  two statements. A lease (`lease_expires_at`) is all that tells a dead worker
  from a slow one; the timeout it comes from may change while jobs run; a slow
  worker comes back after its job was given to another. Correct means: leases on
  one job do not overlap, nobody takes a job over early, no job is lost however
  workers die, no ended job is revived, a project is not pinged twice at once,
  results do not go back in time.
* **Schedules.** A pass reads rows, works, and writes them in one transaction
  while administrators save the same rows and requests create and delete
  projects. Correct means: every project has a schedule, a due schedule pings
  all it stands for, what an administrator saved stays, a new project is pinged
  at once.
* **Settings.** Two administrators save from one revision; a rollback is several
  transactions; the token shares the audit table but has versions of its own.
  Correct means: the audit table accounts for every revision and every token,
  no save is overwritten unseen, a rollback is at a revision wherever it stops.
* **Sessions.** A request checks, touches and answers in three steps; logouts,
  changes of passwords and deletions happen in between, and responses of old
  requests put old cookies back. Correct means: what is revoked stays revoked
  and serves nobody, and somebody can always administer.
* **Rate limit.** A window and a lockout are judged on rows that pruning thins
  out, by logins that check before and record after the password. Correct means:
  pruning changes no decision, and concurrency adds a bounded number of tries.
* **Addresses and fields.** One JSON column is read, changed and written whole by
  forms, the API and the replacement of fields. Correct means: what is shown was
  recorded, values belong to the column they were entered for, the history of a
  field is a chain.
* **Projects and networks.** Boundaries (/31, /32, one address, the whole space);
  renumbering under a unique key by two processes at once. Correct means: rows
  end up as the hosts in order, an import gets the smallest network and all its
  rows, an exported file gives the same project.

The repository has no tests. `PROJECT.json` lists these hazards at their lines,
each with the properties that cover it or the reason why none does.

## Modules

| Module | Models |
|---|---|
| `JobLifecycle` | What the queue promises: a job is submitted for an existing project under a fresh id, taken, perhaps given back, ended once, and disappears with its project only. |
| `PingJobs` | The queue in detail, on PostgreSQL. |
| `PingSchedules` | Who fills the queue: schedules, passes, administrators, creation and deletion. EXTENDS `JobLifecycle`: for it the queue is the abstract one. |
| `SettingsStore` | The settings row, the credential and their audit table. |
| `Sessions` | Accounts, session rows, cookies, and the requests of a browser. |
| `LoginLimit` | Failed logins of one address and username. |
| `CustomFields` | The addresses of one project, its columns and its history. |
| `Subnets` | Networks, their hosts, and the reading of a file: operators only. |
| `Inventory` | Projects with their rows; EXTENDS `Subnets`. |
| `PingJobsProofs`, `PingSchedulesProofs`, `SettingsStoreProofs`, `SessionsProofs`, `CustomFieldsProofs`, `LoginLimitProofs`, `InventoryProofs` | Theorems about the module they are named after. |
| `CommonLemmas` | Facts that they cite: sets as sequences, least numbers, powers of two, division. |
| `MC...` | Values of constants that a .cfg cannot write. |

The two halves of the ping system meet in `JobLifecycle`: `PingJobs` is shown (by
TLC and by proof) to implement it, and `PingSchedules` is built on it. Its
`Submit`, `Take`, `GiveBack`, `End`, `Drop` and `Add` are the only steps of the
queue anyone sees. The other components share no rows with the queue but the
project whose deletion takes its jobs along, and meet only there.

In every module a step is one statement or one short transaction at READ
COMMITTED: a statement sees what is committed when it starts, and an UPDATE with
its commit is one step because a concurrent UPDATE waits for it and evaluates
its WHERE again. What a request has read it keeps in its record (`req`, `form`,
`due`, ...) until it writes. A session does not flush before it commits
(`app/core/database.py:36`), and the ORM then writes the columns that differ from
what it loaded. Definitions whose comment begins with `Mutant` are wrong
versions of the code for the mutation of the checks; no action uses them.

### PingJobs and the code

`jobs[j]` is the row with id `j` (`Absent` when there is none); `ip[p]` the ping
columns of one address of project `p`, which stands for all of them; `pc[w]` is
where worker `w` is in `run_ping_scheduler`.

| Action | Code in `app/services/ping.py` |
|---|---|
| `StartRequest`, `EnqueueCheck`, `EnqueueCommit` | a caller of `enqueue_project_ping`: its SELECT, its `db.add`, the caller's commit; a folder or a pass commits several at once |
| `LockScheduler`, `Requeue` | `requeue_stale_ping_jobs`, with `pg_try_advisory_xact_lock` |
| `NotYet`, `Poll` | the test of `next_poll_at`; the clock and the candidates of `_claim_next_ping_job` |
| `TryLock`, `ClaimJob`, `NothingClaimed` | its loop: advisory lock, guarded UPDATE, rollback |
| `Probe`, `Apply`, `RunFails` | `ping_address`, `_apply_ping_results`, any exception |
| `LoadJob`, `WriteOutcome` | the second session of `run_next_ping_job`; a vanished row raises |
| `Crash` | death or cancellation, then a restart |
| `DeleteProject` | a deletion with its ON DELETE CASCADE |

Every process reads the same clock: compose runs them on one host. The pass of
the schedules is one of the requesters here; what it does to schedules is in
`PingSchedules`. The model frees the scheduler lock at the end of `Requeue`; the
code may keep it until the pass is over, which allows less.

### PingSchedules and the code

`sched[o]` is the row of the schedule of a project or folder; a worker's `pc`
goes through `Ensure`/`EnsureCommit` (`ensure_default_project_schedules`),
`ReadDue`/`PassSchedule`/`PassCommit` (`enqueue_due_ping_schedules`). A handler
either saves a schedule (`LoadSchedule`, `SaveSchedule`, with `Ask` and `Answer`
for "run now") or creates a project (`CreateProject`, `FirstSchedule`,
`SaveSchedule`, `Ask`, `Answer`: the commits of `create_project` and
`import_project_csv`). `Delete` is `delete_project` and `delete_folder`. The
ensure of web startup is the code of `Ensure` by a process that then stops: a
worker that crashes. A save always changes `next_run_at` unless it was and stays
NULL, because two readings of a microsecond clock differ; the coarse clock of
the model must not hide that. An initial state has either no requests at all
(`pc` is `"off"`) or any, so that one run shows what the workers do alone and
beside them.

### SettingsStore and the code

`row` and `credential` are the two singleton rows, `audit` the audit table in the
order of its ids; `req[p]` is what the request or command of `p` has read and
proposes.

| Action | Code |
|---|---|
| `Initialize` | `settings.initialize`, once, from the environment |
| `OpenPage`, `Submit`, `Save` | the settings page: revision and version in the form; `save_group` up to its UPDATE, then `UPDATE ... WHERE revision = ...`, audit entry, commit |
| `AskToken`, `ReplaceToken` | `replace_token`: the name of the event from the row as read, then its UPDATE on the version |
| `RollbackStart`, `UndoNext`, `UndoSave`, `UndoRefresh` | `app/manage.py settings rollback`: the entries newest first, each through `save_group`, then `db.refresh` |

`settings set` is a `Submit` of a page opened just before. `RuntimeValues` is the
constant `Valid`, whatever it accepts; the rule on the import limit, which may
be lowered but not raised above 2 MiB, is written out since a rollback meets it.
A process that dies before its commit has changed nothing, so its death is the
request that never goes on.

### Sessions and the code

`OpenPage`, `Touch` and `Respond` are one request: the signed cookie and the user
row; `session_user`'s UPDATE with its WHERE; the response with its new cookie.
`Login`, `RevokeOld`, `IssueRead`, `IssueCommit` are the login handler from the
check of the password to `issue_session`, which reads the user again. `UpdateUser`
holds the session rows it has deleted locked until `UpdateCommit`. `Logout`,
`CreateUser`, `DeleteUser` and `Restart` (`bootstrap_initial_admin` with the
name the environment then has) are one transaction each. A password is the number of its
hash: a new salt makes every setting different. `removed` in a request and
`current` in a session row only watch: whether the session was gone when the
request began, and the hash the account had when the session was inserted.

### LoginLimit and the code

`Check` is `login_rate_limit_retry_after` with its pruning, `Fail` the wrong password and the
reading of the clock, `RecordFailure` the INSERT and its commit, `CountAfter` the
check after it, `Succeed` the reset. `ever` keeps the failures that pruning
removes, for comparison. Rows may come in another order than their times, since
the clock is read before the INSERT. The settings do not change during a run; a
change while failures are stored would be judged by what pruning left. The class
`LoginRateLimiter` in the same file has no caller and is not modelled.

### CustomFields and the code

`custom[a]` is the JSON column of address `a`; a cell also carries the id of the
column it was entered for, which the program does not know. `LoadAddress` reads,
`Edit`, `Clear` and `Patch` prepare (`update_ip_address`, `clear_ip_address`, the PATCH
of the API), `AddressCommit` writes the columns that differ and the history;
`AddField`, `AddCommit` and `Replace`, `ReplaceCommit` are `add_custom_field` and
`configure_custom_fields` with `replace_custom_fields`. A form may keep, change and
delete columns and add any number of new ones, which get their keys one after
the other (`NewKeys`), each beside those given before it. A kept column that is
gone by the commit fails it: its name or position is written in any case.

A form handler is `async` but makes its database calls without awaiting, after
`require_csrf_token` has read the form: from its first statement to its last it
holds the event loop of its process. A member of `Loop` therefore handles one form
at a time, while the API's handlers and `add_custom_field` run in threads
(`Thread`) beside it. An initial state has threads or not (`"off"`). The properties
about cells and chains are claimed for the forms of one process alone
(`FormsOnly`): beside the API they fail, which is listed below under differences.

### Subnets, Inventory and the code

Addresses are numbers of `Bits` bits. `Hosts`, `Reserved`, `Ordinal`,
`SmallestNetwork` translate `network.py` and `csv_io.py`; `Mapped`, `Importable`,
`Parsed` the reading of the rows of a file, with its header and blank rows. A text
stands for the four columns hostname, os, type and comment: `Stripped` is the
`strip()` of their cells, `Safe` the quote an export puts before a formula, and
`TooLong` what has a column beyond its limit (`FIELD_LIMITS`); `FileSize` is the
bytes of a file, whatever they are. Forms and API store no text of `TooLong`, but
a form that cuts one may leave a space at its end, which a file loses.
`Inventory` starts with one project of an older release whose ordinals are in any
order and which may have rows for the network and broadcast addresses: the
renumbering exists for such rows. `Load` and `Normalize` are
`normalize_project_address_rows` by the web process and the worker, with the two
flushes as sequences of UPDATEs that may meet a taken ordinal (`"clashed"`); they
use no texts, and `Read` keeps none.
`Import`, `ImportCreate`, `ImportFill` are `import_project_csv`, whose project and
rows are committed before its texts are: a process that dies in between leaves an
empty project, and a second try meets its name. `Rendered` is the exported CSV file,
`Page` and `ApiPage` the two paginations. `is_ip_record_empty` has no caller.

## Checks

| Run | Question | What it shows |
|---|---|---|
| `lease` | Do leases keep two workers apart? | Two workers outrun leases of 1 or 2 ticks, die, come back; the timeout changes between claims; a job with or without a lease is left over from before. `LeasesDisjoint`, `LeaseIsHonoured`, and the refinement `QueuePromise` hold. |
| `live` | Does every job end? | `EveryJobEnds` holds with two jobs, a claim window of one and a death at any point. |
| `serial` | Is a project pinged once at a time, and do results move forward? | Yes, with one caller at a time and no lease running out. |
| `race` | The same with two callers | Violated: see below. |
| `sched_admin` | Does what an administrator saves stay, and do passes stay apart? | `SavedStays` holds beside two workers and a death, `EnabledHasNext` with one request at a time; `ActivePerSchedule` holds: while workers alone fill the queue, a project never has more active jobs than schedules over it. |
| `sched_live` | Is every due schedule served and every project scheduled? | `DueIsServed` and `EveryProjectScheduled` hold for a project, its folder and a project created meanwhile, though passes abort, requests stop anywhere and the worker dies once. |
| `sched_created` | Is a new project pinged at once? | Violated: see below. |
| `settings` | Can concurrent saves, tokens and rollbacks be told apart afterwards? | Two administrators and rollbacks from pages of any age, two rotations of the token in a row: `RevisionTrail`, `AuditReplays`, `TokenTrail`, `RollbackOnCourse`. |
| `sessions` | Does a removed session ever serve again? | Two requests at a time of two accounts: `RemovedIsFinal`, `ServedHasSession`, `IssuedUnderThisPassword`, `AdminRemains`. |
| `fields` | Does the history tell what the cells show? | `TextIsRecorded` always; with the forms alone, also those that add two columns of one name, `CellIsRecorded`, `HistoryChains`, `CellsOfTheirOwn`, `ReplaceSucceeds`. |
| `login_limit` | Does pruning change who is refused? | No: `RefusedExactly`, against a definition over all failures; `FailuresBounded` bounds what logins under way add. |
| `inventory` | Do rows, files and pages agree with the network? | Every file of up to two rows and every old order of rows: `UpMeansNormal`, `OrdinalsNeverClash`, `ImportFindsItsRows`, `CidrIsSmallest`, `ExportReimports`, `PagesCover`. |

Each property of a passing run has a mutant in `PROJECT.json`: a plausible bug in
one definition under which TLC finds that property violated.

**Bounds.**

* `lease`: one project and one job are enough, since workers interact over one job
  at a time; `MaxTime = 4` leaves room for a claim, the end of its lease, a second
  claim and the end of that one. `Crash` does not leave a lease behind that
  outlasts the clock, since no recovery from it could be seen.
* `live`: two jobs put one behind a window of size one; leases last one tick.
* `serial`: the lease is longer than the run on purpose. A worker past its lease
  may ping alongside the next one by design, which is what `lease` studies.
* `sched_admin`: one project in one folder, both with a schedule, intervals of one
  tick, three instants; enough for a pass, a save in the middle of it, a death
  and the next pass. `MaxJobs = 3` is one more than the schedules over the project,
  so that the bound on its active jobs is not the bound of the run.
* `sched_live`: `MaxJobs = 5` is more than the passes and requests of that instance
  can add, so that the bound never stops a pass.
* `settings`: `MaxRevision = 5` and `MaxVersion = 3`, of which a run uses one part
  (`FewWrites`): four saves after the first import with one version of the token,
  so that a rollback of two saves can finish or be interrupted, or one save beside
  three versions, so that each kind of token event can follow each other. The larger value lies above
  the cap of the import limit. The two administrators are symmetric.
* `sessions`: two sessions, so that one can replace the other, and three passwords:
  the first, one set by an administrator, one more.
* `fields`: two columns ever created, in one form or in two, so that the second can
  take the key of the first or must not; two entries of history before the last
  edit of an address.
* `login_limit`: lockouts of 1, 2 and 3 ticks with a window of 2, seven instants and
  five failures, with three logins at a time.
* `inventory`: addresses of 3 bits have every prefix length with and without
  reserved addresses; projects of at most 4 addresses make the limit bite; two
  projects ever. Columns hold two characters: a formula of two is too long once it has its
  quote, one of one is not, and one that was cut may end in a space. A file may
  have 4 bytes, where a row counts one and its text one, so that an export may be
  too large. Edits and files write four texts (`Written`), one of them too long, and
  two rows have a text at a time (`FewTexts`). The old project lies in the lower
  half of the addresses.

**Fairness.** Weak fairness of each worker's step: a process that can run runs,
and a probe ends (`ping` has a timeout). In `PingJobs` strong fairness of `Poll` (the
loop reaches `next_poll_at` after finitely many rounds, at most 5 s each) and weak
fairness of the clock. `sched_live` needs no fair clock: what is due stays due. It
has one worker, which is what compose starts. No request, deletion
or death is fair. The other modules state no liveness: their requests may be
abandoned at any point, and nothing waits for them. Symmetry is used for workers
and requests, in runs without liveness.

**Deadlock** is checked in every run: within its bounds no model gets stuck.

## Where the code and its words differ

Shown by a run:

* `race` - two callers that look for an active job before either commits
  (`ping.py:190`) both insert one, and two workers ping one project at once,
  against the comment at `ping.py:402`. The locks protect a job, not a project.
* `sched_created` - a worker may insert the schedule of a new project first; the
  request that created it then fails on the unique key after the project is
  committed, and the first ping, which `README.md:11` promises at once, comes
  an interval later.

Met while modelling, and either allowed by the properties or kept out of them by
the condition named:

* A worker that outruns its lease still marks the job done (`ping.py:449`), also when
  the job was given back to the queue or taken by another, whose results then
  come after the end. `JobLifecycle` allows an end by anyone; what it excludes is a
  second end, a revival or a lost job.
* A hostname of 255 characters, or a comment of 4000, that starts with `=`, `+`, `-` or
  `@` is exported with a quote before it (`csv_io.py:231`), which makes it too long
  for the import of the same file (`csv_io.py:120`). The export of a large project
  with long texts may be larger than `csv_import_max_bytes`. `ExportReimports` says
  that nothing else refuses an export. An XLSX export adds no quote; what is said
  of CSV holds for its cells with `Safe` the identity.
* An import that dies between its two commits leaves a project without texts, and
  the next try is refused as a duplicate (`routes.py:790`).

* A project and its folder due in the same pass get two jobs, with no race: the
  session does not flush before its next SELECT (`ping.py:332`,
  `database.py:36`). `ActivePerSchedule` says that this is the worst that can happen:
  one active job for each schedule over the project, while nobody else asks.
  With requests there is no such bound (`race`).
* A pass writes `next_run_at` from the interval it read (`ping.py:337`), so the
  first run after a save in between comes at the old interval. `SavedStays` is
  about the columns that were saved.
* Requests that save one schedule at the same time write only the columns that
  differ from what each has read (`ping.py:278`, `ping.py:303`). Of two that overlap
  one may set the switch and the other the next run, and after two overlaps a row
  can be switched on with no next run: no pass ever takes it. `EnabledHasNext` is
  therefore about one request at a time (`OneAtATime`).
* `issue_session` reads the user again (`auth.py:54`): a login that checked the old
  password before a change and inserts its row after it is bound to the new one,
  and lives on, although `README.md:192` says that a changed password revokes
  every session. `IssuedUnderThisPassword` says under which hash a session was
  issued, not which password was typed.
* The API's PATCH writes the JSON column whole (`custom_fields.py:107`): a value of a
  column deleted since it was read comes back, and an edit by a form in between
  is overwritten, though `i18n.py:363` says the values are deleted. `FormsOnly`.
* Two projects of one folder with the same network give two files of one name in
  the folder's archive (`routes.py:1301`, `i18n.py:352`). The archive is a pure
  function of the projects and is not modelled.

## Proofs

`PingJobsProofs` holds, for every set of workers, callers and projects, all
requests, timeouts and bounds:

* `TypeCorrect`: `Spec => []TypeOK`. `TypeOK` says what a row may look like and
  what a worker holds where; it is inductive as it stands.
* `LeasesAreDisjoint`: `Spec => []LeasesDisjoint`. Not inductive: nothing in it says
  that a job is claimed again only after its lease. The strengthening `LeaseInv`
  adds `OwnerOK`, what the row of a job tells about a worker that still believes
  it owns it: the job is over, or running under its lease, or was requeued or
  claimed at or after the end of it. Disjointness at a claim follows from
  `OwnerOK` of the earlier holder, because a claimed job was queued with a
  `run_after` that the claim's clock had reached.
* `LeaseHonoured`: `Spec => []LeaseIsHonoured`, from `LeaseInv` and `ClockOK` (no
  instant noted or stored is ahead of the clock).
* `QueueKeepsItsPromise`: `Spec => QueuePromise`. Each action maps to a step of
  `JobLifecycle` or to a stutter, one lemma for each kind of step.
* `NoProjectPingedTwice`, `ResultsAlwaysForward`, `SeenNeverAfterCheck`:
  `OneCaller => (Spec /\ []InTime => []NoDuplicatedWork)`, and the same of
  `ResultsMoveForward` and `SeenWhenChecked`. `OneCaller`: calls do not overlap and
  ask for a project once each. `InTime`: no worker goes on past its lease. The
  comment of `_claim_next_ping_job` promises the first without conditions; it has
  both, hidden. Two overlapping callers give a project two jobs (run `race`), and a
  worker past its lease pings, and writes a result, beside the next holder of
  the job. `QueueInv` says why these are all: a project has one active job at
  most (`OneActive`), a caller adds jobs only of projects without one (`CallOK`), and
  the row of a held job runs under its holder's lease, or went with its project
  (`HeldRow`), so two holders have different projects. `ResultInv` adds that a
  result in hand was probed no earlier than what its address shows.

`SettingsStoreProofs` holds for all fields, groups, values, administrators and
bounds. It first sorts the steps (`StepKind`): an import, a save that met its
revision, a token that met its version, or a quiet step of one request that
reads, proposes or gives up; one lemma for each action says which. Then:

* `SettingsTypeCorrect`: `Spec => []TypeOK`, by `Inv`, which adds `NothingBefore`
  (before the import nothing has been read) and `ProposalsChange` (a save on its
  way changes something, hence has a section).
* `RevisionsAccountedFor`: `Spec => []RevisionTrail`. An appended entry has the
  revision after the row's, which is the last one by the trail itself.
* `NothingOverwrittenUnseen`: `Spec => []AuditReplays`. Needs `OldIsRow`: what a
  writer took for the settings of its revision is what they are while the row
  has that revision. It survives a save because that save moves the row to a
  revision nobody has read; so the WHERE on the revision alone keeps the chain.
* `TokensAccountedFor`: `Spec => []TokenTrail`. Needs `EventFits`, the same of the
  name of a token event and the version.
* `RollbacksStayOnCourse`: `Spec => []RollbackOnCourse`. `TodoOK` says that the list of
  a rollback has, up to its newest entry, every save past the revision it aims at;
  `CourseOK` that a rollback which is alone reads the revision it last wrote, and
  proposes the settings of the next one it goes back to. The lemmas beneath are
  about the reading of the past from the audit table: a save that starts from the
  row changes no earlier revision (`PastStays`), and undoing the only save between
  two revisions gives the settings of the earlier one (`OneBack`, `OneTurn`).

`SessionsProofs` holds for any accounts, sessions, requests at a time, lifetimes and
bounds. One invariant carries its theorems. Besides the types and `AdminRemains` it
says: the password a user has was drawn (`UsersOK`); a session's user exists, and a
session that carries the user's present password was inserted under it
(`SessionsOK`); the token of a cookie was drawn (`CookiesOK`); a page whose session
was gone when its request began is not served, and a password on its way to
the table is nobody's yet (`RequestsOK`); two requests hold the locks of different
rows and draw different passwords (`PairsOK`).

* `SessionsTypeCorrect`: `Spec => []TypeOK`.
* `RemovedSessionsStayRemoved`: `Spec => RemovedIsFinal`. One lemma for each action says
  that counters only grow and no removed session comes back (`Later`): an id is
  given once, and a touch writes only a row that is there.
* `NoPageWithoutSession`: `Spec => []ServedHasSession`. The touch finds the row, or the
  answer is a redirect; the row it found was there when the request began.
* `SessionsOfThisPassword`: `Spec => []IssuedUnderThisPassword`. Needs that a password
  on its way to the table is nobody's yet: otherwise a session of another
  account could be bound to it.
* `AdministratorRemains`: `Spec => []AdminRemains`, from the guard of each change and
  the bootstrap at a restart.

`PingSchedulesProofs` holds for any workers, requests at a time, projects in any
folders, schedules, edits and bounds. The invariant has a part for each place
where a row is used after it was read: `StillAsRead` (with one request at a time, no
schedule is switched between a request's read of it and its write), `PassOK` (a pass
has read each due schedule once, which had a next run and still has its row,
unless its owner is gone), `FormOK` (what a request is about exists, or is gone for
good with the row it read). `WithinSchedules` is about the middle of a pass: while
nobody asks, a pass has added no more jobs for a project than it has looked at
schedules over it, and has added some only if the project has no active job.

* `SchedulesTypeCorrect`: `Spec => []TypeOK`, with the scheduler lock held by one worker
  in the middle of a pass.
* `EnabledSchedulesRun`: `Spec => []EnabledHasNext`. A save that keeps the switch on keeps
  or sets a next run; it needs `StillAsRead`, since the write touches only the columns
  that differ from what the request has read.
* `OnePingPerSchedule`: `Spec => []ActivePerSchedule`, from `WithinSchedules`. A pass that
  finds an active job adds none, so what it commits for a project are all the
  active jobs the project has.
* `SavedSchedulesStay`: `Spec => SavedStays`: no step but a save writes what was saved.

`CustomFieldsProofs` holds for any processes and threads, addresses, names, keys,
values and bounds, and for forms with any number of new columns. `Inv` has two halves. For everybody: types, ids and keys that
tell columns apart, a new column on its way whose id nobody else has (`ColumnsOK`,
`NewApart`), and a history prepared for a commit that has one entry for each text
or cell it changes (`EditOK`). For the forms of one process alone (`Alone`): what the
open form has read is still so, each cell belongs to the column with its key, and
the newest entry about a cell shows it.

* `FieldsTypeCorrect`: `Spec => []TypeOK`. Two columns never share a key: a commit of
  columns brings keys that were in the table or were free.
* `TextAlwaysRecorded`: `Spec => []TextIsRecorded`, for everybody: a commit writes a text
  exactly when it appends an entry about it.
* `CellsAlwaysRecorded`, `HistoryAlwaysChains`: `Spec => []CellIsRecorded`,
  `Spec => []HistoryChains`. The invariant has both for each column: a cell of a
  column shows what the newest entry about it says, or is empty when there is
  none, and an entry starts from what its form read, which is what the cell
  showed. Only the first entry about a column starts from nothing, and a column
  made again under a key is another column.
* `CellsStayWithTheirColumn`: `Spec => []CellsOfTheirOwn`. The replacement sweeps the
  cells of the columns it deletes, and a column it keeps keeps id and key.
* `ReplaceAlwaysSucceeds`: `Spec => []ReplaceSucceeds`. The keys of new columns are a
  recursive function of those given before (`NewKeysDefined`); each exists because
  fewer keys are taken than columns may be created (`FreeKey`, by the pigeonhole
  principle), and differs from the others and from the table's
  (`NewKeysFacts`).

`LoginLimitProofs` holds for any number of logins at a time, settings and bounds.

* `LoginTypeCorrect`: `Spec => []TypeOK`. It says that a pruned row is past every use, and
  is inductive with `IdsLeft`, which counts the ids of failures on their way.
* `AlwaysRefusedExactly`: `Spec => []RefusedExactly`, from `TypeOK` alone (`Refused`). The
  newest row, and every row of the window it closes, are young enough to have
  been kept; and there always is a row that `ORDER BY ... LIMIT` leaves last.
* `FailuresAlwaysBounded`: `Spec => []FailuresBounded`. Not inductive: `WindowsBounded` adds
  to the failures of a window the logins that may still fail in it, of any window
  and not only of those that end in a failure. A full window refuses
  (`FullRefuses`, from `Refused`), so what joins it later was under way.

`InventoryProofs` holds for addresses of any number of bits, any names, files,
processes, handlers and bounds. `InventoryInv` says what a process that starts may rely
on between its reading and its writing (`ReadOK`): a host has kept the ordinal that
was read or has been put in its place, and a project that came since is in order.
That is what makes a renumbering from an old reading harmless. One lemma for
each kind of change to the projects shows that it goes that way only (`Onward`).

* `InventoryTypeCorrect`: `Spec => []TypeOK`, with the unique keys.
* `RenumberingNeverClashes`: `Spec => []OrdinalsNeverClash`. Rows that move have negative
  ordinals between the flushes; rows that stay, and rows somebody else has moved
  meanwhile, are in their places (`NormalizedFacts`).
* `RunningMeansNormal`: `Spec => []UpMeansNormal`.
* `ImportsFindTheirRows`: `Spec => []ImportFindsItsRows`. The addresses of a file are in
  the network and not reserved, hence hosts, and no step takes a row of a host away.
* `ImportedCidrIsSmallest`: `Spec => []CidrIsSmallest`. Two addresses are in one network
  of 2^k addresses exactly when their quotients by 2^k agree (`Division`), which
  they do from the bit length of their difference on (`BitLengthFacts`) and not below.
* `ExportsReimport`: `Spec => []ExportReimports`. The hosts of a network are in no
  smaller network (`SmallestOfHosts`): half as many addresses never hold them, since
  those of a /30 lie across two of its halves. What a file is refused for is then
  the three limits, whatever `Safe`, `Stripped` and `FileSize` are.
* `PagesAlwaysCover`: `Spec => []PagesCover`. Ordinals tell rows apart, so each row has a
  rank of its own and each rank a row (`RanksBy`, `RowsOrdered`). A page starts where
  the one before it ends, the first at the first row and the last at the end
  (`PagesOf`), and parts that meet make the whole (`PartsMakeTheWhole`). The fold by which
  `FlattenSeq` lays pages end to end is compared with the prefixes of the table.

Three arguments there are inductions, over bits and over pages. They go by the least
counterexample (`SetInduction`, on a set instead of an operator), and 2^(n + 1) = 2 * 2^n comes
from the number of subsets of n + 1 numbers.

The theorems rest on the named ASSUMEs of their modules: requests are non-empty
sequences of projects, timeouts and intervals are positive, NULL is no other
value, workers are not requests; projects and folders are different, and what has
a schedule exists; fields have groups, values are numbers, the sections of the
audit table are distinct, the command line is no administrator; the keys
n, n_2, n_3, ... of one name differ and none is the name the history has for a
text (`custom_fields.py`, `routes.py:1457`); finitely many threads serve logins; an
address has at least one bit, a row may be empty, a text is within the limits or
not, and stays a text when it is stripped or gets its quote.

Only model-checked: the liveness properties, which are out of the provers' reach, since
they do not reason about fairness and ENABLED. Every other property of a passing run
is a theorem.

## Not modelled, and the plan

Next: the claim for databases without advisory locks (SQLite): one worker, same
UPDATE.

Left out: rendering, translation, search, filters and the reading and writing of
CSV, XLSX and ZIP (wording and layout, no state); archives of folders (a pure
function); folders beyond their schedules and the renaming of projects (single
statements); the rights `can_create`, `can_edit`, `can_delete` and
`can_manage_columns` and the CSRF token (a guard of every handler, read with the
user); the batches, the semaphore and the heartbeat file of the worker (how fast,
not what); `run_ping_pass` (no caller); the migrations (run alone, once); the
environment (read once); deployment files. A deadlock between two workers that
write the rows of one project (`ping.py:132`) is invisible with one address per
project; PostgreSQL breaks it by failing one of them, which is `RunFails`.
