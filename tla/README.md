# home-dns: TLA+ models and proofs

home-dns looks after the DNS of a home network: it keeps a Pi-hole's blocklists up to date
behind a row of safety gates, explains what is blocked and why, watches the disk and alerts,
collects query metrics and anomalies for a dashboard, and backs itself up. It is a Python package
(`src/src/home_dns`) run as short commands started by timers, plus one long process, the dashboard
(FastAPI with a collector thread), plus a React frontend (`src/dashboard/frontend`). State lives in
small JSON files written atomically, in content-addressed files, and in one SQLite database.

This directory models the parts where order, crashes and concurrency decide, model-checks them
on small instances with TLC and proves their main properties with TLAPS for every instance.
`PROJECT.json` lists the components, the runs, the mutants that show that each property can
fail, the source lines each definition stands for, the hazards and the theorems.

## Inventory

| Component | State | Operations | Hard behaviour | Correct when | Here |
|---|---|---|---|---|---|
| Artifact store (`storage/artifacts.py`) | per source: `artifacts/<sha>.txt/.json`, temporary files, `state.json` with three pointers | activate, rollback, reconcile, read | crash between file-system calls, deletions that fail, files that decay, cleanup beside an update | a named version is on disk; only intact lists become current; nothing is left over | `ArtifactStore`, `VersionStore` |
| Blocklist pipeline (`pipeline/blocklists.py`, `blocklists` in `cli.py`) | the store, the freshness counters | update with 13 gates, rollback | state read before a download and used after it, one source failing for all, crash between activation and counters | no activated list blocks a protected name; anomalies are reviewed; counters are the streaks | `BlocklistPipeline`, `ListText` |
| Tripwire (`core/blocklists.py`, `core/domains.py`) | none | `find_tripwire_hits`, `covers` | both directions of the subdomain relation | reports exactly the lists that block a protected name | `Tripwire` |
| Policy engine and filtering configuration (`core/policy.py`, `core/filtering.py`, `policy explain`) | none | check, decide, sources_for | checks made once over rules that expire; seven layers; lists that cannot be read | what was accepted stays acceptable; protected names are spared; no list is passed over in silence | `Policy`, `PortableRegex` |
| Incident monitoring (`core/monitoring.py`, `storage/monitoring.py`, `monitoring` in `cli.py`) | `incidents/storage.json`, `incident_events` rows | observe, advance, save, record, print | flapping, reminders over relapses, a command dying between two writes | state is what the results call for; transitions alternate; reminders are spaced | `IncidentMonitor` |
| Alerting (`core/notify.py`, `storage/notify.py`, `notify/`) | `anti_spam.json` | should_send, send with retries, save | commands that overlap, a crash between send and save, a late delivery retried | cooldown and hourly cap hold; silence has a cause; only unanswered attempts duplicate a message | `Notify` |
| Metrics collector (`collector.py`, `storage/dashboard.py`, `core/metrics.py`) | RAM: registry, pending rollups, watermark; SQLite: devices, addresses, rollups, watermark | poll, observe clients, resolve, flush, stop | crash between poll and flush, failed transaction, retried window, device numbers handed out in RAM, DHCP churn | every query counted once; devices keep their identity; every flush is acceptable; every query is stored in the end | `Collector` |
| Anomaly analyzer (`core/anomaly.py`) | a window per device in RAM | observe, prune, evaluate | newest-first pages against pruning from the left, a cap | reports what the log shows, as far as it can know it | `Anomaly`, `QueryFeed` |
| DNS providers (`providers/`) | the Pi-hole session | query log pages, clients, session renewal | paging while queries arrive, a session shared with the API's threads, rejected and failed requests | each query of a window is read once | `QueryFeed`; inputs of `Collector` and `BlocklistPipeline` |
| Backups (`storage/backup.py`, `storage/sqlite.py`) | backup directories with manifests, snapshots | create, verify, restore, prune | files that change or go between hash and copy, two backups in one second, removals that fail, half a restore, pruning beside a backup | a published backup is complete; the newest valid one survives; only recorded content is restored | `Backups` |
| Storage thresholds, cleanup and temp files (`core/storage.py`, `storage/cleanup.py`, `storage/tempfiles.py`) | the data directory | classify, plan, clean | cleanup beside running commands | never removes what a command uses | steps of `Backups`, `ArtifactStore`; input of `IncidentMonitor` |
| Sessions and login limiter (`api/auth.py`, `core/auth.py`, `api/context.py`) | users and sessions tables, limiter in RAM | login, check, touch, logout, change a device, set_user | concurrent requests between a check and its use, threads racing in the limiter, which has no lock, accounts set from another process | failures are bounded; every change is backed by the account; sessions end for a cause | `Sessions` |
| SQLite migrations | schema version | apply | crash in a migration | all or nothing | not modelled (below) |
| Configuration, views, CLI wiring, frontend, scripts | none, or read-only | - | - | - | not modelled (below) |

How they meet: the CLI's update command reads the configuration, drives the pipeline, which
calls the store, and then saves the counters. `policy explain` reads the configuration and the
store's current lists. The storage check reads the disk and the saved incident and writes the
incident and one row of the dashboard's database; cleanup reads the same band and calls the sweep,
`prune_backups` and the store's `reconcile`, with no lock between it and an update or a backup. The
collector thread calls a provider and writes the database in one transaction; the API reads it and
writes sessions, names and groups, and shares the provider's Pi-hole session. `auth set-password`
writes users and revokes sessions from a process of its own.

## Modules

### ArtifactStore, VersionStore

`ArtifactStore` is the directory of one source. Each file-system call that changes it is one
action, so a process can die (`Abort`) or another can run between any two: `WriteText` and
`RenameText` are the two halves of `_atomic_write`, `SwitchToTarget` the replacement of
`state.json`, `PruneOne` each `unlink`. `before`, `target` and `doomed` are the command's local
variables and are lost with it. Nothing in the code takes a lock: `Serialized` is the operator's
discipline, and both of its values are run. A file's bytes are kept as far as the hash check
tells them apart (`rotten`); `Rot` lets stored lists decay between commands.

`VersionStore` is what callers may believe: three pointers that move atomically over a set of
stored lists that contains what they name. `ImplementsVersionStore` is the refinement, with
`versions <- state` and `stored <-` the lists on disk; the intermediate files are stutters.

### Tripwire, ListText, BlocklistPipeline

A domain is the sequence of its labels from the top, so a parent is a prefix. `Covers` is
`covers()`, `Blocks` the lookup of the test provider, `TripwireHits` the three lookups of
`find_tripwire_hits` in sets of names and parents. `Spares` is what the tripwire is for.

`ListText` is where lists come from: lines are what the regular expressions make of them,
`ParseList` reads them one by one in the three formats, `AttemptAccepts` is what `_attempt` asks of a
download, `RenderArtifact` and `ParseArtifact` are the stored form. The lists of the two pipeline
runs are what it makes of texts, refused ones among them. TLC evaluates what is claimed of it as
assumptions of these runs: the parser's loops and counts mean what they should over all texts of three
lines (`TextsAreParsedAsMeant`), a list is read back from its artifact as it was and from no first part
of it (`ArtifactsReadBack`), a download that declares its entries is accepted whole or not at all
(`CutDownloadsAreRefused`).

`BlocklistPipeline` is a command for several sources: `ReadState` (`previous_sha`), the attempts
over primary and fallback (steps 1 to 7 of `_attempt` end in `Accepted(l)` or in a rejection),
the gates in their order (`BlockedByTripwire`, `Unchanged`, `NoEntries`, `HeldForReview`,
`TestFails`/`TestPasses`), `Activate`, and after all sources `CountReport` for each. The store
is the three pointers that `ArtifactStore` implements, plus what decays: lists (`rotten`) and
states (`corrupt`). Meanwhile the operator rolls back, edits the protected domains between
commands, and the process dies. `streak`, `halted` and `missed` are history variables: the number of
kept runs since a valid update, the sources with a held, blocked or failed run among these, and the
sources whose last outcomes a command did not count, as it died or left with an exception. Step 9, the parsing
back of the rendered list, can only fail by a fault of the process and is with the steps that
may fail (`TestFails`).

### Policy

Extends `Tripwire`. A configuration is one record of what the rule files hold. `Dangling`,
`Repeated`, `Contradicts` and `Threatens` are the groups of errors `check_filtering_config` finds,
`Accepts` is `load_filtering_config`, `Matching` the layers that match a name and `Decide` the first
of them in `Order`. `policy explain` is `Load`, `ReadList` for each configured source (or `NoStore`),
`Explain` and `Exit`; meanwhile rules expire (`Tick`) and lists switch or decay (`Switch`). The
loader reads its files one after the other; since any mixture of two edits is again a
configuration, one step loses nothing. Deny patterns are checked against the protected domains
themselves only, not against what is below them; `DenySparesProtected` says so.

`PortableRegex` is the scanner that decides which patterns a rule may hold, over tokens.
`PortableIsTheGrammar`, evaluated in the `policy` run, compares it with the grammar of the portable subset
(`Derive`, for Python's `re`) for every pattern up to six tokens: the one pass with its depth and
previous token accepts what the grammar derives, except what matches the empty string.

### IncidentMonitor

One `monitoring status --apply` is `Observe` (disk band, load, `advance_incident`), `Save`,
`Record` and `PrintAlert`, with a `Crash` between any two, and `Elapse` between commands. The
incident keeps its state and two streaks; `last_notified_at` is an age, capped at the cooldown,
as nothing tells older ones apart. `OnProblem` and `OnOk` are the two halves of
`advance_incident`. The history variables are the facts the properties compare with: the real
streaks, the last transition fired, the time since the last alert.

### Notify

`notify test --apply`, in several processes at once. `Suppress`, `Allow` and `LoadFails` are the
load of `anti_spam.json` with `should_send`; `Deliver`, `Reject`, `PostFails` and `AppendFails` the
sending, with `Exhausted` the retry budget of `advance_restart_budget`; `Save` writes what was made
of the file as it was loaded, so it overwrites what others saved since. The file holds numbers of
commands where the code holds their times (`at`). `lost` and `missed` are history: commands that the
file does not count, because they died, were overwritten or were in a file that decayed. The
command sends one fixed event, so there is one key; dry runs change nothing; the clock does not go
back; the delays between attempts are left out. A failed send is counted like any other: the
cooldown is spent.

### Collector

The provider (clock, query log, client table: external) runs beside the thread: `PollFirst`,
`PollEarly`, `PollError`, `PollRead`, then `ObserveClient` and `AddEntry` for each client and
entry, then `Flush`, which commits or fails as a whole, or `NotDue`. A rollup is kept as the
queries it counts: for each resolution and query, the sequence of devices it was added for, so a
query counted twice is a sequence of two and a lost one an empty sequence. `Accepted` is the
schema (MAC unique, addresses refer to devices). `Crash` takes everything in RAM.

### Anomaly, QueryFeed

`Anomaly` is the pure part: a window (`Record` prunes from the left and caps), the five signals and
the score. `QueryFeed` puts it between the log and the database. A request to the Pi-hole is
`CheckSession`, `TakeSession` or `Authenticate`, and its answer (`ClientsRead`, `BlockedRead`,
`QueriesRead`, and `ListsRead`, for which a page with a blocked query may ask first), a rejection with one retry, an error, or `PollRaises`: `_session_id` reads `_sid` a
second time after its check, and another thread may have dropped it (`OtherThreads`). The header
value is then `None`, `httpx` raises a `TypeError` that `poll` does not catch, and the cycle ends
without its flush. Pages follow the code: the Pi-hole's offset, the mock's cursor. `Observe` feeds
the window and raises the anomaly, `Flush` stores it with the watermark. The table keeps anomalies
by the id that AUTOINCREMENT gives (`rows` is the last one), so one stored twice has two ids.

Which ends of a window the Pi-hole includes is not documented, and the adapter takes what it is
given: `included` is one of `Ends`, chosen once, and `HalfOpen` says that it is what the contract of
`DnsProvider` asks. `WindowReadOnce` holds for either: what lies inside a window is read once and
nothing outside it; its own end points are promised for half-open windows only. `OtherThreads` acts where
the collector is about to look at the session; elsewhere it makes no difference.

Otherwise the Pi-hole is assumed to answer honestly: an empty page that announces more would make
`_read_window` ask for ever, and entries that appear in the log later than their time would shift the
offsets. One device and one group's thresholds stand for all, as windows do not meet.

### Backups

`storage backup`, `storage cleanup` and `storage restore`, in two processes, at the grain of one
file: `TakeSnapshot`, `HashFile` for all, the second listing of the files (with the last hash), then
`CopyFile` for what is there by now, `WriteManifest`, `Publish` (the rename), `Reclaim` (the `finally`),
then `List` and, part by part, the removal of what `prune_backups` decided on. The owner edits, adds and
deletes files, published copies decay, processes die anywhere. `HashFails` is a failure before the `try`,
`CopyFails` and `PublishRefused` are those in it; a file listed and gone (`Gone`) fails, one gone before it was
listed is passed over. Removals ignore errors, so `DropSnapshot` and `DropTemporary` may leave what they
should remove. A version stands for a content and its hash.

Commands that start in the same second use one snapshot (`Sharing`) and change it under one
another (`Disturbed`); backups of the same second use one temporary directory. `worn`, `edited`, `deleted`,
`abandoned` and `reused` are history: what decay or a removal has touched, what changed or went while a
backup read it, whose command died with a snapshot or could not make or remove it, and the stamps
that a second backup took: a backup may be pruned and its name given again in the same second, so all
properties but that of the snapshot except these stamps. `storage verify` only reads.

### Sessions

Routes run in a pool of threads, so a request is a sequence of steps, one for each transaction or
use of the limiter under one key: `BeginLogin`, `Ask` (the lock check) for client and name, `LookUp` (the
account and its password), then `RecordFailure` for both keys, or `Reset` for both, `Welcome` and
`CreateSession`; `BeginRequest` (the row is read), `Check`, `TouchSession` or `FindTooOld` and
`Drop`, then `UpdateDevice`. `SetPassword` and `SetUser` come from another process and delete the
user's sessions in the same transaction as they write the account. `Stop` and `Start` empty the
limiter. Unknown names go the way of a wrong password, as in the code; refused paths and malformed requests
change nothing.

The limiter takes no lock. Two threads under one key whose deque is changing (`Contended`, `Unsettled`) may each
drop a time where one should go, append to a deque that is no longer there, or drop from one that is
empty or remove a key that is gone, which raises (`BreakOff`). `Left` is every outcome of that. Time
passes anywhere in a request, at most `MaxSpan` once it has taken the time (a bound of the run, not used by
the proofs); a token is used again when all have forgotten it.

History: a session remembers the password it was begun with and its last use, a request whether an
account was set while it was under way. `failed` are the failed logins themselves, not what the limiter
holds of them, less those a race lost or let in (`slipped`), and `disturbed` the threads in the limiter
through whose key another has gone.

## Runs

| Run | Question | Bounds |
|---|---|---|
| `store_serial` | Commands one after the other: crash anywhere, failed deletions, decay | 2 commands, 4 hashes (three retained and a new one), 3 failures |
| `store_cleanup_race` | The same two commands at once, no crash: violated | 2 commands, 3 hashes |
| `incident_debounce` | Any readings, reminders, relapses, dying commands | 3 problems, 2 good results, cooldown 2, streaks to 4, 2 crashes |
| `collector_counts` | Each query counted once, and stored in the end | 1 address, seconds 0 to 3, 2 failures, two resolutions |
| `collector_devices` | Identity of devices over churn and restarts | 2 addresses, 2 MACs, seconds 0 to 2, 1 move, 1 failure |
| `pipeline_gates` | What reaches `current` | 1 source, 5 lists from 13 downloads, 4 protections, 2 disturbances |
| `pipeline_counters` | Counters and alerts over many commands | 2 sources, a fallback, streaks to 3, 2 disturbances; the `state.json` of one source may decay |
| `policy` | Checks, layers and notes while rules expire and lists switch | every mixture of the rule files of `MCPolicy`, 2 groups, 3 names, seconds 0 to 2, patterns to 6 tokens |
| `backups` | What is published, pruned and restored | 2 processes, 2 commands, 1 file and the database, 1 backup kept, 1 failure, 1 edit or deletion |
| `notify` | The guard over overlapping and dying commands | 2 processes, 4 commands, 3 policies, hour 2, seconds 0 to 3, 1 failure |
| `sessions` | Logins, requests and account changes at once | 2 threads, 3 logins, 2 sessions at once, 1 account, 1 change, seconds 0 to 3, 1 second for a request |
| `query_feed` | Paging, session races, windows, anomalies with the watermark | 4 queries, pages of 2, window 2, cap 3, 1 failure; half-open windows, or the other end included |

Why the bounds are enough. The store never holds more than three versions and one new one, and
two commands are what a timer and an operator make. The streaks are compared with thresholds
only, so counting one beyond the largest is counting for ever. The collector's windows join
end to end: three poll boundaries give a first, a middle and a last window, a retried one and a
window across two buckets (lengths 1 and 2). The pipeline's lists are chosen to differ in what the
gates tell apart (none, one name, a second one, too many, a wildcard over a protected
name), and the protections stand for none, a parent, a name three labels below a wildcard, and a tree.
Two disturbances are a crash and a failure, or a decay and a rollback, in either order. The rule
files of `policy` hold each kind of error once, rules that expire at different times, and patterns
that match a parent or a child. Two processes with one command each are every overlap of two
backups, of a backup with a cleanup and of a restore with either; earlier backups, whole or broken,
are there from the start. Four messages are two full windows of two; a limit that is
overrun needs two processes. Two threads and a change from outside are the races of the code, which
all lie between one read and one write of a single request; the proofs cover any number. Four
queries over a page of two and a cap of three give a full page, a page cut by another
answer, and one entry that falls out of the window. Symmetry is used where the constants are only
compared for equality and no liveness is checked. Deadlock is checked except in `backups`, `notify`
and `sessions`, whose time and commands are used up at the end of a behaviour.

What the bounds do not reach: in `sessions` a touch that is delayed long enough to set the last use
of a session back by more than the idle time (`back`) needs more than three seconds; the condition
is in `SessionsEndForCause`, and the run does not tell it from its absence. The proof, which has no
bound on time, covers it.

### Fairness

Only `collector_counts` assumes any, for `EveryQueryIsStored`. The run loop's steps are weakly fair:
the thread goes on, `Collector.run` catches what a poll or flush raises and waits again. Restart is
weakly fair unless the collector was stopped on purpose, by `Restart=on-failure` of
`deployment/systemd/home-dns-dashboard.service`. `Flush` is strongly fair: it is enabled after
every poll, and `flush_interval` passes again and again, though not at each poll. Crashes, errors and
failed transactions are bounded and never fair. That a poll of a Pi-hole comes to an end follows from
the offset, which grows with each answer, and is not checked.

### Disagreements

One disagreement between the code and its documents is a run (`findings` in `PROJECT.json`): a
cleanup beside an update deletes the list the state then names. While the models were made,
others came up. Each is described here; where a property speaks of it, a condition in that property
keeps it out and says so, and where none does, it is only described.

Of the core:

- *Emergency band* (`docs/implementation-plan.md:141`): an incident opened as a warning never raises
  the critical alert when the disk goes over 90%; severity is decided by transitions only.
- *First watermark* (`collector.py:3-5`): what a first start polled before its first flush is lost in a
  crash, as the watermark is only in memory (`collector.py:161`). `EveryQueryIsStored` excepts it.
- *Client without MAC* (`docs/specs/a7-backend.md:73-74`): listed without its MAC at an address that a
  device with a MAC holds, it becomes a new device (`collector.py:79`).
- *Freshness* (`docs/blocklists.md:48-49`, `docs/specs/a5-monitoring.md:20-21`, ADR 0004): only `activated` and
  `unchanged` are said to reset the count of stale runs; a run that is held, blocked or failed does so too
  (`core/monitoring.py:193-195`). Kept, kept, held, kept raises no critical alert.
  `CounterCountsKeptRuns` and `ThirdRunIsCritical` count since the last valid update, and
  except such runs (`halted`) from the counter being equal and the alert being raised.
- *History* (`cli.py:1255` and `:1263`): the incident is saved before its transition is recorded; a command that
  dies in between leaves an incident without its row, and no later command adds it. `missed` excepts it.
- *Three versions* (`artifacts.py:9`): with one command at a time, `Activate(s2)` after a rollback
  from `s2` names `s2` twice and the third version is pruned. `store_serial` does not state it.
- *Recovery* (`config/monitoring/monitoring.yaml:5`): with `recovered_after: 1` the first good
  result goes from `incident` to `ok`, never through `recovering`.
- *Rollback without tripwire* (`docs/specs/a3-filtering-policy.md:55`): protected domains that grew
  after an activation are not looked at when a rollback makes the older list current again.
  `UpdateSparesProtected` speaks of updates only for that reason.
- *Unchanged* (`docs/blocklists.md:87`): a source is `unchanged` when the download has the hash in
  `state.json`, though the stored list may have decayed: the good copy is not written.
- *One source for all*: a `state.json` that cannot be parsed raises out of `run_update`, and no source
  of that command is counted, so none raises its alert. `pipeline_counters` lets one source's state
  decay; the sources whose outcomes were lost are excepted (`missed`).
- *Rollback during an update*: the delta is taken against the list that was current before the
  download. `AnomaliesAreReviewed` is run and proved for `Serialized = TRUE`; with `FALSE` TLC
  refutes it.

Of the backups:

- An invalid newest entry is deleted as soon as a valid one exists, though the pruning is said to keep
  it for inspection.
- The snapshot "must never outlive this command" (`cli.py`), but it is made before the `try`, so a
  failure while it is filled leaves it, and its removal ignores errors (`cli.py:1135`), so a command may leave
  it and end well (`abandoned`). Two commands of one second share it: the first to end takes it from the
  other, whose backup then may hold no database (`SnapshotLivesWithItsCommand` and
  `OnlyEditsSpoilBackups` except it by `edited`).
- A file that changes between its hash and its copy makes a backup that never verifies, but counts as
  valid, so pruning may remove the last one that could be restored.
- The files are listed once to be hashed and again to be copied (`backup.py:162` and `:181`): one deleted
  in between is passed over, and the published manifest lists a file that the backup does not hold.
  `PublishedIsComplete` excepts it by `deleted`.
- Restoring "never restores anything that fails checksum verification" (`docs/restore.md:57`) and verifies each
  file independently (`:45`): all files are verified first and not hashed again when they are copied, so a
  copy that decays in between reaches the configuration (`Broken` in
  `RestoreWritesWhatWasRecorded`), and a removal meanwhile ends the command half-way; if the
  backup is gone, running it again does not finish it.
- A clock set back makes the new backup the oldest, and its own pruning removes it; an interrupted
  removal may leave a directory that still lists as valid.

Of the dashboard:

- *Failed logins* (`core/auth.py:93`, `docs/specs/a7-backend.md:134`): "at most" the limit of failures per key and
  window. Threads that are all past the lock check before one records its failure go over it, by their
  number less one (`FailuresAreBounded`); and as the limiter has no lock, a race of two threads
  may lose a failure or let in a login that is locked (not counted in `failed`), or answer 500.
- *Existing sessions revoked* (`cli.py`, `auth set-password`): a login that has verified the old password still
  creates its session, and a request that has read its session goes on with the role it read.
  `ChangesAreBacked` excepts both (`overtaken`, `changed`).
- *Idle time*: a request that decides on what it read before another's touch may end a session in use,
  and a late touch may set the last use back. `SessionsEndForCause` excepts both.

Of the anomalies, providers and notifications:

- *Windows of the Pi-hole* (`docs/specs/a7-backend.md:54-55`): the adapter is said to filter the half-open window
  client-side, as the ends are not documented; `query_log` does not (`pihole_v6.py:388-391`). If
  the Pi-hole includes other ends, a query at the very time of a watermark is counted by two windows or by none,
  and one asked at the end of a window that is being read shifts its pages. `WindowReadOnce` and
  `AnomaliesMatchTheLog` claim exactness for `HalfOpen`; what `Collector` proves of counting rests
  on half-open windows.
- *File notifier* (`notify/base.py:44`): `send` never raises for a delivery failure; `FileNotifier` lets an
  `OSError` through (`AppendFails`), and the command ends without saving its decision.

- Pages come newest first, so the cap drops the newest entries of one large poll, and old entries
  behind a recent one stay. `AnomaliesMatchTheLog` claims completeness only while all that is known
  fits the cap.
- A threshold's span longer than the window is never validated (`AnomalyAssumption` excludes it).
- The cache of `_source_for_list_id` is not refreshed after a failure; names become `list:<id>`.

## Proofs

All theorems hold for every value of the constants that satisfies the named assumptions of the
module (`StoreAssumption`, `MonitorAssumption`, `CollectorAssumption`, `DomainAssumption`,
`PipelineAssumption`, `PolicyAssumption` with `ConfigurationsAssumption`, `NotifyAssumption`,
`SessionsAssumption`, `BackupAssumption`, `FeedAssumption`), which TLC also evaluates in every run. Bounds such as `MaxFailures` are
constants too: the theorems hold for every bound.

- **ArtifactStore_proofs.** The safety properties need the facts a command relies on between two of
  its steps: while it prepares, what it read is still the state; what it has verified is intact; what it is
  about to delete is not retained. Those are the strengthening. They hold for serialized commands,
  which is an assumption of those theorems, as the race run shows it must be. The refinement maps
  every step to a step of `VersionStore` or a stutter.
- **IncidentMonitor_proofs.** The properties speak of the saved incident, which is computed one step
  earlier: the invariant says that a command about to save holds exactly what `advance_incident`
  makes of the incident on disk, that the two streaks kept are the lengths of the runs of results,
  and that the reminder clock of an open incident is the time since its last alert.
- **Collector_proofs.** The invariant has a counting half (three marks `first <= saved <= watermark`,
  and in the middle of a poll the entries still to add, say exactly where each query has been
  added) and an identity half (what RAM knows beyond the database is marked dirty; MACs are unique in
  both). From it come exactly-once counting, acceptable flushes, restarts and stable devices.
- **QueryFeed_proofs.** In a log in the order of time
  the queries older than a time are the first ones (`Older`, from `Downset`), a window is a piece
  of the log, and the invariant says which piece has been read (`Reading`): the newest queries of the
  window down to the Pi-hole's offset or the mock's cursor. That is exact for half-open windows; for any other
  ends a weaker one (`Covering`) says that no query inside a window is passed over. A page of either provider makes that piece
  longer (`PieceOfPiece`, `PiecesJoin`) and new queries change none of it (`AskChangesNoWindow`), so
  `WindowsAreReadOnce` needs no case for what happens to a session. `AnomaliesAreStoredOnce` needs
  that nothing is raised beyond the watermark (`RaisedIsRead`) and that ids are given in order.
- **Blocking_proofs.** First `TripwireIsExact`: no hits if and only if no name that the protected domains
  stand for is blocked. The argument: two domains above the same name are prefixes of it, so one is the other
  or a parent of it, and each case is one of the three lookups. The converse says that there are no
  false alarms. Then the pipeline: the gates look at a list several steps before it is activated. The
  invariant carries what they found to the activation (`Cleared`, `Reviewed`), says that the list read at the
  start is still current while rollbacks wait (`Current`), and what each uncounted outcome will do to its
  counter (`Counting`, `Ended`, `Reporting`). `TripwireIsExact` turns the absence of hits into the
  property itself. `AnomaliesNeedReview` assumes `Serialized = TRUE`.
  Then `Policy`, whose specification has names of its own (`PolicySpec`) so that both can be extended
  here. A rule that is active later is active now (`ActiveBefore`), so an error of a
  later time is an error now, and the absence of errors at loading is an invariant. A rule and a
  protected domain that cover the same name cover one another (`CoverEachOther`, from the tripwire's
  `AboveTheSame`), so the two directions the check looks at are all there are. `FirstLayer`
  says what a reason tells of the layers before it, without the order's numbers; the walk over a
  name's parents finds what a provider would block (`BlockedIsListed`). All four properties of the
  run are proved.
- **Notify_proofs.** `AntiSpamHolds` speaks of the commands that count; the guard sees only the file,
  and a command saves what it made of an older one. The invariant relates them: the file covers each
  counting command that may still matter (within the cooldown or the hour), and so does the state each
  command under way will save, leaving out those it will overwrite (`Covered`, `CoveredBy`). A save turns
  the second into the first. The hourly limit is a fact about cardinalities of windows: the
  window of the command that saves lies in what it saves, and no other window grows. All three
  properties of the run are proved.
- **Backups_proofs.** A stamp belongs to one backup: until that is published, no other process
  writes, prunes or restores under it, unless a second one took it (`StampInv`). Every step leaves
  what it does not use (`Frame`), so most of the invariant is about the process that moves. What a backup has
  hashed is in its manifest and, while nobody edits, still at the source (`Hashed`), what it has
  copied has the recorded hash (`Copied`); publishing turns that into `PublishedInv`, and wear
  (`Decays`) can only take away from it. Whoever decided to remove what is the newest valid backup now
  did so before a stamp was reused (`NewestInv`), which only needs that stamps belong to one. All five
  properties of the run are proved, for any number of processes that start whenever they like: what
  commands of one second do to one another's snapshot is in `Frame` and in the history.
- **Sessions_proofs.** `ChangesBacked` carries "backed by the account as it is, or the account was set
  meanwhile" along the path of a session: the login that verified a password, the row it creates, the
  copy a request reads, the role it goes on with. `FailuresBounded` has two parts. The limiter holds every
  failure that is counted and recorded, under an entry of its own (`Held`), so whoever is let in without a race
  found fewer than the limit; and the failures of a key together with the logins that are past
  `is_locked` and have not failed yet are at most the limit less one and one for each thread (`Room`). `SessionsEnd` needs a second invariant (`EInv`): a row's recorded last use is less than
  `TouchEvery` behind the true one, or the row is marked as set back; a request that has read a row holds
  an earlier state of it, since times only move forward in an unmarked row and a token names one session
  ever; so whoever finds the row too old finds it so rightly, or has read it before the last use was
  written. All three properties of the run are proved.

Only model-checked: `EveryQueryIsStored` (liveness under fairness) and `AnomaliesMatchTheLog`, which
says what a fold over the queries read (`Windowed`) computes: for every input that is an induction
over data, out of the prover's reach. No recursive operator is used in a module with theorems; what
the other folds in the code compute is modelled step by step, or as sets.

## Not modelled, and what comes next

The reasons are with each component in `PROJECT.json`.

- *Migrations* run once per version inside SQLite's transactions; integrity checks, checkpoints and
  vacuum are one call each.
- *Views* read the database once for each answer and lay it out. The overview reads the watermark and the
  rollups in transactions of their own, so a flush in between shows the older time with newer
  counts; nothing is stored of it.
- *Frontend*: a late answer after the inputs changed is shown until the next tick
  (`usePolling.ts:29`); no state of the system depends on it.
- *Configuration schemas* validate static input in one pass.
- `deploy_blocklist` of the Pi-hole has no caller in production code: only the mock, as the test
  provider of the pipeline, is deployed to.

Worth adding next: an abstract store of
published backups that `Backups` implements, two overlapping storage checks over one incident
(`cli.py:1251`), and the window of the analyzer as an abstract set that `Record` refines.
