# The garden jobs observatory, specified

This directory keeps TLA+ beside the Swiss garden jobs observatory: modules that model its daily
cycle, what the cycle calls, and what surrounds it; TLC configurations that check them on small
instances; and theorems proved with TLAPS. Paths in this document are relative to the repository
root.

    tlc -workers 2 -config MCCycleRetry.cfg MCObservatoryCycle    # one run
    tlapm Vacancies_proofs.tla                                    # the proofs of a module

`PROJECT.json` lists the components, the runs, the lines every definition stands for, the hazards
and the theorems.

## 1. The system

Django applications over one PostgreSQL database. Nothing runs as a server that computes: every
state change comes from a management command, a script or the Windows task that starts one.
Concurrency is that of operating-system processes with database sessions.

| Component | Code | State it keeps | Operations | Modules |
|---|---|---|---|---|
| Daily cycle | `src/operations/services.py`, `models.py` | `observatory_cycle`, source attempts, operational events, an advisory lock | `run_cycle`, `cycle_lock`, `_seal_failure`, `_seal_timeout` | `ObservatoryCycle` |
| Scheduling wrapper, Windows task | `src/operations/scheduling.py`, `windows_scheduler.py` | envelopes, a child process, a registered task | run, time out, kill, publish; register | `ScheduledRun` |
| Collection and posting lifecycle | `src/collectors/pipeline.py`, `src/observations/lifecycle.py` | collection runs, postings, observations, lifecycle events | `collect`, `record_active`, `record_healthy_absences` | `PostingLifecycle`, `PostingPromise` |
| Source adapters | the adapters of `src/collectors` | the context of the next page | `parse_listing`, `parse_detail` | `Discovery`, `DetailPages` |
| Governed HTTP | `src/collectors/governed_http.py` | none | a request with its redirects and its origin policy | outcomes in the two above |
| Point-in-time selection | `src/observations/pit_selection.py` | none | `select_posting_states` | `PointInTime` |
| Green relevance and its reviews | `src/observations/green_relevance.py`, `review.py`, `review_continuity.py` | assessments, human decisions, applications | record, inherit, read at a cutoff | `ReviewAuthority`, `PointInTime` |
| Review authority lineage | `src/core/review_authority_lineage.py` | packages, one governing batch | export, verify, import | `AuthorityLineage` |
| Geospatial resolution | `src/observations/geospatial.py`, `geospatial_batch.py` | resolutions, the cache of the geocoder | a batch, in one transaction | `LocationPolicy`, `Geospatial` |
| Deduplication | `src/vacancies/engine.py`, `snapshots.py` | runs with immutable snapshots; vacancies, memberships and episodes as a mutable projection with a watermark | `run_deduplication`, `merge_vacancies`, `reconcile_effective_vacancy` | `VacancyIdentity`, `VacancyEpisodes` |
| Deduplication reviews | `src/vacancies/review.py`, `review_continuity.py` | review items, human decisions, applications | `resolve_review`, the continuity command | `VacancyIdentity` |
| Premium segments | `src/premium_segments` | classification runs of a cutoff | `run_classification` | `PointInTime` |
| Dashboard | `src/dashboard/services.py` | snapshots of two runs | `build_dashboard_snapshot` | `PointInTime` |
| Day-0 readiness | `src/day0/services.py` | assessments with their evidence | `assess_day0_readiness` | `Readiness` |
| RAW object store | `src/core/storage.py` | files under logical keys | `write_bytes`, `read_bytes` | `ObjectStore`, `WriteOnce` |
| RAW lineage | `src/core/raw_lineage.py` | manifests, an operational root with a sentinel | capture, consolidate | `RawLineage` |
| Backup | `src/operations/backup.py` | dumps and manifests | `create_backup` | `Backup` |
| Acceptance, reference data, settings, views | see section 6 | | | not modelled |

**How they interact.** `run_cycle` calls the others in a fixed order: cohort, collection of each
source, green continuity, dedup, dedup continuity, premium, geospatial, dashboard, readiness. It
pins the artifact of each stage in its row; all of them must carry the same `as_of`, the final
cutoff. The same operations are also commands of their own (`collect_source`, `run_deduplication`,
`resolve_review` ...), which take no part in the cycle's lock. So the cycle excludes other cycles
but nothing else, and what a stage reads may change while it runs. The stages meet in rows of the
database: observations, decisions and resolutions with times that are earlier than their commits.
They meet the outside in files that no transaction undoes: RAW objects, dumps, envelopes.

**What is hard here**, component by component, and what makes it correct:

* *Cycle.* A copy of the whole row lives in memory for hours and is written back by `save()`, which
  checks the stored status in a separate statement. Recoveries are admitted on a stale heartbeat.
  A crash frees the lock and leaves the row RUNNING. Correct: one owner, results never replaced,
  attempts numbered and not repeated after success, a cutoff not before its evidence, the status of
  a failed row names the stage, every invocation returns.
* *Collection.* Two collections of one source overlap; the listing is read long before the absences
  are written; `observed_at` precedes the commit; the site changes between two pages and between
  the listing and a detail; runs die between any two transactions. Correct: a row is a projection
  of its events; a closure rests on two negatives of separate complete runs; no absence without a
  complete healthy listing; a complete listing is the site, up to withdrawals and to what its pager
  cannot notice; a record tells of the posting it names, or of one its adapter takes for it.
* *Cutoff.* Rows commit late with an earlier time, people answer for the past, resolutions depend on
  a directory that is imported again. Correct: what was known at a settled cutoff stays.
* *Authority.* Decisions, their inheritance and their import check and insert in separate
  statements, beside each other. Correct: a finished pass has covered its targets, past answers
  stay, copied rows belong to one batch, and a target has one authority (section 5).
* *Deduplication.* Pairwise outcomes are closed transitively; merges in the projection are permanent
  while clusters are recomputed for each cutoff; memberships are cached in memory; runs come in
  another order than their cutoffs; people decide beside them. Correct: clusters are components,
  human decisions last, the projection never splits and never goes back, episodes are those of the
  evidence.
* *Files.* Publication by link or rename, with older names, a file system that ignores case,
  crashes between two publications, and readers that come between. Correct: what was acknowledged
  is read, what a sentinel or a manifest accepts is there.
* *Geocoder.* Batches share requests, lock them in different orders and roll back after the provider
  has answered. Correct: one answer for a request, leftovers are harmless, batches end.
* *Scheduler.* Three timers of almost the same length. Correct: an envelope says what became of the
  cycle.

The hazards in `PROJECT.json` give the line of each.

## 2. Modules

Most modules are components of their own. Modules whose components share no state are checked in
one run (`MCBoundary`, `MCEvidence`, `MCVacancyIdentity`): a behaviour picks a `focus` in its
initial state and follows that module, so the reachable states are the sum and not the product of
theirs. `Absent` holds the absent value they share.

### ObservatoryCycle

A process per invocation of `run_cycle`. `pc[p]` is the statement it executes next, `mem[p]` its
copy of the cycle row, `loc[p]` its other locals, `save[p]` how far it is in
`ObservatoryCycle.save()`: *check* is the `SELECT` of the stored status, *write* the `UPDATE` of
every column. Every statement that touches the database is a step of its own, so other invocations
act between any two of them, also inside `save()`. Global are the row of each cycle, the attempts,
the alerts, the advisory lock with its holder, and a clock.

| Actions | Code (`src/operations/services.py`) |
|---|---|
| `LoadRow` `ReplayCompleted` `RefuseRetry` `AdmitRetry` `AdmitNew` `CreateCycle` `CreateCollides` | `run_cycle` 632-683, before the lock |
| `TryLock` `LockRefused` `OtherRunning` `PeerRunning` `AnnounceAbort` `AnnounceConflict` | 357-370, 684-728 |
| `BeginRun` `CohortResolved` `BeginCollection` `SkipCollected` `StartSource` `RecordAttempt` `AfterSource` `FinishCollection` | 729-840 |
| `EnterStage` `StageTimesOut` `StageFails` `GreenContinuity` `Dedup` `DedupContinuity` `ContinuityConflict` `Premium` | 842-915 |
| `GeospatialFirst` `GeospatialRealign` `GeospatialAligned` `GeospatialRepeat` `GeospatialFails` | 917-983: the cutoff moves once and the pinned artifacts move with it |
| `Dashboard` `Readiness` `Finish` `AnnounceFailure` `AnnounceSuccess` `ReleaseLock` | 992-1118, 465-529, 366-370 |
| `SaveCheck` `SaveRefused` `SaveWrite` | `models.py` 212-222 |
| `Crash` `Tick` | a killed process whose session frees the lock; the clock |

What is abstracted: an artifact is the `as_of` it was built for; a collection succeeds or fails, a
geospatial batch created evidence or found it; sources come in any order; authorization is either
value; an event is its code, and SOURCE_INCOMPLETE stands for SOURCE_DEGRADED too. Left out: the
comparison with the previous successful cycle, which only adds two informational events, the event
GEOSPATIAL_PROVIDER_DEGRADED, `started_at` and `finished_at`, payloads. The collection run and its
attempt are recorded in one step, since both commit before the next statement of the cycle reads
either. The SQLite branch of the lock, which grants it always, is a test setting and not modelled.
GREEN says that every source has a success in this cycle, of whatever age: freshness decides about
AMBER and an event only (section 5). `crashes` is a history of the deaths: of which cycle, and
whether that process had sealed it and not announced it. `OtherRunning` looks at every other cycle:
all of them are of one target cohort version, the filter of `services.py` 703.

### ScheduledRun

`wrapper[i]` is an invocation of `run_scheduled_observatory.py`: `Start`, the checks (`Refuse`),
`Launch`/`LaunchFails`, `CycleEnds` or `CycleTimesOut`, `AskStatus`, `PublishEnvelope` or
`PublishFails`. `TaskLimit` is the `ExecutionTimeLimit` of the Windows task, which kills a wrapper
it started itself. A tick does not pass a timer that is due. `registrar[r]` is `register_task`:
query, then create without `/F` (where `schtasks` asks before it replaces a task, and nobody answers
it). A cycle is its exit code. Not modelled: the query and removal
commands, the checks of paths.

### PostingLifecycle and PostingPromise

Collectors run one source concurrently. A listing is read (`FetchListing`), then details one by one
(`BeginDetail`, `RecordActive` with the race of `MissPosting`/`CreatePosting` in
`get_or_create_posting`), then the absences in one transaction (`RecordAbsences`), then the run is
finished (`Finish`). Each of these commits alone; `Crash` may come between any two, `ListingFails`,
`DetailFails` and `AbsencesFail` take the error paths of `pipeline.py` 251-316 and 385-409.
`observed_at` is taken in `BeginDetail`, the commit is a later step. `PostingPromise` is the
abstract lifecycle of a posting: seen, missed, closed after a delay; no runs and no processes. It is
checked within `MCEvidence`, and alone in `posting_absence`.

Abstracted: the site returns any set of postings in one step (`Discovery` looks inside), a `limit`
is a smaller request; `posting_closed_after_last_seen`, a database constraint, is a guard. A failing
last save is a crash. Branches that never fire are not modelled: `latest is None` for a posting with
a row, the comparison of counts and sets after the details.

### Discovery and DetailPages

`Discovery` is the listing loop of one collection with the pagers of all adapters. A page is what
the site shows for a request: the adverts (`Entries`, by their `Rank`), perhaps the total (`Totals`)
and a link to a next page. `OffsetPage` ... `IndexPage` are what each adapter makes of it: adverts,
next request, total, or an error; adapters with the same pager share a definition. `ReadPage`,
`FinishListing` and `FetchFails` are the pipeline; `PublishAdvert`, `Withdraw` and `Move` change the
site between two requests. A move is what
`docs/gate_011c/major_required_sources_reconnaissance_v0_1.md` 28-31 observed: offsets that reorder
and overlap rows. The same document (96-98) describes the cumulative pages of Basel-Stadt, the
pager "SEEN". Basel-Landschaft, Schwyz and Zug ("LEGACY", "LEGACIES"), St. Gallen ("OPEN"),
Basel-Stadt and the feeds need not find a total on a page; without one the pipeline compares
nothing, and Basel-Stadt counts on against the total of an earlier page.

`DetailPages` is the details loop: `Compares` says what the `parse_detail` of an adapter checks
against the entry and what it may take from the entry; `Rewrite` and `Redirect` change the source.
There are four ways to compare the identity: exactly; as a part of the address of the page
(Schaffhausen's mirrored pages, the city of St. Gallen, the canton of Zurich), where `Within` says
which ids are parts of which; only if the page tells one (Winterthur, where the pages of `silent`
tell none); not at all (JSON-LD, which compares titles). `Confused` are the postings that an adapter
may thus take for another. No document promises an exact comparison, so this is not in section 5:
`RecordsTellTheirAdvert` says that nothing else gets under an identity. How an adapter reads HTML,
JSON and PDF is left out: it decides what a page says, not what is done with it.

### PointInTime

Rows have the instant at which they were made and become visible when their transaction commits:
`Observe`/`SaveObservation`, `Decide`, `AddProfile`, `Locate`, `Save`. `Select` is
`select_posting_states`, `EffectiveAt` the green result, `Private` the protected context;
`RunDeduplication`, `RunClassification` and `BuildSnapshot` with `Universe` (`_validate_runs`) are
the stages of a cutoff. `CutoffSettled` says that no row of the cutoff is still to come. `Select`
has no counterpart of `first_seen_at__lte=as_of` (`pit_selection.py` 48): `first_seen_at` is set
once, from the observation that is committed first (`lifecycle.py` 24), and the database refuses an
earlier one (`posting_seen_dates_ordered`), so a posting with an observation at the cutoff passes.

### ReviewAuthority and AuthorityLineage

A session records a decision (`RecordDecision`, `CleanDecision`, `SaveDecision`) or runs a
continuity pass over the targets of a cutoff (`BeginPass`, `PassOver`, `FindExisting`,
`CleanExisting`, `Inherit`, `CleanApplication`, `SaveApplication`, `Ambiguous`, `FinishPass`).
`full_clean` and the insert are separate steps, as they are separate queries at READ COMMITTED; the
unique constraints speak at the insert. `Effective` is `effective_green_result`, with the error of a
stored application that is not clean any more. `AuthorityLineage` adds importers: `BeginImport`
(verification, dependencies, collisions), `CleanRows`, `CommitImport` (rows and the governing batch,
all or nothing). The package is its rows; files, digests and the relationship graph are left out.
`OneAuthority` is what ADR 0019 says of a target; the code does not hold it (section 5), and
`AnswersStay` says what the exception does to the answers for the past. The command
`apply_review_continuity` is a looser copy of the pass and not modelled.

### LocationPolicy and Geospatial

`LocationPolicy` is pure: what is asked of the geocoder (`Request`), what the input fingerprint
holds (`Input`), what an answer decides (`FromSource`, `FromAnswer`). `Geospatial` runs batches over
it: `LockResolution`, `LockCache`, `Fetch`, `Store`, `CommitBatch`, with advisory locks held to the
end of the transaction, `Fail`, PostgreSQL's `BreakDeadlock`, and `ImportDirectory`, which changes
what a locality names. Objects in the RAW store survive a rollback. Left out: the scope check of the
RAW store and the counters of a batch.

### VacancyIdentity

A run of `run_deduplication` is one transaction with the local state `run`: clusters (`root`), the
projection it is about to commit (`graph`), the memberships it holds in memory (`held`), the pairs
ahead (`todo`). It takes a pair per step: `Inherit` when `_prior_human_decision` finds one decision,
`PriorConflict` when it finds several, `Judge` otherwise; `Commit` writes everything, `RunFails`
nothing. Human decisions run beside it: `OpenResolution` is the locked check and insert of
`resolve_review`, `CommitResolution` its merge under the watermark lock and its commit, `Apply` the
continuity command.

| Definition | Code |
|---|---|
| `Begin` | `engine.py` 455-492: replay check, watermark, initial memberships |
| `Assesses`, `Judge`, `Inherit`, `PriorConflict` | 493-600, 77-129 |
| `Union` | `snapshots.py` `RunClusters` |
| `Link`, `Merge`, `Unite` | 167-202, 237-277, 586-595 |
| `ReviewsDistinct`, `Commit`, `RunFails` | 601-633 |
| `OpenResolution`, `CommitResolution` | `review.py` 18-86 |
| `Apply` | `review_continuity.py` 139-273 |

What the evidence says of a pair is one value of `Material`: AUTO_MERGE, kept apart, or one of the
materials with a score for REVIEW. It is drawn when a cutoff first looks at the pair and never
changes (`PointInTime` shows what late evidence does to a cutoff). A cutoff lies strictly before the
clock. Two runs exclude each other by the watermark row; the first two, which find no such row, by
the unique membership of a posting. No two postings are first seen at the same instant, which takes
away the tie-break of `merge_vacancies` by primary key. Barriers are not respected transitively: two
postings with a hard barrier may share a cluster through a third, which is how the engine is
written. Left out: position counts; the application branch of `_prior_human_decision` (107-129),
whose source decision the direct branch already finds.

### VacancyEpisodes

What a vacancy is made of, over the lifecycle events of its postings, which are named by their
positions in the chronology (`Seen`, `Sightings`, `Closures`). `LinkAll`, `Merged`, `Canonical`,
`Synced` with `SyncedEpisodes` (`_sync_episode`), `Reconciled` and `ReconcileAll` make the mutable
projection, `RunState` with `EpisodeNumber` the state a run stores. The age of a membership is the
cutoff of the run that created it. `RunCutoff` is a run that
unites at most one pair, `ResolveMerge` a human merge; chains of merges are `VacancyIdentity`'s.
Each event takes a clock reading of its own: a reappearance with the very timestamp of the closure
would open another episode at each reconciliation (`engine.py` 333). Three peculiarities of the code
that the model keeps and no property contradicts: the state of a run follows its canonical posting
alone, while the projection stays ACTIVE if another member is sighted after the closure; a vacancy
may be ACTIVE with its last episode closed after a merge has changed the canonical posting; a
reconciliation opens at most one episode.

### Readiness

`FinishRun`/`SaveRun` are collection runs that take their time before they are saved, `Align` the
runs and the snapshot of a cutoff with their reviews, `ResolveReview` a person, `AssessReadiness`
the assessment: `Eligible`, `Critical`, `Covered`, `Decided`, and what is stored with it
(`CompletionStatus`, `Blockers`). Left out: the creation of the policy and of the source universe,
descriptive metrics.

### ObjectStore, WriteOnce, RawLineage, Backup

`ObjectStore` is `write_bytes` by processes that may die: `CheckExisting`, `Publish`, `Compare`. A
name is exact on POSIX and folded on Windows, where a key has an encoded name and may have an older,
unencoded one. A key is one name: the directories of the real ones are lower-case digests and fixed
words, which no system folds together (`storage.py` 121-147, 200-226). `WriteOnce` is the abstract
promise: a key gets one value, for good. `RawLineage` adds `Capture` of a manifest, consolidation
(`BeginConsolidation`, `ScanDestination`, `CopyObject`, `VerifyCopy`, `Seal`) and the collectors
that write beside it (`CollectObject`, `RegisterObject`), while source files change (`Edit`) and
processes die (`Killed`). `Backup` is `create_backup`: dump, inventory, publication of the dump,
then of its manifest, with `Abandon`, `ManifestFails`, `Discard`; `UnlinkFails` is an error of the
file system after the manifest got there, and `unremoved` remembers it (section 5).

## 3. Runs

Deadlock is not checked: clocks, runs and decisions are bounded, and each invocation ends, so a
model stops where the system would go on.

| Run | Properties | Bounds |
|---|---|---|
| `cycle_retry` | `CutoffCoversEvidence` `OwnerSaveAccepted` `FailedStageNamed` `ResultKept` | one cycle, two invocations, ticks 0..2, `Timeout` 1, one crash |
| `cycle_pair` | `AtMostOneRunning` `ConfigurationPinned` `AttemptsOnce` `GreenComplete` | two cycles, two sources, two releases, two invocations, one crash, no tick |
| `cycle_live` | `InvocationReturns` `FailureAlerted` | one cycle, one source, two invocations, one crash, with fairness |
| `vacancy_runs` | `ClustersAreComponents` `HumanRespected` `NeverSplit` `ProjectionOfNewest` `EpisodesReal` `Settled` | three postings, three cutoffs, two decisions; beside it two postings with five events and two runs |
| `evidence` | `RowProjectsEvents` `ClosureEvidence` `AbsenceFromHealthyListing` `SnapshotAccounted` `KeepsPromise` `PassesCover` `BatchAccounts` `AnswersStay` `KnowledgeStands` `RebuildsAgree` `FutureCannotRepair` `ReplayOnlyClears` `AuthorizationExplained` | two collectors, delay 2, one posting through three runs, two through two; three assessments, two sessions, two importers, four packages; one cutoff with three rows; five sources in three strata, two cutoffs, five runs |
| `boundary` | `EnvelopesTellTheCycle` `RegistrationTrue` `ManifestVouches` `AcknowledgedReads` `SealedRootServesRows` `ListingAccounted` `RecordsTellTheirAdvert` `OneAnswerPerRequest` `LeftoversHarmless` `BatchEnds` `KeepsWriteOnce` | two invocations and registrations, three backups, four writes, sites of none, one, four or five of six adverts with two changes under each of twelve pagers, two details with two titles and one id within the other, two batches |
| `cycle_immutable` (violation) | `CompletedImmutable` | two invocations, no crash, no tick |
| `posting_absence` (violation) | `NoManufacturedAbsence` | one posting, two collectors, three runs |
| `vacancy_projection` (violation) | `ProjectionFollowsRun` | four postings, one cutoff |
| `deployment_overrun` (violation) | `OverrunRecorded` | as `boundary`, the scheduler alone |
| `point_in_time` (violation) | `OneEvidence` | as `evidence`, the cutoff alone |
| `two_authorities` (violation) | `OneAuthority` | as `evidence`, two sessions alone, which begin three passes or decisions |

Why these bounds are enough to be interesting. *Cycle:* one invocation may fail, time out or die and
the second recover, or both may run at once; three ticks separate start, timeout and a stale
heartbeat; two sources are the least of which one can fail; every action fires. A view hides the
events in runs whose properties do not mention them: no action reads them. *Posting:* a closure
needs two negatives, so three runs allow a sighting or a failure between or beside them; two
collectors are the least that overlap; `Staged` follows the second posting through two runs only,
and of three runs at most one fails or dies.
*Vacancies:* three postings are the least for transitivity; the three cutoffs are applied in every
order. `LateInit` starts from three of the initial states: two postings, in either order of age, are
known to all cutoffs, so that two decisions about them can be taken in two runs and meet in a third
(`PriorConflict`); the posting with the lowest or the highest key joins at the last cutoff. Four
postings are the least for the stale membership of `vacancy_projection`. Five events let a posting
close, return and close again while the other merges with it. *Evidence:* two assessments of one
material are copied and a third is made here, so a decision can be made, inherited and imported for
one target at the same time; of the packages two are accepted and differ in their applications, two
are refused. The readiness has one blocked canton and a minimum of four, so that one source decides;
only the city has a history of several runs (`OneHistory`), since sources are independent of each
other. The cutoff has one deduplication run and the two snapshots that `RebuildsAgree` compares
(`OneComparison`). *Boundary:* keys that differ in case only, one with an older name, are the least
for every collision of names. With two adverts a page, five are three pages, the least with one
between the first and the last; a sixth may be published. Two changes let one advert leave and
another move or come between two pages. The id of one posting is a part of that of the other, and
either, both or none tells it. The targets of two runs need the same two requests in opposite
orders. A wrapper reads of a registration only that there is a task, so the
two are followed apart (`Apart`).

Symmetry is used for sets whose members the modules compare for equality only (in `evidence` some
of these are the same model values in modules that share nothing else, so that one permutation
serves all); never for the
postings and cutoffs of `VacancyIdentity` and `VacancyEpisodes`, which are ordered, and never for a
set that a run's liveness property reads: in `boundary` the symmetric sets (processes and contents
of the RAW store) do not touch the geocoder.

**Fairness.** `cycle_live` assumes `WF_vars(Step(p))` for each invocation: a process that is neither
killed nor blocked executes its next statement. Each statement of the cycle is bounded, since HTTP
requests and subprocesses have timeouts and the advisory lock is tried, not waited for. `boundary`
assumes `WF_geoVars(GeoStep(b))` for each batch: a batch does wait for its locks, requests to the
provider have a timeout, and PostgreSQL breaks a deadlock after its own timeout, which is one of the
steps. Nothing is assumed of crashes, failures, clocks, sites and people.

## 4. Proofs

All theorems hold for every value of the constants that the named assumptions allow (the absent
value is none of the real ones, bounds are natural numbers, tables at the start are well typed), in
particular for any number of processes, sources, postings, cutoffs, runs and decisions, and for any
bound.

**`ObservatoryCycle_proofs`.** Types first (`TypeCorrect`). The lock: `LockExclusion` alone is
inductive, `AtMostOneRunning` is not, since a stale copy could write RUNNING; `Exclusion` adds that
an invocation past `BeginRun` is alone (`AloneWhileBegun`) and that one that has not begun only
writes its refusal (`RefusalsOnly`). The attempts need what the collector read when it chose a
source (`CollectorKnows`). `Stored` relates copies and rows: a copy past admission has the release
of its row (`Pinned`), and from its first save on the lock holder works on a row without a result
(`OpenRow`); `ConfigurationStays` and `ResultsAreKept` follow. `Journeys` follows an invocation
through its stages: what has succeeded before the stage it is in (`Track`), that everything built so
far is of the cutoff and the cutoff is not before an attempt (`Chain`), and which sources it has
passed (`Swept`). A journey is disturbed by nobody else, because only the lock holder collects
(`OthersJourney`); a row is what a journey leaves. From it come `FailuresAreNamed`,
`CutoffsCoverEvidence`, `GreenIsComplete` and, with `Stored`, `OwnersSave`.

**`PostingLifecycle_proofs`.** `Shape` ties the status of a posting to its count of negatives,
`Dated` the times of a run to the clock; with them every commit is a step or a stutter of
`PostingPromise` (`LifecycleKeepsPromise`). `CollectInv` says what a collector knows of its run in
each state, from which `AbsencesAreListed` and `SnapshotsAccounted` follow. `RowInv` says that the
row projects the events; the counter of negatives is the length of the suffix of absences, which is
why closures rest on two of them (`RowsProjectEvents`, `ClosuresRest`).

**`Vacancies_proofs`.** For the episodes, `HistoryTrue` says that the chronology is ordered and that
a posting is new first, and `Good` that the projection is true to the evidence of the applied
cutoff: every vacancy that is not merged still has its founder, each of its episodes opened with a
sighting of a member, each but the first after a closure that the one before had opened by. Since
that cutoff is over, later events leave its evidence alone (`FinalEvidence`). `EpisodesReal` alone
is not inductive: the count of dark times bounds the episodes because each opening picks a dark time
of its own (`EpisodesCounted`, an injection). `ReconciliationsSettle` rests on `SyncAgain`: an
episode that has just opened is later than the closure, so it is not opened twice. For the identity,
the invariant `IInv` has the material that is drawn once (`Drawn`), the run under way (`UnderWay`),
the decisions it has respected so far (`RespectsSoFar`) and what is committed (`Recorded`). The
lemma `UnionComponents` shows that merging two roots gives the components of one more edge.

**`AuthorityLineage_proofs`.** `AuthorityInv` says of each session that its draft still is what it
checked (`DraftTrue`) and that its pass has covered the targets behind it (`PassTrue`), of each
importer what it may still insert (`ImportersTrue`), and that the copied rows are those of the
governing batch. What is covered stays covered, because assessments, decisions and applications only
grow (`Grows`, `CoveredStays`); an answer for the past changes only by a row dated then, or to an
error, when the second authority comes.

**`RawLineage_proofs`.** `StoreInv` is about names and contents: a key has a file under one of its
names at most, and what was acknowledged is what is read. `LineageInv` is about the roots: the rows
that are registered, the manifest the consolidation works on, and the sentinel that comes last. The
refinement of `WriteOnce` follows from the first.

**`Cutoff_proofs`.** In `PointInTime` a cutoff that the clock has passed, and that no open
transaction has a row for, stays so (`SettledRemain`): rows are dated when they are written, so what
it selects is fixed, which is what `KnowledgeStands` and `RecordsStand`, the records of its
snapshots, need. In `Readiness`, `SettledStands` says that a settled cutoff still yields the
eligible sources of its assessments, and no critical review they did not have. `CantonsRemain`, a
lemma on cardinalities, shows that an authorized assessment has its floor of cantons.

**`Operations_proofs`.** `WrapperTrue` and `Envelopes` say what a wrapper knows of its child at each
step, and `Successor` what a step makes of a wrapper; `Named` and `Owned` which dump belongs to
which process, and that no dump still to be accepted has a manifest, but for those of `unremoved`.

**`Sites_proofs`.** `ListingInv`: a site lists an advert once and never again after it was
withdrawn. What follows depends on the pager. Where one total or one page covers the site, nothing
needs to be known of the order (`Counted`): as many were found at the end as are listed, so as many
were missed or found in vain as were withdrawn (`MissedForGone`). A pager that follows links has
`Lost` the adverts it missed on the pages it has read; a withdrawal loses at most one more, the one
at the edge, and so does a change of place, because no two adverts have the same rank; a new advert
loses none (`Linked`). Basel-Stadt counts what it has seen against totals that may be old: none of
them is below the number of the adverts of the section that were there at first (`Base`) and are not
withdrawn, so what is missed is paid for by one withdrawn or published (`SeenSoFar`). The courts
(`Summed`) and Thurgau (`Filtered`) have the argument of the total for both their surfaces.
`DetailInv` keeps what a posting has said so far (`SaidSoFar`), which bounds what a record may be
made of, and that each record tells its advert, or one page of a posting that the adapter takes for
it (`Tells`).
`GeoInv` of the geocoder: a lock has one holder (`OneHolder`), a batch between its look at the cache
and its entry holds the lock of the request (`RequestsLocked`), a request has one entry
(`OneEntry`), and committed rows rest on committed entries and stored answers (`RowsRest`,
`ObjectsKept`).

| Theorem | Property of the runs |
|---|---|
| `OneCycleRuns` | `AtMostOneRunning` |
| `ConfigurationStays` | `ConfigurationPinned` |
| `ResultsAreKept` | `ResultKept` |
| `AttemptsAreOnce` | `AttemptsOnce` |
| `GreenIsComplete` | `GreenComplete` |
| `CutoffsCoverEvidence` | `CutoffCoversEvidence` |
| `FailuresAreNamed` | `FailedStageNamed` |
| `OwnersSave` | `OwnerSaveAccepted` |
| `LifecycleKeepsPromise` | `KeepsPromise` |
| `AbsencesAreListed` | `AbsenceFromHealthyListing` |
| `SnapshotsAccounted` | `SnapshotAccounted` |
| `RowsProjectEvents` | `RowProjectsEvents` |
| `ClosuresRest` | `ClosureEvidence` |
| `EpisodesAreReal` | `EpisodesReal` |
| `ReconciliationsSettle` | `Settled` |
| `ClustersOfEveryRun` | `ClustersAreComponents` |
| `PeopleAreRespected` | `HumanRespected` |
| `MergesAreForever` | `NeverSplit` |
| `ProjectionIsOfNewest` | `ProjectionOfNewest` |
| `PassesCoverTargets` | `PassesCover` |
| `BatchesAccount` | `BatchAccounts` |
| `AnswersOfThePastStay` | `AnswersStay` |
| `KnowledgeAlwaysStands` | `KnowledgeStands` |
| `RebuildsAlwaysAgree` | `RebuildsAgree` |
| `AssessmentsExplained` | `AuthorizationExplained` |
| `PastIsNotRepaired` | `FutureCannotRepair` |
| `ReplaysOnlyClear` | `ReplayOnlyClears` |
| `WritesAreRead` | `AcknowledgedReads` |
| `SealIsComplete` | `SealedRootServesRows` |
| `StoreWritesOnce` | `KeepsWriteOnce` |
| `ManifestsVouch` | `ManifestVouches` |
| `EnvelopesAreTrue` | `EnvelopesTellTheCycle` |
| `RegistrationsStand` | `RegistrationTrue` |
| `ListingsAreAccounted` | `ListingAccounted` |
| `RecordsAlwaysTell` | `RecordsTellTheirAdvert` |
| `RequestsHaveOneAnswer` | `OneAnswerPerRequest` |
| `LeftoversNeverHarm` | `LeftoversHarmless` |

Each of these modules also proves the types of its component; `LockExcludes` and
`ReviewsHaveTwoSides` are results no run states.

Three definitions were written so that they can be reasoned about: `Latest` of `PointInTime` is the
set of the newest rows, `VacancyEpisodes` names events by their positions, and a page of `Discovery`
is a set of adverts, given by their ranks.

**Only model-checked.** Every invariant and action property that a passing run checks is proved.
Liveness (`InvocationReturns`, `FailureAlerted`, `BatchEnds`) and whatever needs ENABLED stay with
TLC, and so does the soundness of the symmetry and of the constraints of the MC modules.

## 5. Where code and documents disagree

* **A completed cycle can be replaced by a refusal** (`cycle_immutable`). An invocation refused by
  the lock saves its old copy as ABORTED_CONCURRENCY, and `save()` compares the stored status before
  the owner completes the row and writes after it. `models.py` calls completed cycles immutable.
  `ResultKept` shows the extent: the result disappears, but is never replaced by another result.
* **An absence that never was** (`posting_absence`). The absences of a run come from a listing read
  before the sighting that a concurrent run committed meanwhile, and are recorded after it.
* **The projection misses its own run** (`vacancy_projection`). `memberships` is read again for the
  merged pair only. With clusters A-B, A-C, B-D and C the oldest, the merge of B and D uses the
  vacancy that A-C has just merged away: D is moved into a dead vacancy or stays apart.
* **A timeout that is not recorded** (`deployment_overrun`). The limit of the Windows task equals
  the process timeout of the wrapper and starts earlier, so the task can end the wrapper before it
  has published exit 124; the contract wants the process timeout recorded.
* **Two evidences in one snapshot** (`point_in_time`). `_validate_runs` selects the observations of
  the cutoff again instead of those the deduplication compared; an observation that commits between
  the two runs gets into the snapshot beside clusters computed without it.
* **Two authorities at one target** (`two_authorities`). A decision and the inheritance of an
  earlier one each look for the other before they insert, in queries of their own, and no constraint
  spans the two tables, although ADR 0019
  (`docs/decisions/0019-gate-011g-review-continuity.md` 44) says that direct and inherited authority
  exclude each other. At a cutoff between the two, `effective_green_result` then takes the
  application and raises (`review.py` 72-75). `AnswersStay` shows the extent: the answer becomes an
  error, never another answer.

Two more have no run of their own:

* **GREEN that is not fresh.** Section 11 of
  `docs/operations/daily_observatory_operating_contract_v0_1.md` (178-179) wants all attempts of a
  GREEN cycle fresh. `services.py` 1044 gives GREEN to every cycle without a failed source, so a
  recovery that skips what it collected long ago seals GREEN on stale sources. `GreenComplete`
  states what the code keeps: every source has a success, and AMBER has a reason.
* **A manifest without its dump.** `_atomic_publish` removes its temporary file after the link is
  made (`scheduling.py` 318-320). If the file system refuses that, `create_backup` takes the
  manifest for unpublished and deletes the dump (`backup.py` 218-222), and the manifest stays. But
  "dump/restore execution failure and manifest failure publish nothing accepted", says
  `docs/operations/gate_014_production_scheduling_acceptance_v0_1.md` 58. The model takes this step
  (`UnlinkFails`), and `ManifestVouches` excepts the manifests it left; every other one has its
  dump.

What `ListingAccounted` grants is no disagreement: no document promises more of a listing that was
read while its site changed. It is a measure of what can be missed there: one advert for each that
was withdrawn, for each change of place where only links are followed, and for each new one in
Basel-Stadt.

## 6. What is left

**Not modelled, and why.** `core/production_acceptance.py` and `scripts/gate_pre_audit.py` measure a
finished database and the repository from outside: one pass of reads without a behaviour of its own.
The reference importers run once, in one transaction. The text rules of the classifiers, the scores
of the deduplication and the parsers are data: the modules take their outcomes as inputs. Views only
read; settings and the management commands only call. The designation of a RAW root and the file
format of packages are configuration.

**Partly modelled.** The status of a component in `PROJECT.json` is "partly" where an operation that
changes state is missing: the note says which. `VacancyIdentity` takes the evidence of a cutoff as
final, and a dedup decision and its application at one target at the same time are left to
`ReviewAuthority`, whose shape they share: a later run of that pair finds two decisions of one
material and takes `PriorConflict`.

**Next**, if the project goes on: a `CycleLedger` (planned, running, sealed once) that
`ObservatoryCycle` implements except for the first point of section 5; `VacancyIdentity` composed
with `PointInTime`; the continuity command beside `resolve_review` at one target.
