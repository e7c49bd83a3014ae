---------------------------- MODULE ObservatoryCycle ----------------------------
(***************************************************************************)
(* The daily observatory cycle: operations/services.py run_cycle and the   *)
(* rows it keeps (operations/models.py).  Every invocation is an operating *)
(* system process with a copy of the cycle row in memory.  It shares with  *)
(* the others the table of cycles, the append-only source attempts, the    *)
(* operational events, one PostgreSQL advisory lock and the evidence in    *)
(* the database.  Nothing but the lock makes two statements of one         *)
(* invocation atomic: cycle.save() reads the stored row, then overwrites   *)
(* the whole row with the copy in memory.                                  *)
(***************************************************************************)
EXTENDS Integers, Sequences

CONSTANTS
    Cycle,       \* cycle identifiers an invocation can name
    Invocation,  \* processes that call run_cycle, each of them once
    Source,      \* the governed source cohort
    Release,     \* configuration fingerprints (code revision, timeout, policies)
    None,        \* the absent process, source or release
    Timeout,     \* timeout_seconds
    MaxAge,      \* required_source_max_age_hours
    MaxClock,    \* bound: the last tick of the clock
    MaxCrashes   \* bound: processes that may die before they return

ASSUME CycleAssumption ==
    /\ None \notin Invocation \cup Source \cup Release
    /\ {Timeout, MaxAge, MaxClock, MaxCrashes} \subseteq Nat

VARIABLES
    row,         \* the observatory_cycle table
    attempts,    \* the observatory_source_attempt table, oldest first
    alerts,      \* the codes in the operational_event table, by cycle
    lock,        \* the session that holds the advisory lock
    clock,
    crashes,     \* history: the processes that died, oldest first
    args,        \* the command line of each invocation
    pc,          \* the statement an invocation executes next
    save,        \* how far it is in cycle.save()
    mem,         \* its copy of the cycle row
    loc          \* its other local variables

database == <<attempts, alerts>>
vars == <<row, attempts, alerts, lock, clock, crashes, args, pc, save, mem, loc>>

-----------------------------------------------------------------------------
(* Types.                                                                  *)

Never == -1
Stamp == Nat \cup {Never}

Completed == {"SUCCEEDED", "SUCCEEDED_NOT_AUTHORIZED"}
Failed == {"FAILED_COLLECTION", "FAILED_CONTINUITY", "FAILED_DEDUP", "FAILED_PREMIUM",
           "FAILED_GEOSPATIAL", "FAILED_DASHBOARD", "FAILED_READINESS"}
Status == Completed \cup Failed \cup {"ABSENT", "PLANNED", "RUNNING", "ABORTED_CONCURRENCY"}
Health == {"GREEN", "AMBER", "RED", "UNKNOWN"}

STAGE_ORDER == <<"cohort", "collection", "green_continuity", "dedup", "dedup_continuity",
                 "premium", "geospatial", "dashboard", "readiness">>
Stage == {"cohort", "collection", "green_continuity", "dedup", "dedup_continuity",
          "premium", "geospatial", "dashboard", "readiness"}
StageStatus == {"PENDING", "RUNNING", "SUCCEEDED", "SKIPPED", "FAILED"}
Artifact == {"dedup", "premium", "dashboard", "readiness"}

\* What the properties need of a cycle row.  "pit" holds the as_of of the four pinned
\* artifacts, "resolution" the newest of quality_state's resolution_ids, "fresh" the
\* sources the pinned readiness assessment counts as fresh.
Row == [status: Status, release: Release \cup {None}, heartbeat: Stamp,
        stages: [Stage -> StageStatus], health: Health, cutoff: Stamp,
        pit: [Artifact -> Stamp], resolution: Stamp, fresh: SUBSET Source]

\* The codes of operational events; SOURCE_INCOMPLETE stands for SOURCE_DEGRADED, too.
Alert == {"CYCLE_FAILED", "STALE_CYCLE_DETECTED", "CONCURRENT_CYCLE_RUNNING",
          "SOURCE_INCOMPLETE", "CONTINUITY_CONFLICT", "DASHBOARD_BUILD_FAILED",
          "GEOSPATIAL_STAGE_FAILED", "FRESHNESS_EXPIRED"}

Attempt == [number: Nat, ok: BOOLEAN, at: Nat]

\* invocation_started, the sources the loop has passed, current_failures, the source
\* being collected with its attempt_number, the stage in progress, the cutoff, the
\* artifacts built so far and the result of the last geospatial batch.
Local == [begun: Stamp, seen: SUBSET Source, failures: SUBSET Source,
          source: Source \cup {None}, number: Nat, stage: Stage, cutoff: Stamp,
          pit: [Artifact -> Stamp], created: BOOLEAN, resolution: Stamp,
          fresh: SUBSET Source]

Unlocked == {"load", "admit", "create", "lock", "aborted", "done"}
Conflicting == {"peers", "conflict"}
Working == {"cohort", "collection", "sources", "collecting", "collected", "enter", "work",
            "continuity", "georealign", "georepeat", "final"}
Closing == {"sealed", "succeeded", "release"}
Label == Unlocked \cup Conflicting \cup Working \cup Closing

NoRow == [status |-> "ABSENT", release |-> None, heartbeat |-> Never,
          stages |-> [s \in Stage |-> "PENDING"], health |-> "UNKNOWN", cutoff |-> Never,
          pit |-> [a \in Artifact |-> Never], resolution |-> Never, fresh |-> {}]

NoLocal == [begun |-> Never, seen |-> {}, failures |-> {}, source |-> None, number |-> 0,
            stage |-> "cohort", cutoff |-> Never, pit |-> [a \in Artifact |-> Never],
            created |-> FALSE, resolution |-> Never, fresh |-> {}]

-----------------------------------------------------------------------------
(* Helpers.                                                                *)

\* The cycle an invocation was started for.
Own(p) == args[p].cycle

\* The status a failure or a timeout in a stage seals the cycle with.
status_by_stage ==
    [cohort |-> "FAILED_COLLECTION", collection |-> "FAILED_COLLECTION",
     green_continuity |-> "FAILED_CONTINUITY", dedup_continuity |-> "FAILED_CONTINUITY",
     dedup |-> "FAILED_DEDUP", premium |-> "FAILED_PREMIUM",
     geospatial |-> "FAILED_GEOSPATIAL", dashboard |-> "FAILED_DASHBOARD",
     readiness |-> "FAILED_READINESS"]

\* A RUNNING row always has a heartbeat: the first save that makes it RUNNING sets it.
Stale(r) == clock - r.heartbeat > Timeout

\* _ensure_within_timeout: the whole invocation is late.
Late(p) == clock - loc[p].begun > Timeout

\* Defects: a retry collects every source again, or none that was tried before.
NoPriorSuccess(c, s) == FALSE
AnyPriorAttempt(c, s) == attempts[c][s] # <<>>

\* The attempt that makes a retry skip a source.
PriorSuccess(c, s) == \E i \in DOMAIN attempts[c][s] : attempts[c][s][i].ok

\* ObservatoryCycle.clean(): a final cutoff needs the complete aligned chain.
Clean(m) == m.cutoff # Never => \A a \in Artifact : m.pit[a] = m.cutoff

\* The step of p leaves its place in cycle.save() and needs the save before it finished.
At(p, label) == pc[p] = label /\ save[p] = "none"

Goto(p, label) == pc' = [pc EXCEPT ![p] = label]

\* cycle.save() of the copy m, after which p continues at label.
Save(p, m, label) ==
    /\ mem' = [mem EXCEPT ![p] = m]
    /\ save' = [save EXCEPT ![p] = "check"]
    /\ Goto(p, label)

\* _save_stage
SaveStage(p, stage, status, label) ==
    Save(p, [mem[p] EXCEPT !.stages[stage] = status, !.heartbeat = clock], label)

\* Defect: the stage that failed keeps the status RUNNING.
SealStatusOnly(p, m, stage, status) ==
    Save(p, [m EXCEPT !.status = status, !.heartbeat = clock, !.health = "RED"], "sealed")

\* _seal_failure and _seal_timeout up to their save; m carries what the caller set before.
Seal(p, m, stage, status) ==
    Save(p, [m EXCEPT !.stages[stage] = "FAILED", !.status = status,
                      !.heartbeat = clock, !.health = "RED"], "sealed")

SealTimeout(p, stage) == Seal(p, mem[p], stage, status_by_stage[stage])

\* The copy of an invocation that is refused by the lock or by another running cycle.
Aborted(m) == [m EXCEPT !.status = "ABORTED_CONCURRENCY", !.health = "RED"]

\* The process is gone: its memory and its database session with it.
Exit(p) ==
    /\ Goto(p, "done")
    /\ save' = [save EXCEPT ![p] = "none"]
    /\ mem' = [mem EXCEPT ![p] = NoRow]
    /\ loc' = [loc EXCEPT ![p] = NoLocal]
    /\ lock' = IF lock = p THEN None ELSE lock

Emit(c, codes) == alerts' = [alerts EXCEPT ![c] = @ \cup codes]

-----------------------------------------------------------------------------
(* Admission: before the advisory lock.                                    *)

\* The row is read once; everything up to the first save works on this copy.
LoadRow(p) ==
    /\ At(p, "load")
    /\ mem' = [mem EXCEPT ![p] = row[Own(p)]]
    /\ Goto(p, "admit")
    /\ UNCHANGED <<row, database, lock, clock, crashes, args, save, loc>>

\* A completed cycle is returned as it is.
ReplayCompleted(p) ==
    /\ At(p, "admit")
    /\ mem[p].status \in Completed
    /\ Exit(p)
    /\ UNCHANGED <<row, database, clock, crashes, args>>

\* Another configuration, no --resume --trigger RECOVERY, or a heartbeat that is not stale.
RefuseRetry(p) ==
    /\ At(p, "admit")
    /\ mem[p].status \notin Completed \cup {"ABSENT"}
    /\ \/ mem[p].release # args[p].release
       \/ ~args[p].recover
       \/ mem[p].status = "RUNNING" /\ ~Stale(mem[p])
    /\ Exit(p)
    /\ UNCHANGED <<row, database, clock, crashes, args>>

AdmitRetry(p) ==
    /\ At(p, "admit")
    /\ mem[p].status \notin Completed \cup {"ABSENT"}
    /\ mem[p].release = args[p].release
    /\ args[p].recover
    /\ mem[p].status = "RUNNING" => Stale(mem[p])
    /\ Emit(Own(p), IF mem[p].status = "RUNNING" THEN {"STALE_CYCLE_DETECTED"} ELSE {})
    /\ Goto(p, "lock")
    /\ UNCHANGED <<row, attempts, lock, clock, crashes, args, save,
                   mem, loc>>

AdmitNew(p) ==
    /\ At(p, "admit")
    /\ mem[p].status = "ABSENT"
    /\ Goto(p, "create")
    /\ UNCHANGED <<row, database, lock, clock, crashes, args, save, mem, loc>>

\* Defect: update_or_create in place of create.
CreateOrReplace(p) ==
    /\ At(p, "create")
    /\ LET planned == [NoRow EXCEPT !.status = "PLANNED", !.release = args[p].release]
       IN  /\ row' = [row EXCEPT ![Own(p)] = planned]
           /\ mem' = [mem EXCEPT ![p] = planned]
    /\ Goto(p, "lock")
    /\ UNCHANGED <<database, lock, clock, crashes, args, save, loc>>

\* objects.create(id=...): the primary key refuses a second row of the same identifier.
CreateCycle(p) ==
    /\ At(p, "create")
    /\ row[Own(p)].status = "ABSENT"
    /\ LET planned == [NoRow EXCEPT !.status = "PLANNED", !.release = args[p].release]
       IN  /\ row' = [row EXCEPT ![Own(p)] = planned]
           /\ mem' = [mem EXCEPT ![p] = planned]
    /\ Goto(p, "lock")
    /\ UNCHANGED <<database, lock, clock, crashes, args, save, loc>>

CreateCollides(p) ==
    /\ At(p, "create")
    /\ row[Own(p)].status # "ABSENT"
    /\ Exit(p)
    /\ UNCHANGED <<row, database, clock, crashes, args>>

-----------------------------------------------------------------------------
(* The advisory lock and the persisted running-cycle conflict.             *)

\* pg_try_advisory_lock returns at once, with the lock or without it.
TryLock(p) ==
    /\ At(p, "lock")
    /\ lock = None
    /\ lock' = p
    /\ Goto(p, "peers")
    /\ UNCHANGED <<row, database, clock, crashes, args, save, mem, loc>>

LockRefused(p) ==
    /\ At(p, "lock")
    /\ lock # None
    /\ Save(p, Aborted(mem[p]), "aborted")
    /\ UNCHANGED <<row, database, lock, clock, crashes, args, loc>>

\* Defect: the advisory lock is trusted to be enough.
NoOtherRunning(p) == {}

OtherRunning(p) == {c \in Cycle \ {Own(p)} : row[c].status = "RUNNING"}

PeerRunning(p) ==
    /\ At(p, "peers")
    /\ OtherRunning(p) # {}
    /\ Save(p, Aborted(mem[p]), "conflict")
    /\ UNCHANGED <<row, database, lock, clock, crashes, args, loc>>

BeginRun(p) ==
    /\ At(p, "peers")
    /\ OtherRunning(p) = {}
    /\ loc' = [loc EXCEPT ![p].begun = clock]
    /\ Save(p, [mem[p] EXCEPT !.status = "RUNNING", !.heartbeat = clock], "cohort")
    /\ UNCHANGED <<row, database, lock, clock, crashes, args>>

\* The refused invocation returns once its event is written.
AnnounceAbort(p) ==
    /\ At(p, "aborted")
    /\ Emit(Own(p), {"CYCLE_FAILED"})
    /\ Exit(p)
    /\ UNCHANGED <<row, attempts, clock, crashes, args>>

\* Which code depends on the age of the other cycle's heartbeat.
AnnounceConflict(p) ==
    /\ At(p, "conflict")
    /\ \E code \in {"STALE_CYCLE_DETECTED", "CONCURRENT_CYCLE_RUNNING"} : Emit(Own(p), {code})
    /\ Goto(p, "release")
    /\ UNCHANGED <<row, attempts, lock, clock, crashes, args, save,
                   mem, loc>>

-----------------------------------------------------------------------------
(* cycle.save(): a SELECT, full_clean and an UPDATE of the whole row, each *)
(* a statement of its own.                                                 *)

\* The stored row is not completed and of this configuration; the copy passes full_clean.
SavePermitted(p) ==
    /\ row[Own(p)].status \notin Completed
    /\ row[Own(p)].release = mem[p].release
    /\ Clean(mem[p])

\* Defect: the stored status is not compared.
SaveUnchecked(p) ==
    /\ save[p] = "check"
    /\ Clean(mem[p])
    /\ save' = [save EXCEPT ![p] = "write"]
    /\ UNCHANGED <<row, database, lock, clock, crashes, args, pc, mem, loc>>

SaveCheck(p) ==
    /\ save[p] = "check"
    /\ SavePermitted(p)
    /\ save' = [save EXCEPT ![p] = "write"]
    /\ UNCHANGED <<row, database, lock, clock, crashes, args, pc, mem, loc>>

\* ImmutableOperationalEvidenceError or ValidationError ends the process.
SaveRefused(p) ==
    /\ save[p] = "check"
    /\ ~SavePermitted(p)
    /\ Exit(p)
    /\ UNCHANGED <<row, database, clock, crashes, args>>

SaveWrite(p) ==
    /\ save[p] = "write"
    /\ row' = [row EXCEPT ![Own(p)] = mem[p]]
    /\ save' = [save EXCEPT ![p] = "none"]
    /\ UNCHANGED <<database, lock, clock, crashes, args, pc, mem, loc>>

-----------------------------------------------------------------------------
(* Cohort and collection.                                                  *)

CohortResolved(p) ==
    /\ At(p, "cohort")
    /\ SaveStage(p, "cohort", "SUCCEEDED", "collection")
    /\ UNCHANGED <<row, database, lock, clock, crashes, args, loc>>

BeginCollection(p) ==
    /\ At(p, "collection")
    /\ IF Late(p) THEN SealTimeout(p, "collection")
                  ELSE SaveStage(p, "collection", "RUNNING", "sources")
    /\ UNCHANGED <<row, database, lock, clock, crashes, args, loc>>

\* The loop goes through the cohort in identifier order; here in any order.
SkipCollected(p, s) ==
    /\ At(p, "sources")
    /\ s \notin loc[p].seen
    /\ PriorSuccess(Own(p), s)
    /\ loc' = [loc EXCEPT ![p].seen = @ \cup {s}]
    /\ UNCHANGED <<row, database, lock, clock, crashes, args, pc, save, mem>>

StartSource(p, s) ==
    /\ At(p, "sources")
    /\ s \notin loc[p].seen
    /\ ~PriorSuccess(Own(p), s)
    /\ loc' = [loc EXCEPT ![p].source = s, ![p].number = Len(attempts[Own(p)][s]) + 1]
    /\ Goto(p, "collecting")
    /\ UNCHANGED <<row, database, lock, clock, crashes, args, save, mem>>

\* The collector returned a run, complete and healthy or not, or raised; the run, the
\* attempt and its event (SOURCE_INCOMPLETE or SOURCE_DEGRADED) are one step here.
RecordAttempt(p, ok) ==
    /\ At(p, "collecting")
    /\ LET s == loc[p].source
           attempt == [number |-> loc[p].number, ok |-> ok, at |-> clock]
       IN  /\ attempts' = [attempts EXCEPT ![Own(p)][s] = Append(@, attempt)]
           /\ loc' = [loc EXCEPT ![p].failures = IF ok THEN @ ELSE @ \cup {s}]
    /\ Emit(Own(p), IF ok THEN {} ELSE {"SOURCE_INCOMPLETE"})
    /\ Goto(p, "collected")
    /\ UNCHANGED <<row, lock, clock, crashes, args, save, mem>>

AfterSource(p) ==
    /\ At(p, "collected")
    /\ IF Late(p)
         THEN SealTimeout(p, "collection") /\ UNCHANGED loc
         ELSE /\ loc' = [loc EXCEPT ![p].seen = @ \cup {loc[p].source}]
              /\ Goto(p, "sources")
              /\ UNCHANGED <<save, mem>>
    /\ UNCHANGED <<row, database, lock, clock, crashes, args>>

\* Incomplete sources do not stop the cycle.
FinishCollection(p) ==
    /\ At(p, "sources")
    /\ loc[p].seen = Source
    /\ loc' = [loc EXCEPT ![p].stage = "green_continuity"]
    /\ SaveStage(p, "collection", "SUCCEEDED", "enter")
    /\ UNCHANGED <<row, database, lock, clock, crashes, args>>

-----------------------------------------------------------------------------
(* The downstream stages.                                                  *)

\* A stage opens with a save of RUNNING and closes with a save of SUCCEEDED.
EnterStage(p) ==
    /\ At(p, "enter")
    /\ SaveStage(p, loc[p].stage, "RUNNING", "work")
    /\ UNCHANGED <<row, database, lock, clock, crashes, args, loc>>

StageTimesOut(p) ==
    /\ At(p, "work")
    /\ Late(p)
    /\ SealTimeout(p, loc[p].stage)
    /\ UNCHANGED <<row, database, lock, clock, crashes, args, loc>>

\* The service behind the stage raised.
StageFails(p) ==
    /\ At(p, "work")
    /\ ~Late(p)
    /\ IF loc[p].stage = "dedup"
         THEN Seal(p, [mem[p] EXCEPT !.stages["dedup_continuity"] = "SKIPPED"], "dedup",
                   "FAILED_DEDUP")
         ELSE Seal(p, mem[p], loc[p].stage, status_by_stage[loc[p].stage])
    /\ UNCHANGED <<row, database, lock, clock, crashes, args, loc>>

\* run_deduplication raised about the authority of an inherited human decision.
ContinuityConflict(p) ==
    /\ At(p, "work")
    /\ ~Late(p)
    /\ loc[p].stage = "dedup"
    /\ Seal(p, [mem[p] EXCEPT !.stages["dedup"] = "FAILED"], "dedup_continuity",
            "FAILED_CONTINUITY")
    /\ UNCHANGED <<row, database, lock, clock, crashes, args, loc>>

\* The work of a stage that ran to its end: the new locals, then SUCCEEDED is saved.
StageDone(p, stage, locals, label) ==
    /\ loc' = [loc EXCEPT ![p] = locals]
    /\ SaveStage(p, stage, "SUCCEEDED", label)
    /\ UNCHANGED <<row, database, lock, clock, crashes, args>>

Works(p, stage) == At(p, "work") /\ ~Late(p) /\ loc[p].stage = stage

GreenContinuity(p) ==
    /\ Works(p, "green_continuity")
    /\ StageDone(p, "green_continuity", [loc[p] EXCEPT !.stage = "dedup"], "enter")

\* The provisional cutoff: everything collected and every green application precedes it.
Dedup(p) ==
    /\ Works(p, "dedup")
    /\ StageDone(p, "dedup",
                 [loc[p] EXCEPT !.cutoff = clock, !.pit["dedup"] = clock], "continuity")

DedupContinuity(p) ==
    /\ At(p, "continuity")
    /\ StageDone(p, "dedup_continuity", [loc[p] EXCEPT !.stage = "premium"], "enter")

Premium(p) ==
    /\ Works(p, "premium")
    /\ StageDone(p, "premium",
                 [loc[p] EXCEPT !.stage = "geospatial", !.pit["premium"] = loc[p].cutoff],
                 "enter")

\* Defect: a resolution another batch created after the cutoff is not noticed.
AdvanceWhenCreated(created, resolution, cutoff) == created

\* _geospatial_requires_cutoff_advance
RequiresAdvance(created, resolution, cutoff) == created \/ resolution > cutoff

\* geospatial_runner: what it creates is new, what it finds may be of any earlier time.
Resolved(created) == IF created THEN {clock} ELSE {Never} \cup 0..clock

GeospatialFirst(p, created, resolution) ==
    /\ Works(p, "geospatial")
    /\ resolution \in Resolved(created)
    /\ loc' = [loc EXCEPT ![p].created = created, ![p].resolution = resolution]
    /\ Goto(p, "georealign")
    /\ UNCHANGED <<row, database, lock, clock, crashes, args, save, mem>>

\* Defect: Premium keeps the run of the provisional cutoff.
RealignDedupOnly(p) ==
    /\ At(p, "georealign")
    /\ ~Late(p)
    /\ RequiresAdvance(loc[p].created, loc[p].resolution, loc[p].cutoff)
    /\ loc' = [loc EXCEPT ![p].cutoff = clock, ![p].pit["dedup"] = clock]
    /\ Goto(p, "georepeat")
    /\ UNCHANGED <<row, database, lock, clock, crashes, args, save, mem>>

\* The one advance of the cutoff, with a second dedup and premium run.
GeospatialRealign(p) ==
    /\ At(p, "georealign")
    /\ ~Late(p)
    /\ RequiresAdvance(loc[p].created, loc[p].resolution, loc[p].cutoff)
    /\ loc' = [loc EXCEPT ![p] = [@ EXCEPT !.cutoff = clock, !.pit["dedup"] = clock,
                                           !.pit["premium"] = clock]]
    /\ Goto(p, "georepeat")
    /\ UNCHANGED <<row, database, lock, clock, crashes, args, save, mem>>

GeospatialAligned(p) ==
    /\ At(p, "georealign")
    /\ ~Late(p)
    /\ ~RequiresAdvance(loc[p].created, loc[p].resolution, loc[p].cutoff)
    /\ StageDone(p, "geospatial", [loc[p] EXCEPT !.stage = "dashboard"], "enter")

\* Defect: the cutoff advances again and again until a batch creates nothing.
RepeatUntilAligned(p, created, resolution) ==
    /\ At(p, "georepeat")
    /\ resolution \in Resolved(created)
    /\ IF RequiresAdvance(created, resolution, loc[p].cutoff)
         THEN /\ loc' = [loc EXCEPT ![p].created = created, ![p].resolution = resolution]
              /\ Goto(p, "georealign")
              /\ UNCHANGED <<save, mem>>
         ELSE /\ loc' = [loc EXCEPT ![p].resolution = resolution, ![p].created = FALSE,
                                    ![p].stage = "dashboard"]
              /\ SaveStage(p, "geospatial", "SUCCEEDED", "enter")
    /\ UNCHANGED <<row, database, lock, clock, crashes, args>>

GeospatialRepeat(p, created, resolution) ==
    /\ At(p, "georepeat")
    /\ resolution \in Resolved(created)
    /\ IF RequiresAdvance(created, resolution, loc[p].cutoff)
         THEN Seal(p, mem[p], "geospatial", "FAILED_GEOSPATIAL") /\ UNCHANGED loc
         ELSE /\ loc' = [loc EXCEPT ![p].resolution = resolution, ![p].created = FALSE,
                                    ![p].stage = "dashboard"]
              /\ SaveStage(p, "geospatial", "SUCCEEDED", "enter")
    /\ UNCHANGED <<row, database, lock, clock, crashes, args>>

\* Late after the first batch, or the second dedup, premium or batch raised.
GeospatialFails(p) ==
    /\ \/ At(p, "georealign") /\ Late(p)
       \/ At(p, "georepeat")
    /\ Seal(p, mem[p], "geospatial", "FAILED_GEOSPATIAL")
    /\ UNCHANGED <<row, database, lock, clock, crashes, args, loc>>

Dashboard(p) ==
    /\ Works(p, "dashboard")
    /\ StageDone(p, "dashboard",
                 [loc[p] EXCEPT !.stage = "readiness", !.pit["dashboard"] = loc[p].cutoff],
                 "enter")

\* day0: a source is fresh when its newest healthy complete run is young at the cutoff.
FreshAt(cutoff) ==
    {s \in Source : \E c \in Cycle : \E i \in DOMAIN attempts[c][s] :
        attempts[c][s][i].ok /\ cutoff - attempts[c][s][i].at \in 0..MaxAge}

Readiness(p) ==
    /\ Works(p, "readiness")
    /\ StageDone(p, "readiness",
                 [loc[p] EXCEPT !.pit["readiness"] = loc[p].cutoff,
                                !.fresh = FreshAt(loc[p].cutoff)],
                 "final")

-----------------------------------------------------------------------------
(* Sealing the cycle.                                                      *)

OperationalHealth(failures) == IF failures = {} THEN "GREEN" ELSE "AMBER"

\* The readiness assessment authorizes the market or not; both are a success.
Finish(p, status) ==
    /\ At(p, "final")
    /\ Save(p, [mem[p] EXCEPT !.status = status,
                              !.health = OperationalHealth(loc[p].failures),
                              !.heartbeat = clock, !.cutoff = loc[p].cutoff,
                              !.pit = loc[p].pit, !.resolution = loc[p].resolution,
                              !.fresh = loc[p].fresh], "succeeded")
    /\ UNCHANGED <<row, database, lock, clock, crashes, args, loc>>

SpecificAlert(status) ==
    CASE status = "FAILED_CONTINUITY" -> {"CONTINUITY_CONFLICT"}
      [] status = "FAILED_DASHBOARD" -> {"DASHBOARD_BUILD_FAILED"}
      [] status = "FAILED_GEOSPATIAL" -> {"GEOSPATIAL_STAGE_FAILED"}
      [] OTHER -> {}

\* Defect: a failure with an event of its own is not announced as a failed cycle.
AnnounceSpecific(p) ==
    /\ At(p, "sealed")
    /\ Emit(Own(p), IF SpecificAlert(mem[p].status) = {} THEN {"CYCLE_FAILED"}
                    ELSE SpecificAlert(mem[p].status))
    /\ Goto(p, "release")
    /\ UNCHANGED <<row, attempts, lock, clock, crashes, args, save, mem, loc>>

\* The events follow the save that sealed the row.
AnnounceFailure(p) ==
    /\ At(p, "sealed")
    /\ Emit(Own(p), {"CYCLE_FAILED"} \cup SpecificAlert(mem[p].status))
    /\ Goto(p, "release")
    /\ UNCHANGED <<row, attempts, lock, clock, crashes, args, save,
                   mem, loc>>

AnnounceSuccess(p) ==
    /\ At(p, "succeeded")
    /\ Emit(Own(p), IF loc[p].fresh = Source THEN {} ELSE {"FRESHNESS_EXPIRED"})
    /\ Goto(p, "release")
    /\ UNCHANGED <<row, attempts, lock, clock, crashes, args, save,
                   mem, loc>>

\* pg_advisory_unlock, and run_cycle returns.
ReleaseLock(p) ==
    /\ At(p, "release")
    /\ Exit(p)
    /\ UNCHANGED <<row, database, clock, crashes, args>>

-----------------------------------------------------------------------------
(* The environment.                                                        *)

Tick ==
    /\ clock < MaxClock
    /\ clock' = clock + 1
    /\ UNCHANGED <<row, database, lock, crashes, args, pc, save, mem, loc>>

\* The process is killed or its database session breaks, between any two statements.
Crash(p) ==
    /\ pc[p] \notin {"load", "done"}
    /\ Len(crashes) < MaxCrashes
    /\ crashes' = Append(crashes, [of |-> Own(p), unannounced |-> At(p, "sealed")])
    /\ Exit(p)
    /\ UNCHANGED <<row, database, clock, args>>

-----------------------------------------------------------------------------
(* The specification.                                                      *)

Init ==
    /\ row = [c \in Cycle |-> NoRow]
    /\ attempts = [c \in Cycle |-> [s \in Source |-> <<>>]]
    /\ alerts = [c \in Cycle |-> {}]
    /\ lock = None
    /\ clock = 0
    /\ crashes = <<>>
    /\ args \in [Invocation -> [cycle : Cycle, recover : BOOLEAN, release : Release]]
    /\ pc = [p \in Invocation |-> "load"]
    /\ save = [p \in Invocation |-> "none"]
    /\ mem = [p \in Invocation |-> NoRow]
    /\ loc = [p \in Invocation |-> NoLocal]

Admission(p) ==
    \/ LoadRow(p) \/ ReplayCompleted(p) \/ RefuseRetry(p) \/ AdmitRetry(p) \/ AdmitNew(p)
    \/ CreateCycle(p) \/ CreateCollides(p)

Locking(p) ==
    \/ TryLock(p) \/ LockRefused(p) \/ PeerRunning(p) \/ BeginRun(p)
    \/ AnnounceAbort(p) \/ AnnounceConflict(p)

Saving(p) == SaveCheck(p) \/ SaveRefused(p) \/ SaveWrite(p)

Collecting(p) ==
    \/ CohortResolved(p) \/ BeginCollection(p)
    \/ \E s \in Source : SkipCollected(p, s)
    \/ \E s \in Source : StartSource(p, s)
    \/ \E ok \in BOOLEAN : RecordAttempt(p, ok)
    \/ AfterSource(p) \/ FinishCollection(p)

Building(p) ==
    \/ EnterStage(p) \/ StageTimesOut(p) \/ StageFails(p) \/ ContinuityConflict(p)
    \/ GreenContinuity(p) \/ Dedup(p) \/ DedupContinuity(p) \/ Premium(p)
    \/ \E created \in BOOLEAN, resolution \in {Never} \cup 0..clock : GeospatialFirst(p, created, resolution)
    \/ GeospatialRealign(p) \/ GeospatialAligned(p)
    \/ \E created \in BOOLEAN, resolution \in {Never} \cup 0..clock : GeospatialRepeat(p, created, resolution)
    \/ GeospatialFails(p) \/ Dashboard(p) \/ Readiness(p)

Sealing(p) ==
    \/ \E status \in Completed : Finish(p, status)
    \/ AnnounceFailure(p) \/ AnnounceSuccess(p) \/ ReleaseLock(p)

Step(p) ==
    Admission(p) \/ Locking(p) \/ Saving(p) \/ Collecting(p) \/ Building(p) \/ Sealing(p)

Next ==
    \/ \E p \in Invocation : Step(p) \/ Crash(p)
    \/ Tick

Spec == Init /\ [][Next]_vars

\* A process that is neither killed nor blocked goes on; HTTP and subprocess timeouts
\* bound each statement.  Nothing makes a process crash or a clock stop.
FairSpec == Spec /\ \A p \in Invocation : WF_vars(Step(p))

-----------------------------------------------------------------------------
(* Properties.                                                             *)

\* Every variable, every copy of a row and every timestamp stays in its domain.
TypeOK ==
    /\ row \in [Cycle -> Row]
    /\ attempts \in [Cycle -> [Source -> Seq(Attempt)]]
    /\ alerts \in [Cycle -> SUBSET Alert]
    /\ lock \in Invocation \cup {None}
    /\ clock \in Nat
    /\ crashes \in Seq([of : Cycle, unannounced : BOOLEAN])
    /\ args \in [Invocation -> [cycle : Cycle, recover : BOOLEAN, release : Release]]
    /\ pc \in [Invocation -> Label]
    /\ save \in [Invocation -> {"none", "check", "write"}]
    /\ mem \in [Invocation -> Row]
    /\ loc \in [Invocation -> Local]
    /\ \A p \in Invocation : pc[p] \in {"collecting", "collected"} => loc[p].source \in Source

\* The advisory lock is held exactly by the invocation between pg_try_advisory_lock and
\* pg_advisory_unlock, whatever was refused, killed or raised in between.
LockExclusion == \A p \in Invocation : lock = p <=> pc[p] \notin Unlocked

\* Contract section 7: one cycle at most is RUNNING.  A crash leaves the row RUNNING and
\* the lock free, so it takes the lock and the check of the other rows together.
AtMostOneRunning ==
    \A c, d \in Cycle : row[c].status = "RUNNING" /\ row[d].status = "RUNNING" => c = d

\* Contract section 8: attempts are numbered without gaps over every retry, and a source
\* with a successful attempt is not collected again in its cycle.
AttemptsOnce ==
    \A c \in Cycle, s \in Source : \A i \in DOMAIN attempts[c][s] :
        /\ attempts[c][s][i].number = i
        /\ attempts[c][s][i].ok => i = Len(attempts[c][s])

\* The half of GREEN in contract section 11 that the code keeps: a cycle sealed GREEN has a
\* successful attempt of every source, by this invocation or by one before it.  AMBER is never
\* given without a reason: a source has no success, or it is not fresh at the cutoff.  The other
\* half, that GREEN is fresh, the code does not keep: README section 5.
GreenComplete ==
    \A c \in Cycle : row[c].status \in Completed =>
        LET succeeded == {s \in Source : \E i \in DOMAIN attempts[c][s] : attempts[c][s][i].ok}
        IN  /\ row[c].health = "GREEN" => succeeded = Source
            /\ row[c].health = "AMBER" => succeeded # Source \/ row[c].fresh # Source

\* Contract section 5: the final cutoff is not before any collection of the cycle nor
\* before the geospatial evidence the cycle pins.
CutoffCoversEvidence ==
    \A c \in Cycle : row[c].status \in Completed =>
        /\ row[c].resolution <= row[c].cutoff
        /\ \A s \in Source : \A i \in DOMAIN attempts[c][s] :
               attempts[c][s][i].at <= row[c].cutoff

\* Once its first save went through, no save of the invocation that holds the lock is
\* refused: nobody else completes the cycle, and the chain it seals is aligned.
OwnerSaveAccepted ==
    \A p \in Invocation :
        pc[p] \in (Working \cup Closing) \ {"cohort", "release"} /\ save[p] = "check" =>
            SavePermitted(p)

\* The first stage of a failed row that did not succeed is the one that its status names,
\* although a retry keeps what the invocations before it left in the later stages.
FailedStageNamed ==
    \A c \in Cycle : row[c].status \in Failed =>
        LET done == {i \in DOMAIN STAGE_ORDER : row[c].stages[STAGE_ORDER[i]] = "SUCCEEDED"}
        IN  \E i \in DOMAIN STAGE_ORDER :
                /\ row[c].stages[STAGE_ORDER[i]] = "FAILED"
                /\ 1..(i - 1) \subseteq done
                /\ \/ status_by_stage[STAGE_ORDER[i]] = row[c].status
                   \/ /\ STAGE_ORDER[i] = "dedup"
                      /\ row[c].status = "FAILED_CONTINUITY"
                      /\ row[c].stages["dedup_continuity"] = "FAILED"

\* Contract section 2: whoever works on a cycle, holds a copy of it or waits for the lock
\* does so with the configuration the row was created with.
ConfigurationPinned ==
    \A p \in Invocation : pc[p] \notin {"load", "admit", "create", "done"} =>
        row[Own(p)].release = args[p].release /\ mem[p].release = args[p].release

\* The result of a completed cycle is never replaced by another result, nor is the cycle
\* run again: the most that reaches it is the refusal of an invocation without the lock.
ResultKept ==
    [][\A c \in Cycle : row[c].status \in Completed /\ row'[c] # row[c] =>
            row'[c].status = "ABORTED_CONCURRENCY"]_vars

\* models.py: "completed cycles are immutable".
CompletedImmutable ==
    [][\A c \in Cycle : row[c].status \in Completed => row'[c] = row[c]]_vars

\* No invocation runs or waits forever, whatever is refused or fails.
InvocationReturns == \A p \in Invocation : pc[p] # "load" ~> pc[p] = "done"

\* A failed cycle is announced, whatever else dies or is refused.  The one excuse is the death of
\* the very process that sealed this cycle, between its save and the events that follow it.
FailureAlerted ==
    \A c \in Cycle :
        row[c].status \in Failed ~>
            \/ "CYCLE_FAILED" \in alerts[c]
            \/ \E i \in DOMAIN crashes : crashes[i] = [of |-> c, unannounced |-> TRUE]

=============================================================================
