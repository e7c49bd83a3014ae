----------------------- MODULE ObservatoryCycle_proofs -----------------------
(***************************************************************************)
(* Proofs about ObservatoryCycle for every number of cycles, invocations   *)
(* and sources, every timeout, and no bound on the clock or the crashes    *)
(* beyond being natural numbers.                                           *)
(***************************************************************************)
EXTENDS ObservatoryCycle, TLAPS

-----------------------------------------------------------------------------
(* Typing of the parts the actions are built from.                         *)

LEMMA SetStageTyped ==
    ASSUME NEW m \in Row, NEW stage \in Stage, NEW status \in StageStatus
    PROVE  [m EXCEPT !.stages[stage] = status] \in Row
BY DEF Row

LEMMA StatusByStageTyped ==
    ASSUME NEW stage \in Stage
    PROVE  status_by_stage[stage] \in Failed
BY DEF Stage, status_by_stage, Failed

LEMMA NoRowTyped == NoRow \in Row
BY DEF NoRow, Row, Status, Health, Stamp, Never, StageStatus

LEMMA NoLocalTyped == NoLocal \in Local
BY DEF NoLocal, Local, Stamp, Never, Stage

\* What a step through cycle.save() does to the types.
LEMMA SaveTyped ==
    ASSUME TypeOK, NEW p \in Invocation, NEW m \in Row, NEW label \in Label, Save(p, m, label)
    PROVE  /\ mem' \in [Invocation -> Row]
           /\ save' \in [Invocation -> {"none", "check", "write"}]
           /\ pc' \in [Invocation -> Label]
           /\ pc' = [pc EXCEPT ![p] = label]
BY DEF TypeOK, Save, Goto

LEMMA SaveStageTyped ==
    ASSUME TypeOK, NEW p \in Invocation, NEW stage \in Stage, NEW status \in StageStatus,
           NEW label \in Label, SaveStage(p, stage, status, label)
    PROVE  /\ mem' \in [Invocation -> Row]
           /\ save' \in [Invocation -> {"none", "check", "write"}]
           /\ pc' \in [Invocation -> Label]
           /\ pc' = [pc EXCEPT ![p] = label]
<1> DEFINE m == [mem[p] EXCEPT !.stages[stage] = status]
           n == [mem[p] EXCEPT !.stages[stage] = status, !.heartbeat = clock]
<1>1. mem[p] \in Row /\ clock \in Stamp
  BY DEF TypeOK, Stamp
<1>2. m \in Row
  BY <1>1, SetStageTyped
<1>3. n = [m EXCEPT !.heartbeat = clock]
  BY <1>1 DEF Row
<1>4. n \in Row
  <2> HIDE DEF m, n
  <2> QED BY <1>1, <1>2, <1>3 DEF Row
<1>5. Save(p, n, label)
  BY DEF SaveStage
<1> QED
  <2> HIDE DEF m, n
  <2> QED BY <1>4, <1>5, SaveTyped

LEMMA SealTyped ==
    ASSUME TypeOK, NEW p \in Invocation, NEW m \in Row, NEW stage \in Stage,
           NEW status \in Status, Seal(p, m, stage, status)
    PROVE  /\ mem' \in [Invocation -> Row]
           /\ save' \in [Invocation -> {"none", "check", "write"}]
           /\ pc' \in [Invocation -> Label]
           /\ pc' = [pc EXCEPT ![p] = "sealed"]
<1> DEFINE k == [m EXCEPT !.stages[stage] = "FAILED"]
           n == [m EXCEPT !.stages[stage] = "FAILED", !.status = status,
                          !.heartbeat = clock, !.health = "RED"]
<1>1. clock \in Stamp
  BY DEF TypeOK, Stamp
<1>2. k \in Row
  BY SetStageTyped DEF StageStatus
<1>3. n = [k EXCEPT !.status = status, !.heartbeat = clock, !.health = "RED"]
  BY DEF Row
<1>4. n \in Row
  <2> HIDE DEF k, n
  <2> QED BY <1>1, <1>2, <1>3 DEF Row, Health
<1>5. Save(p, n, "sealed")
  BY DEF Seal
<1>6. "sealed" \in Label
  BY DEF Label, Closing
<1> QED
  <2> HIDE DEF k, n
  <2> QED BY <1>4, <1>5, <1>6, SaveTyped

LEMMA SealTimeoutTyped ==
    ASSUME TypeOK, NEW p \in Invocation, NEW stage \in Stage, SealTimeout(p, stage)
    PROVE  /\ mem' \in [Invocation -> Row]
           /\ save' \in [Invocation -> {"none", "check", "write"}]
           /\ pc' \in [Invocation -> Label]
           /\ pc' = [pc EXCEPT ![p] = "sealed"]
<1>1. mem[p] \in Row
  BY DEF TypeOK
<1>2. status_by_stage[stage] \in Status
  BY StatusByStageTyped DEF Status
<1>3. Seal(p, mem[p], stage, status_by_stage[stage])
  BY DEF SealTimeout
<1> QED
  BY <1>1, <1>2, <1>3, SealTyped

LEMMA ExitTyped ==
    ASSUME TypeOK, NEW p \in Invocation, Exit(p)
    PROVE  /\ mem' \in [Invocation -> Row]
           /\ save' \in [Invocation -> {"none", "check", "write"}]
           /\ pc' \in [Invocation -> Label]
           /\ pc' = [pc EXCEPT ![p] = "done"]
           /\ loc' \in [Invocation -> Local]
           /\ loc' = [loc EXCEPT ![p] = NoLocal]
           /\ lock' \in Invocation \cup {None}
BY NoRowTyped, NoLocalTyped DEF TypeOK, Exit, Goto, Label, Unlocked

\* Locals stay locals when a time of theirs is replaced by another one.
LEMMA TimesTyped ==
    ASSUME NEW l \in Local, NEW t \in Stamp
    PROVE  /\ [l EXCEPT !.begun = t] \in Local /\ [l EXCEPT !.cutoff = t] \in Local
           /\ \A a \in Artifact : [l EXCEPT !.pit[a] = t] \in Local
BY DEF Local

LEMMA LocTyped ==
    ASSUME TypeOK, NEW p \in Invocation, NEW l \in Local, loc' = [loc EXCEPT ![p] = l]
    PROVE  /\ loc' \in [Invocation -> Local]
           /\ loc'[p] = l
           /\ \A q \in Invocation \ {p} : loc'[q] = loc[q]
BY DEF TypeOK

-----------------------------------------------------------------------------
(* Type correctness: one lemma per group of actions, one step per action.  *)

LEMMA AdmissionTyped ==
    ASSUME TypeOK, NEW p \in Invocation, Admission(p)
    PROVE  TypeOK'
<1>1. ASSUME LoadRow(p) PROVE TypeOK'
  BY <1>1 DEF LoadRow, TypeOK, At, Goto, database, Own, Label, Unlocked
<1>2. ASSUME Exit(p), UNCHANGED <<row, database, clock, crashes, args>> PROVE TypeOK'
  BY <1>2, ExitTyped DEF TypeOK, database
<1>3. ASSUME AdmitRetry(p) PROVE TypeOK'
  <2>1. Own(p) \in Cycle
    BY DEF TypeOK, Own
  <2>2. alerts' \in [Cycle -> SUBSET Alert]
    BY <1>3, <2>1 DEF AdmitRetry, Emit, Alert, TypeOK
  <2>3. pc' \in [Invocation -> Label] /\ pc' = [pc EXCEPT ![p] = "lock"]
    BY <1>3 DEF AdmitRetry, Goto, TypeOK, Label, Unlocked
  <2> QED BY <1>3, <2>2, <2>3 DEF AdmitRetry, TypeOK
<1>4. ASSUME AdmitNew(p) PROVE TypeOK'
  BY <1>4 DEF AdmitNew, TypeOK, At, Goto, database, Label, Unlocked
<1>5. ASSUME CreateCycle(p) PROVE TypeOK'
  <2> DEFINE planned == [NoRow EXCEPT !.status = "PLANNED", !.release = args[p].release]
  <2>1. planned \in Row
    BY NoRowTyped DEF TypeOK, Row, Status
  <2>2. pc' \in [Invocation -> Label] /\ pc' = [pc EXCEPT ![p] = "lock"]
    BY <1>5 DEF CreateCycle, Goto, TypeOK, Label, Unlocked
  <2>3. row' = [row EXCEPT ![Own(p)] = planned] /\ mem' = [mem EXCEPT ![p] = planned]
    BY <1>5 DEF CreateCycle
  <2>4. Own(p) \in Cycle
    BY DEF TypeOK, Own
  <2> HIDE DEF planned
  <2>5. row' \in [Cycle -> Row] /\ mem' \in [Invocation -> Row]
    BY <2>1, <2>3, <2>4 DEF TypeOK
  <2> QED BY <1>5, <2>2, <2>5 DEF CreateCycle, TypeOK, database
<1> QED
  BY <1>1, <1>2, <1>3, <1>4, <1>5 DEF Admission, ReplayCompleted, RefuseRetry, CreateCollides

LEMMA LockingTyped ==
    ASSUME TypeOK, NEW p \in Invocation, Locking(p)
    PROVE  TypeOK'
<1>0. mem[p] \in Row /\ Own(p) \in Cycle /\ clock \in Stamp
  BY DEF TypeOK, Own, Stamp
<1>1. Aborted(mem[p]) \in Row
  BY <1>0 DEF Aborted, Row, Status, Health
<1>2. [mem[p] EXCEPT !.status = "RUNNING", !.heartbeat = clock] \in Row
  BY <1>0 DEF Row, Status
<1>3. ASSUME TryLock(p) PROVE TypeOK'
  BY <1>3 DEF TryLock, TypeOK, At, Goto, database, Label, Conflicting
<1>4. ASSUME LockRefused(p) PROVE TypeOK'
  <2>1. "aborted" \in Label
    BY DEF Label, Unlocked
  <2> QED BY <1>1, <1>4, <2>1, SaveTyped DEF LockRefused, TypeOK, database
<1>5. ASSUME PeerRunning(p) PROVE TypeOK'
  <2>1. "conflict" \in Label
    BY DEF Label, Conflicting
  <2> QED BY <1>1, <1>5, <2>1, SaveTyped DEF PeerRunning, TypeOK, database
<1>6. ASSUME BeginRun(p) PROVE TypeOK'
  <2>1. "cohort" \in Label
    BY DEF Label, Working
  <2>2. /\ mem' \in [Invocation -> Row]
        /\ save' \in [Invocation -> {"none", "check", "write"}]
        /\ pc' \in [Invocation -> Label] /\ pc' = [pc EXCEPT ![p] = "cohort"]
    BY <1>2, <1>6, <2>1, SaveTyped DEF BeginRun
  <2>3. [loc[p] EXCEPT !.begun = clock] \in Local
    <3>1. loc[p] \in Local
      BY DEF TypeOK
    <3> QED BY <1>0, <3>1, TimesTyped
  <2>4. loc' = [loc EXCEPT ![p] = [loc[p] EXCEPT !.begun = clock]]
    BY <1>6 DEF BeginRun
  <2> QED BY <1>6, <2>2, <2>3, <2>4, LocTyped DEF BeginRun, TypeOK, database
<1>7. ASSUME AnnounceAbort(p) PROVE TypeOK'
  <2>1. alerts' \in [Cycle -> SUBSET Alert]
    BY <1>0, <1>7 DEF AnnounceAbort, Emit, Alert, TypeOK
  <2> QED BY <1>7, <2>1, ExitTyped DEF AnnounceAbort, TypeOK
<1>8. ASSUME AnnounceConflict(p) PROVE TypeOK'
  <2>1. alerts' \in [Cycle -> SUBSET Alert]
    BY <1>0, <1>8 DEF AnnounceConflict, Emit, Alert, TypeOK
  <2>2. pc' \in [Invocation -> Label] /\ pc' = [pc EXCEPT ![p] = "release"]
    BY <1>8 DEF AnnounceConflict, Goto, TypeOK, Label, Closing
  <2> QED BY <1>8, <2>1, <2>2 DEF AnnounceConflict, TypeOK
<1> QED
  BY <1>3, <1>4, <1>5, <1>6, <1>7, <1>8 DEF Locking

LEMMA SavingTyped ==
    ASSUME TypeOK, NEW p \in Invocation, Saving(p)
    PROVE  TypeOK'
<1>1. ASSUME SaveCheck(p) PROVE TypeOK'
  BY <1>1 DEF SaveCheck, TypeOK, database
<1>2. ASSUME SaveRefused(p) PROVE TypeOK'
  BY <1>2, ExitTyped DEF SaveRefused, TypeOK, database
<1>3. ASSUME SaveWrite(p) PROVE TypeOK'
  BY <1>3 DEF SaveWrite, TypeOK, database, Own
<1> QED
  BY <1>1, <1>2, <1>3 DEF Saving

LEMMA CollectingTyped ==
    ASSUME TypeOK, NEW p \in Invocation, Collecting(p)
    PROVE  TypeOK'
<1>0. /\ {"sources", "collecting", "collected", "enter", "collection", "sealed"} \subseteq Label
      /\ {"cohort", "collection"} \subseteq Stage
      /\ {"RUNNING", "SUCCEEDED"} \subseteq StageStatus
      /\ Own(p) \in Cycle /\ loc[p] \in Local
  BY DEF Label, Working, Closing, Stage, StageStatus, TypeOK, Own
<1>1. ASSUME CohortResolved(p) PROVE TypeOK'
  BY <1>0, <1>1, SaveStageTyped DEF CohortResolved, TypeOK, database
<1>2. ASSUME BeginCollection(p) PROVE TypeOK'
  <2>1. CASE Late(p)
    BY <1>0, <1>2, <2>1, SealTimeoutTyped DEF BeginCollection, TypeOK, database
  <2>2. CASE ~Late(p)
    BY <1>0, <1>2, <2>2, SaveStageTyped DEF BeginCollection, TypeOK, database
  <2> QED BY <2>1, <2>2
<1>3. ASSUME NEW s \in Source, SkipCollected(p, s) PROVE TypeOK'
  <2> DEFINE l == [loc[p] EXCEPT !.seen = loc[p].seen \cup {s}]
  <2>1. l \in Local /\ l.source = loc[p].source
    BY <1>0 DEF Local
  <2>2. loc' = [loc EXCEPT ![p] = l]
    BY <1>3 DEF SkipCollected
  <2> HIDE DEF l
  <2> QED BY <1>3, <2>1, <2>2, LocTyped DEF SkipCollected, TypeOK, database
<1>4. ASSUME NEW s \in Source, StartSource(p, s) PROVE TypeOK'
  <2>1. Len(attempts[Own(p)][s]) + 1 \in Nat
    BY <1>0 DEF TypeOK
  <2> DEFINE l == [loc[p] EXCEPT !.source = s, !.number = Len(attempts[Own(p)][s]) + 1]
  <2>2. l \in Local /\ l.source = s
    BY <1>0, <2>1 DEF Local
  <2>4. loc' = [loc EXCEPT ![p] = l]
    BY <1>4 DEF StartSource
  <2>3. pc' \in [Invocation -> Label] /\ pc' = [pc EXCEPT ![p] = "collecting"]
    BY <1>0, <1>4 DEF StartSource, Goto, TypeOK
  <2> HIDE DEF l
  <2>5. /\ loc' \in [Invocation -> Local] /\ loc'[p].source = s
        /\ \A q \in Invocation \ {p} : loc'[q] = loc[q]
    BY <2>2, <2>4, LocTyped
  <2>6. \A q \in Invocation : pc'[q] \in {"collecting", "collected"} => loc'[q].source \in Source
    BY <2>3, <2>5 DEF TypeOK
  <2> QED BY <1>4, <2>3, <2>5, <2>6 DEF StartSource, TypeOK, database
<1>5. ASSUME NEW ok \in BOOLEAN, RecordAttempt(p, ok) PROVE TypeOK'
  <2> DEFINE s == loc[p].source
             attempt == [number |-> loc[p].number, ok |-> ok, at |-> clock]
  <2>1. s \in Source
    BY <1>5 DEF RecordAttempt, At, TypeOK
  <2>2. attempt \in Attempt
    BY <1>0 DEF Attempt, Local, TypeOK
  <2>3. attempts' = [attempts EXCEPT ![Own(p)][s] = Append(attempts[Own(p)][s], attempt)]
    BY <1>5 DEF RecordAttempt
  <2>4. attempts' \in [Cycle -> [Source -> Seq(Attempt)]]
    <3>1. Append(attempts[Own(p)][s], attempt) \in Seq(Attempt)
      BY <1>0, <2>1, <2>2 DEF TypeOK
    <3> QED BY <1>0, <2>1, <2>3, <3>1 DEF TypeOK
  <2> DEFINE l == [loc[p] EXCEPT !.failures = IF ok THEN loc[p].failures
                                              ELSE loc[p].failures \cup {s}]
  <2>5. l \in Local /\ l.source = s
    BY <1>0, <2>1 DEF Local
  <2>8. loc' = [loc EXCEPT ![p] = l]
    BY <1>5 DEF RecordAttempt
  <2>6. alerts' \in [Cycle -> SUBSET Alert]
    BY <1>0, <1>5 DEF RecordAttempt, Emit, Alert, TypeOK
  <2>7. pc' \in [Invocation -> Label] /\ pc' = [pc EXCEPT ![p] = "collected"]
    BY <1>0, <1>5 DEF RecordAttempt, Goto, TypeOK
  <2> HIDE DEF l
  <2> QED BY <1>5, <2>1, <2>4, <2>5, <2>6, <2>7, <2>8, LocTyped DEF RecordAttempt, TypeOK
<1>6. ASSUME AfterSource(p) PROVE TypeOK'
  <2>1. CASE Late(p)
    BY <1>0, <1>6, <2>1, SealTimeoutTyped DEF AfterSource, TypeOK, database
  <2>2. CASE ~Late(p)
    <3>1. loc[p].source \in Source
      BY <1>6 DEF AfterSource, At, TypeOK
    <3> DEFINE l == [loc[p] EXCEPT !.seen = loc[p].seen \cup {loc[p].source}]
    <3>2. l \in Local
      BY <1>0, <3>1 DEF Local
    <3>4. loc' = [loc EXCEPT ![p] = l]
      BY <1>6, <2>2 DEF AfterSource
    <3>3. pc' \in [Invocation -> Label] /\ pc' = [pc EXCEPT ![p] = "sources"]
      BY <1>0, <1>6, <2>2 DEF AfterSource, Goto, TypeOK
    <3> HIDE DEF l
    <3> QED BY <1>6, <2>2, <3>2, <3>3, <3>4, LocTyped DEF AfterSource, TypeOK, database
  <2> QED BY <2>1, <2>2
<1>7. ASSUME FinishCollection(p) PROVE TypeOK'
  <2> DEFINE l == [loc[p] EXCEPT !.stage = "green_continuity"]
  <2>1. l \in Local
    BY <1>0 DEF Local, Stage
  <2>2. loc' = [loc EXCEPT ![p] = l]
    BY <1>7 DEF FinishCollection
  <2> HIDE DEF l
  <2>3. /\ mem' \in [Invocation -> Row]
        /\ save' \in [Invocation -> {"none", "check", "write"}]
        /\ pc' \in [Invocation -> Label] /\ pc' = [pc EXCEPT ![p] = "enter"]
    BY <1>0, <1>7, SaveStageTyped DEF FinishCollection
  <2>4. /\ loc' \in [Invocation -> Local]
        /\ \A q \in Invocation \ {p} : loc'[q] = loc[q]
    BY <2>1, <2>2, LocTyped
  <2> QED BY <1>7, <2>3, <2>4 DEF FinishCollection, TypeOK, database
<1> QED
  BY <1>1, <1>2, <1>3, <1>4, <1>5, <1>6, <1>7 DEF Collecting

LEMMA StageDoneTyped ==
    ASSUME TypeOK, NEW p \in Invocation, NEW stage \in Stage, NEW l \in Local,
           NEW label \in Label, label \notin {"collecting", "collected"},
           StageDone(p, stage, l, label)
    PROVE  TypeOK'
<1>1. "SUCCEEDED" \in StageStatus
  BY DEF StageStatus
<1>2. /\ mem' \in [Invocation -> Row]
      /\ save' \in [Invocation -> {"none", "check", "write"}]
      /\ pc' \in [Invocation -> Label] /\ pc' = [pc EXCEPT ![p] = label]
  BY <1>1, SaveStageTyped DEF StageDone
<1>3. /\ loc' \in [Invocation -> Local]
      /\ \A q \in Invocation \ {p} : loc'[q] = loc[q]
  BY LocTyped DEF StageDone
<1> QED BY <1>2, <1>3 DEF StageDone, TypeOK, database

LEMMA SealedTyped ==
    ASSUME TypeOK, NEW p \in Invocation, NEW m \in Row, NEW stage \in Stage,
           NEW status \in Status, Seal(p, m, stage, status),
           UNCHANGED <<row, database, lock, clock, crashes, args, loc>>
    PROVE  TypeOK'
BY SealTyped DEF TypeOK, database

\* A step inside the geospatial stage that saves nothing.
LEMMA GeoStepTyped ==
    ASSUME TypeOK, NEW p \in Invocation, NEW l \in Local,
           NEW label \in {"georealign", "georepeat"},
           loc' = [loc EXCEPT ![p] = l], Goto(p, label),
           UNCHANGED <<row, database, lock, clock, crashes, args, save, mem>>
    PROVE  TypeOK'
<1>1. pc' \in [Invocation -> Label] /\ pc' = [pc EXCEPT ![p] = label]
  BY DEF Goto, TypeOK, Label, Working
<1>2. /\ loc' \in [Invocation -> Local]
      /\ \A q \in Invocation \ {p} : loc'[q] = loc[q]
  BY LocTyped
<1> QED BY <1>1, <1>2 DEF TypeOK, database

LEMMA BuildingTyped ==
    ASSUME TypeOK, NEW p \in Invocation, Building(p)
    PROVE  TypeOK'
<1>0. /\ {"enter", "work", "continuity", "final"} \subseteq Label
      /\ Failed \subseteq Status
      /\ {"RUNNING", "SKIPPED", "FAILED"} \subseteq StageStatus
      /\ loc[p] \in Local /\ loc[p].stage \in Stage /\ mem[p] \in Row
      /\ clock \in Stamp /\ clock \in Nat
  BY DEF Label, Working, Status, StageStatus, TypeOK, Local, Stamp
<1>1. /\ status_by_stage[loc[p].stage] \in Status
      /\ {"FAILED_DEDUP", "FAILED_CONTINUITY", "FAILED_GEOSPATIAL"} \subseteq Status
  BY <1>0, StatusByStageTyped DEF Failed
<1>2. /\ {"dedup", "premium", "dashboard", "readiness"} \subseteq Artifact
      /\ {"dedup", "premium", "dashboard", "readiness", "geospatial", "green_continuity",
          "dedup_continuity"} \subseteq Stage
  BY DEF Artifact, Stage
<1>3. ASSUME EnterStage(p) PROVE TypeOK'
  BY <1>0, <1>3, SaveStageTyped DEF EnterStage, TypeOK, database
<1>4. ASSUME StageTimesOut(p) PROVE TypeOK'
  BY <1>0, <1>1, <1>4, SealedTyped DEF StageTimesOut, SealTimeout
<1>5. ASSUME StageFails(p) PROVE TypeOK'
  <2>1. [mem[p] EXCEPT !.stages["dedup_continuity"] = "SKIPPED"] \in Row
    BY <1>0, <1>2, SetStageTyped
  <2>2. CASE loc[p].stage = "dedup"
    BY <1>1, <1>2, <1>5, <2>1, <2>2, SealedTyped DEF StageFails
  <2>3. CASE loc[p].stage # "dedup"
    BY <1>0, <1>1, <1>5, <2>3, SealedTyped DEF StageFails
  <2> QED BY <2>2, <2>3
<1>6. ASSUME ContinuityConflict(p) PROVE TypeOK'
  <2>1. [mem[p] EXCEPT !.stages["dedup"] = "FAILED"] \in Row
    BY <1>0, <1>2, SetStageTyped
  <2> QED BY <1>1, <1>2, <1>6, <2>1, SealedTyped DEF ContinuityConflict
<1>7. ASSUME GreenContinuity(p) PROVE TypeOK'
  <2>1. [loc[p] EXCEPT !.stage = "dedup"] \in Local
    BY <1>0, <1>2 DEF Local
  <2> QED BY <1>0, <1>2, <1>7, <2>1, StageDoneTyped DEF GreenContinuity
<1>8. ASSUME Dedup(p) PROVE TypeOK'
  <2>1. [loc[p] EXCEPT !.cutoff = clock, !.pit["dedup"] = clock] \in Local
    <3> DEFINE cut == [loc[p] EXCEPT !.cutoff = clock]
    <3>1. cut \in Local
      BY <1>0, TimesTyped
    <3> HIDE DEF cut
    <3>2. [cut EXCEPT !.pit["dedup"] = clock] \in Local
      BY <1>0, <1>2, <3>1, TimesTyped
    <3> QED BY <3>2, Zenon DEF cut
  <2> QED BY <1>0, <1>2, <1>8, <2>1, StageDoneTyped DEF Dedup
<1>9. ASSUME DedupContinuity(p) PROVE TypeOK'
  <2>1. [loc[p] EXCEPT !.stage = "premium"] \in Local
    BY <1>0, <1>2 DEF Local
  <2> QED BY <1>0, <1>2, <1>9, <2>1, StageDoneTyped DEF DedupContinuity
<1>10. ASSUME Premium(p) PROVE TypeOK'
  <2>1. [loc[p] EXCEPT !.stage = "geospatial", !.pit["premium"] = loc[p].cutoff] \in Local
    BY <1>0, <1>2 DEF Local
  <2> QED BY <1>0, <1>2, <1>10, <2>1, StageDoneTyped DEF Premium
<1>11. ASSUME NEW created \in BOOLEAN, NEW resolution \in {Never} \cup 0..clock,
              GeospatialFirst(p, created, resolution)
       PROVE  TypeOK'
  <2>1. resolution \in Stamp
    BY <1>0 DEF Stamp
  <2>2. [loc[p] EXCEPT !.created = created, !.resolution = resolution] \in Local
    BY <1>0, <2>1 DEF Local
  <2> QED BY <1>11, <2>2, GeoStepTyped DEF GeospatialFirst
<1>12. ASSUME GeospatialRealign(p) PROVE TypeOK'
  <2>1. [loc[p] EXCEPT !.cutoff = clock, !.pit["dedup"] = clock,
                       !.pit["premium"] = clock] \in Local
    <3> DEFINE cut == [loc[p] EXCEPT !.cutoff = clock]
               deduped == [cut EXCEPT !.pit["dedup"] = clock]
    <3>1. cut \in Local
      BY <1>0, TimesTyped
    <3> HIDE DEF cut
    <3>2. deduped \in Local
      BY <1>0, <1>2, <3>1, TimesTyped
    <3> HIDE DEF deduped
    <3>3. [deduped EXCEPT !.pit["premium"] = clock] \in Local
      BY <1>0, <1>2, <3>2, TimesTyped
    <3> QED BY <3>3, Zenon DEF cut, deduped
  <2> DEFINE l == [loc[p] EXCEPT !.cutoff = clock, !.pit["dedup"] = clock,
                                 !.pit["premium"] = clock]
  <2>2. /\ loc' = [loc EXCEPT ![p] = l] /\ Goto(p, "georepeat")
        /\ UNCHANGED <<row, database, lock, clock, crashes, args, save, mem>>
    BY <1>12 DEF GeospatialRealign
  <2> HIDE DEF l
  <2>3. l \in Local
    BY <2>1 DEF l
  <2> QED BY <2>2, <2>3, GeoStepTyped
<1>13. ASSUME GeospatialAligned(p) PROVE TypeOK'
  <2>1. [loc[p] EXCEPT !.stage = "dashboard"] \in Local
    BY <1>0, <1>2 DEF Local
  <2> QED BY <1>0, <1>2, <1>13, <2>1, StageDoneTyped DEF GeospatialAligned
<1>14. ASSUME NEW created \in BOOLEAN, NEW resolution \in {Never} \cup 0..clock,
              GeospatialRepeat(p, created, resolution)
       PROVE  TypeOK'
  <2>1. resolution \in Stamp
    BY <1>0 DEF Stamp
  <2> DEFINE l == [loc[p] EXCEPT !.resolution = resolution, !.created = FALSE,
                                 !.stage = "dashboard"]
  <2>2. l \in Local
    BY <1>0, <1>2, <2>1 DEF Local
  <2>3. CASE RequiresAdvance(created, resolution, loc[p].cutoff)
    BY <1>0, <1>1, <1>2, <1>14, <2>3, SealedTyped DEF GeospatialRepeat
  <2>4. CASE ~RequiresAdvance(created, resolution, loc[p].cutoff)
    <3>1. StageDone(p, "geospatial", l, "enter")
      BY <1>14, <2>4 DEF GeospatialRepeat, StageDone
    <3> QED BY <1>0, <1>2, <2>2, <3>1, StageDoneTyped
  <2> QED BY <2>3, <2>4
<1>15. ASSUME GeospatialFails(p) PROVE TypeOK'
  BY <1>0, <1>1, <1>2, <1>15, SealedTyped DEF GeospatialFails
<1>16. ASSUME Dashboard(p) PROVE TypeOK'
  <2>1. [loc[p] EXCEPT !.stage = "readiness", !.pit["dashboard"] = loc[p].cutoff] \in Local
    BY <1>0, <1>2 DEF Local
  <2> QED BY <1>0, <1>2, <1>16, <2>1, StageDoneTyped DEF Dashboard
<1>17. ASSUME Readiness(p) PROVE TypeOK'
  <2>1. [loc[p] EXCEPT !.pit["readiness"] = loc[p].cutoff,
                       !.fresh = FreshAt(loc[p].cutoff)] \in Local
    BY <1>0, <1>2 DEF Local, FreshAt
  <2> QED BY <1>0, <1>2, <1>17, <2>1, StageDoneTyped DEF Readiness
<1> QED
  BY <1>3, <1>4, <1>5, <1>6, <1>7, <1>8, <1>9, <1>10, <1>11, <1>12, <1>13, <1>14, <1>15,
     <1>16, <1>17 DEF Building

LEMMA SealingTyped ==
    ASSUME TypeOK, NEW p \in Invocation, Sealing(p)
    PROVE  TypeOK'
<1>0. mem[p] \in Row /\ loc[p] \in Local /\ Own(p) \in Cycle /\ clock \in Stamp
  BY DEF TypeOK, Own, Stamp
<1>1. ASSUME NEW status \in Completed, Finish(p, status) PROVE TypeOK'
  <2> DEFINE m == [mem[p] EXCEPT !.status = status,
                                 !.health = OperationalHealth(loc[p].failures),
                                 !.heartbeat = clock, !.cutoff = loc[p].cutoff,
                                 !.pit = loc[p].pit, !.resolution = loc[p].resolution,
                                 !.fresh = loc[p].fresh]
  <2>1. status \in Status /\ OperationalHealth(loc[p].failures) \in Health
    BY DEF Status, Completed, OperationalHealth, Health
  <2>2. m \in Row
    BY <1>0, <2>1 DEF Row, Local
  <2>3. "succeeded" \in Label
    BY DEF Label, Closing
  <2>4. Save(p, m, "succeeded") /\ UNCHANGED <<row, database, lock, clock, crashes, args, loc>>
    BY <1>1 DEF Finish
  <2> HIDE DEF m
  <2> QED BY <2>2, <2>3, <2>4, SaveTyped DEF TypeOK, database
<1>2. ASSUME AnnounceFailure(p) PROVE TypeOK'
  <2>1. SpecificAlert(mem[p].status) \subseteq Alert
    BY DEF SpecificAlert, Alert
  <2>2. alerts' \in [Cycle -> SUBSET Alert]
    BY <1>0, <1>2, <2>1 DEF AnnounceFailure, Emit, Alert, TypeOK
  <2>3. pc' \in [Invocation -> Label] /\ pc' = [pc EXCEPT ![p] = "release"]
    BY <1>2 DEF AnnounceFailure, Goto, TypeOK, Label, Closing
  <2> QED BY <1>2, <2>2, <2>3 DEF AnnounceFailure, TypeOK
<1>3. ASSUME AnnounceSuccess(p) PROVE TypeOK'
  <2>1. alerts' \in [Cycle -> SUBSET Alert]
    BY <1>0, <1>3 DEF AnnounceSuccess, Emit, Alert, TypeOK
  <2>2. pc' \in [Invocation -> Label] /\ pc' = [pc EXCEPT ![p] = "release"]
    BY <1>3 DEF AnnounceSuccess, Goto, TypeOK, Label, Closing
  <2> QED BY <1>3, <2>1, <2>2 DEF AnnounceSuccess, TypeOK
<1>4. ASSUME ReleaseLock(p) PROVE TypeOK'
  BY <1>4, ExitTyped DEF ReleaseLock, TypeOK, database
<1> QED
  BY <1>1, <1>2, <1>3, <1>4 DEF Sealing

\* TypeOK holds in every state of every run of the cycle, for all constants.
THEOREM TypeCorrect == Spec => []TypeOK
<1>1. Init => TypeOK
  <2> SUFFICES ASSUME Init PROVE TypeOK
    OBVIOUS
  <2>1. row \in [Cycle -> Row] /\ mem \in [Invocation -> Row] /\ loc \in [Invocation -> Local]
    BY NoRowTyped, NoLocalTyped DEF Init
  <2>2. attempts \in [Cycle -> [Source -> Seq(Attempt)]]
    BY DEF Init
  <2>3. pc \in [Invocation -> Label]
        /\ \A p \in Invocation : pc[p] \notin {"collecting", "collected"}
    BY DEF Init, Label, Unlocked
  <2> QED BY <2>1, <2>2, <2>3 DEF Init, TypeOK
<1>2. TypeOK /\ [Next]_vars => TypeOK'
  <2> SUFFICES ASSUME TypeOK, [Next]_vars PROVE TypeOK'
    OBVIOUS
  <2>1. ASSUME NEW p \in Invocation, Step(p) PROVE TypeOK'
    BY <2>1, AdmissionTyped, LockingTyped, SavingTyped, CollectingTyped, BuildingTyped,
       SealingTyped DEF Step
  <2>2. ASSUME NEW p \in Invocation, Crash(p) PROVE TypeOK'
    <3>1. Own(p) \in Cycle /\ At(p, "sealed") \in BOOLEAN
      BY DEF TypeOK, Own, At
    <3>2. crashes' \in Seq([of : Cycle, unannounced : BOOLEAN])
      BY <2>2, <3>1 DEF Crash, TypeOK
    <3> QED BY <2>2, <3>2, ExitTyped DEF Crash, TypeOK, database
  <2>3. ASSUME Tick PROVE TypeOK'
    BY <2>3 DEF Tick, TypeOK, database
  <2>4. ASSUME UNCHANGED vars PROVE TypeOK'
    BY <2>4 DEF vars, TypeOK
  <2> QED BY <2>1, <2>2, <2>3, <2>4 DEF Next
<1> QED BY <1>1, <1>2, PTL DEF Spec

-----------------------------------------------------------------------------
(* One lock holder and one running cycle.                                  *)

\* An invocation past BeginRun that has not announced its result.
Begun == Working \cup {"sealed", "succeeded"}

\* While an invocation is past BeginRun no other cycle is RUNNING: the row of a crashed
\* invocation is one that the check of the other rows found, or its own.
AloneWhileBegun ==
    \A p \in Invocation : pc[p] \in Begun =>
        \A c \in Cycle \ {Own(p)} : row[c].status # "RUNNING"

\* What an invocation writes before it begins, or without beginning, is the refusal.
RefusalsOnly ==
    \A p \in Invocation : save[p] # "none" /\ pc[p] \notin Begun =>
        mem[p].status = "ABORTED_CONCURRENCY"

\* The inductive strengthening of AtMostOneRunning.
Exclusion == LockExclusion /\ AloneWhileBegun /\ RefusalsOnly /\ AtMostOneRunning

\* A step by which an invocation that has begun goes on, before any row changes.
Progress(p) ==
    /\ pc[p] \in Begun
    /\ \E label \in Begun : pc' = [pc EXCEPT ![p] = label]
    /\ UNCHANGED <<row, lock, args>>
    /\ \A q \in Invocation \ {p} : save'[q] = save[q] /\ mem'[q] = mem[q]

LEMMA ProgressExcludes ==
    ASSUME TypeOK, Exclusion, NEW p \in Invocation, Progress(p)
    PROVE  Exclusion'
<1>1. PICK label \in Begun : pc' = [pc EXCEPT ![p] = label]
  BY DEF Progress
<1>2. pc'[p] = label /\ \A q \in Invocation \ {p} : pc'[q] = pc[q]
  BY <1>1 DEF TypeOK
<1>3. Begun \cap Unlocked = {}
  BY DEF Begun, Working, Unlocked
<1>4. LockExclusion'
  BY <1>2, <1>3 DEF Progress, Exclusion, LockExclusion
<1>5. AloneWhileBegun'
  BY <1>2 DEF Progress, Exclusion, AloneWhileBegun, Own
<1>6. RefusalsOnly'
  BY <1>2 DEF Progress, Exclusion, RefusalsOnly
<1>7. AtMostOneRunning'
  BY DEF Progress, Exclusion, AtMostOneRunning
<1> QED BY <1>4, <1>5, <1>6, <1>7 DEF Exclusion

LEMMA SaveProgresses ==
    ASSUME TypeOK, NEW p \in Invocation, pc[p] \in Begun, NEW m, NEW label \in Begun,
           Save(p, m, label), UNCHANGED <<row, lock, args>>
    PROVE  Progress(p)
BY DEF Save, Goto, Progress, TypeOK

LEMMA CollectingProgresses ==
    ASSUME TypeOK, NEW p \in Invocation, Collecting(p)
    PROVE  Progress(p)
<1>0. /\ {"cohort", "collection", "sources", "collecting", "collected", "enter", "sealed"}
            \subseteq Begun
      /\ pc = [pc EXCEPT ![p] = pc[p]]
  BY DEF Begun, Working, TypeOK
<1>1. ASSUME CohortResolved(p) PROVE Progress(p)
  BY <1>0, <1>1, SaveProgresses DEF CohortResolved, SaveStage, At
<1>2. ASSUME BeginCollection(p) PROVE Progress(p)
  BY <1>0, <1>2, SaveProgresses DEF BeginCollection, SaveStage, SealTimeout, Seal, At
<1>3. ASSUME NEW s \in Source, SkipCollected(p, s) PROVE Progress(p)
  BY <1>0, <1>3 DEF SkipCollected, At, Progress
<1>4. ASSUME NEW s \in Source, StartSource(p, s) PROVE Progress(p)
  BY <1>0, <1>4 DEF StartSource, At, Goto, Progress
<1>5. ASSUME NEW ok \in BOOLEAN, RecordAttempt(p, ok) PROVE Progress(p)
  BY <1>0, <1>5 DEF RecordAttempt, At, Goto, Progress
<1>6. ASSUME AfterSource(p) PROVE Progress(p)
  <2>1. CASE Late(p)
    BY <1>0, <1>6, <2>1, SaveProgresses DEF AfterSource, SealTimeout, Seal, At
  <2>2. CASE ~Late(p)
    BY <1>0, <1>6, <2>2 DEF AfterSource, At, Goto, Progress
  <2> QED BY <2>1, <2>2
<1>7. ASSUME FinishCollection(p) PROVE Progress(p)
  BY <1>0, <1>7, SaveProgresses DEF FinishCollection, SaveStage, At
<1> QED
  BY <1>1, <1>2, <1>3, <1>4, <1>5, <1>6, <1>7 DEF Collecting

LEMMA BuildingProgresses ==
    ASSUME TypeOK, NEW p \in Invocation, Building(p)
    PROVE  Progress(p)
<1>0. {"enter", "work", "continuity", "georealign", "georepeat", "final", "sealed"}
          \subseteq Begun
  BY DEF Begun, Working
<1>1. ASSUME EnterStage(p) PROVE Progress(p)
  BY <1>0, <1>1, SaveProgresses DEF EnterStage, SaveStage, At
<1>2. ASSUME StageTimesOut(p) PROVE Progress(p)
  BY <1>0, <1>2, SaveProgresses DEF StageTimesOut, SealTimeout, Seal, At
<1>3. ASSUME StageFails(p) PROVE Progress(p)
  BY <1>0, <1>3, SaveProgresses DEF StageFails, Seal, At
<1>4. ASSUME ContinuityConflict(p) PROVE Progress(p)
  BY <1>0, <1>4, SaveProgresses DEF ContinuityConflict, Seal, At
<1>5. ASSUME NEW stage \in Stage, NEW l, NEW label \in Begun, pc[p] \in Begun,
             StageDone(p, stage, l, label)
      PROVE  Progress(p)
  BY <1>5, SaveProgresses DEF StageDone, SaveStage
<1>6. ASSUME \/ GreenContinuity(p) \/ Dedup(p) \/ DedupContinuity(p) \/ Premium(p)
             \/ GeospatialAligned(p) \/ Dashboard(p) \/ Readiness(p)
      PROVE  Progress(p)
  BY <1>0, <1>5, <1>6 DEF GreenContinuity, Dedup, DedupContinuity, Premium, GeospatialAligned,
     Dashboard, Readiness, Works, At, Stage
<1>7. ASSUME NEW created \in BOOLEAN, NEW resolution \in {Never} \cup 0..clock,
             GeospatialFirst(p, created, resolution)
      PROVE  Progress(p)
  BY <1>0, <1>7 DEF GeospatialFirst, Works, At, Goto, Progress
<1>8. ASSUME GeospatialRealign(p) PROVE Progress(p)
  BY <1>0, <1>8 DEF GeospatialRealign, At, Goto, Progress
<1>9. ASSUME NEW created \in BOOLEAN, NEW resolution \in {Never} \cup 0..clock,
             GeospatialRepeat(p, created, resolution)
      PROVE  Progress(p)
  BY <1>0, <1>9, SaveProgresses DEF GeospatialRepeat, SaveStage, Seal, At
<1>10. ASSUME GeospatialFails(p) PROVE Progress(p)
  BY <1>0, <1>10, SaveProgresses DEF GeospatialFails, Seal, At
<1> QED
  BY <1>1, <1>2, <1>3, <1>4, <1>6, <1>7, <1>8, <1>9, <1>10 DEF Building

\* A process that is gone takes the lock with it and leaves the rows as they are.
LEMMA ExitExcludes ==
    ASSUME TypeOK, Exclusion, NEW p \in Invocation, Exit(p), UNCHANGED <<row, args>>
    PROVE  Exclusion'
<1>1. /\ pc'[p] = "done" /\ save'[p] = "none"
      /\ \A q \in Invocation \ {p} : pc'[q] = pc[q] /\ save'[q] = save[q] /\ mem'[q] = mem[q]
      /\ lock' = IF lock = p THEN None ELSE lock
  BY DEF Exit, Goto, TypeOK
<1>2. "done" \in Unlocked /\ "done" \notin Begun
  BY DEF Unlocked, Begun, Working
<1>3. LockExclusion'
  BY <1>1, <1>2, CycleAssumption DEF Exclusion, LockExclusion, CycleAssumption
<1>4. AloneWhileBegun'
  BY <1>1, <1>2 DEF Exclusion, AloneWhileBegun, Own
<1>5. RefusalsOnly'
  BY <1>1 DEF Exclusion, RefusalsOnly
<1>6. AtMostOneRunning'
  BY DEF Exclusion, AtMostOneRunning
<1> QED BY <1>3, <1>4, <1>5, <1>6 DEF Exclusion

\* A step of an invocation that has not begun, keeps what it holds of the lock and does
\* not enter cycle.save().
LEMMA WaitingExcludes ==
    ASSUME TypeOK, Exclusion, NEW p \in Invocation, NEW label, save[p] = "none",
           label \notin Begun, label \in Unlocked <=> pc[p] \in Unlocked,
           pc' = [pc EXCEPT ![p] = label], UNCHANGED <<lock, args, save>>,
           \A q \in Invocation \ {p} : mem'[q] = mem[q],
           \A c \in Cycle : row'[c].status = "RUNNING" => row[c].status = "RUNNING"
    PROVE  Exclusion'
<1>1. pc'[p] = label /\ \A q \in Invocation \ {p} : pc'[q] = pc[q]
  BY DEF TypeOK
<1>2. LockExclusion'
  BY <1>1 DEF Exclusion, LockExclusion
<1>3. AloneWhileBegun'
  BY <1>1 DEF Exclusion, AloneWhileBegun, Own
<1>4. RefusalsOnly'
  BY <1>1 DEF Exclusion, RefusalsOnly
<1>5. AtMostOneRunning'
  BY DEF Exclusion, AtMostOneRunning
<1> QED BY <1>2, <1>3, <1>4, <1>5 DEF Exclusion

LEMMA AdmissionExcludes ==
    ASSUME TypeOK, Exclusion, NEW p \in Invocation, Admission(p)
    PROVE  Exclusion'
<1>0. {"load", "admit", "create", "lock"} \subseteq Unlocked \ Begun
  BY DEF Unlocked, Begun, Working
<1>1. ASSUME LoadRow(p) PROVE Exclusion'
  BY <1>0, <1>1, WaitingExcludes DEF LoadRow, At, Goto, TypeOK
<1>2. ASSUME \/ ReplayCompleted(p) \/ RefuseRetry(p) \/ CreateCollides(p) PROVE Exclusion'
  BY <1>2, ExitExcludes DEF ReplayCompleted, RefuseRetry, CreateCollides
<1>3. ASSUME AdmitRetry(p) PROVE Exclusion'
  BY <1>0, <1>3, WaitingExcludes DEF AdmitRetry, At, Goto
<1>4. ASSUME AdmitNew(p) PROVE Exclusion'
  BY <1>0, <1>4, WaitingExcludes DEF AdmitNew, At, Goto
<1>5. ASSUME CreateCycle(p) PROVE Exclusion'
  <2>1. \A c \in Cycle : row'[c].status = "RUNNING" => row[c].status = "RUNNING"
    BY <1>5 DEF CreateCycle, TypeOK, NoRow
  <2>2. \A q \in Invocation \ {p} : mem'[q] = mem[q]
    BY <1>5 DEF CreateCycle, TypeOK
  <2> QED BY <1>0, <1>5, <2>1, <2>2, WaitingExcludes DEF CreateCycle, At, Goto
<1> QED
  BY <1>1, <1>2, <1>3, <1>4, <1>5 DEF Admission

LEMMA LockingExcludes ==
    ASSUME TypeOK, Exclusion, NEW p \in Invocation, Locking(p)
    PROVE  Exclusion'
<1>0. /\ {"lock", "aborted"} \subseteq Unlocked \ Begun
      /\ {"peers", "conflict", "release"} \cap (Unlocked \cup Begun) = {}
      /\ "cohort" \in Begun \ Unlocked
  BY DEF Unlocked, Begun, Working
<1>1. ASSUME TryLock(p) PROVE Exclusion'
  <2>1. /\ pc'[p] = "peers" /\ save[p] = "none" /\ lock = None /\ lock' = p
        /\ \A q \in Invocation \ {p} : pc'[q] = pc[q]
        /\ UNCHANGED <<row, args, save, mem>>
    BY <1>1 DEF TryLock, At, Goto, TypeOK
  <2>2. LockExclusion'
    BY <1>0, <2>1, CycleAssumption DEF Exclusion, LockExclusion, CycleAssumption
  <2>3. AloneWhileBegun'
    BY <1>0, <2>1 DEF Exclusion, AloneWhileBegun, Own
  <2>4. RefusalsOnly' /\ AtMostOneRunning'
    BY <1>0, <2>1 DEF Exclusion, RefusalsOnly, AtMostOneRunning
  <2> QED BY <2>2, <2>3, <2>4 DEF Exclusion
<1>2. ASSUME NEW label \in {"aborted", "conflict"}, Save(p, Aborted(mem[p]), label),
             label \in Unlocked <=> pc[p] \in Unlocked, UNCHANGED <<row, lock, args>>
      PROVE  Exclusion'
  <2>1. /\ pc'[p] = label /\ mem'[p].status = "ABORTED_CONCURRENCY"
        /\ \A q \in Invocation \ {p} : pc'[q] = pc[q] /\ save'[q] = save[q] /\ mem'[q] = mem[q]
    <3>1. mem[p] \in Row
      BY DEF TypeOK
    <3>2. Aborted(mem[p]).status = "ABORTED_CONCURRENCY"
      BY <3>1 DEF Aborted, Row
    <3> QED BY <1>2, <3>2 DEF Save, Goto, TypeOK
  <2>2. LockExclusion'
    BY <1>2, <2>1 DEF Exclusion, LockExclusion
  <2>3. AloneWhileBegun'
    BY <1>0, <1>2, <2>1 DEF Exclusion, AloneWhileBegun, Own
  <2>4. RefusalsOnly'
    BY <2>1 DEF Exclusion, RefusalsOnly
  <2>5. AtMostOneRunning'
    BY <1>2 DEF Exclusion, AtMostOneRunning
  <2> QED BY <2>2, <2>3, <2>4, <2>5 DEF Exclusion
<1>3. ASSUME LockRefused(p) PROVE Exclusion'
  BY <1>0, <1>2, <1>3 DEF LockRefused, At
<1>4. ASSUME PeerRunning(p) PROVE Exclusion'
  BY <1>0, <1>2, <1>4 DEF PeerRunning, At
<1>5. ASSUME BeginRun(p) PROVE Exclusion'
  <2>1. /\ pc[p] = "peers" /\ pc'[p] = "cohort" /\ UNCHANGED <<row, lock, args>>
        /\ \A q \in Invocation \ {p} : pc'[q] = pc[q] /\ save'[q] = save[q] /\ mem'[q] = mem[q]
    BY <1>5 DEF BeginRun, At, Save, Goto, TypeOK
  <2>2. \A c \in Cycle \ {Own(p)} : row[c].status # "RUNNING"
    BY <1>5 DEF BeginRun, OtherRunning
  <2>3. LockExclusion'
    BY <1>0, <2>1 DEF Exclusion, LockExclusion
  <2>4. AloneWhileBegun'
    BY <2>1, <2>2 DEF Exclusion, AloneWhileBegun, Own
  <2>5. RefusalsOnly' /\ AtMostOneRunning'
    BY <1>0, <2>1 DEF Exclusion, RefusalsOnly, AtMostOneRunning
  <2> QED BY <2>3, <2>4, <2>5 DEF Exclusion
<1>6. ASSUME AnnounceAbort(p) PROVE Exclusion'
  BY <1>6, ExitExcludes DEF AnnounceAbort
<1>7. ASSUME AnnounceConflict(p) PROVE Exclusion'
  BY <1>0, <1>7, WaitingExcludes DEF AnnounceConflict, At, Goto
<1> QED
  BY <1>1, <1>3, <1>4, <1>5, <1>6, <1>7 DEF Locking

\* A row turns RUNNING only by a write of an invocation that has begun, which excludes
\* every other; any other write makes a row that is not RUNNING.
LEMMA SavingExcludes ==
    ASSUME TypeOK, Exclusion, NEW p \in Invocation, Saving(p)
    PROVE  Exclusion'
<1>1. ASSUME SaveCheck(p) PROVE Exclusion'
  <2>1. /\ UNCHANGED <<row, lock, args, pc, mem>> /\ save[p] # "none"
        /\ \A q \in Invocation \ {p} : save'[q] = save[q]
    BY <1>1 DEF SaveCheck, TypeOK
  <2>2. LockExclusion' /\ AloneWhileBegun' /\ AtMostOneRunning'
    BY <2>1 DEF Exclusion, LockExclusion, AloneWhileBegun, AtMostOneRunning, Own
  <2>3. RefusalsOnly'
    BY <2>1 DEF Exclusion, RefusalsOnly
  <2> QED BY <2>2, <2>3 DEF Exclusion
<1>2. ASSUME SaveRefused(p) PROVE Exclusion'
  BY <1>2, ExitExcludes DEF SaveRefused
<1>3. ASSUME SaveWrite(p) PROVE Exclusion'
  <2>1. /\ UNCHANGED <<lock, args, pc, mem>> /\ save[p] # "none"
        /\ row'[Own(p)] = mem[p]
        /\ \A c \in Cycle \ {Own(p)} : row'[c] = row[c]
        /\ save'[p] = "none" /\ \A q \in Invocation \ {p} : save'[q] = save[q]
    BY <1>3 DEF SaveWrite, TypeOK, Own
  <2>2. LockExclusion'
    BY <2>1 DEF Exclusion, LockExclusion
  <2>3. RefusalsOnly'
    BY <2>1 DEF Exclusion, RefusalsOnly
  <2>4. CASE pc[p] \in Begun
    <3>1. \A q \in Invocation : pc[q] \in Begun => q = p
      BY <2>4 DEF Exclusion, LockExclusion, Begun, Working, Unlocked
    <3>2. AloneWhileBegun'
      BY <2>1, <2>4, <3>1 DEF Exclusion, AloneWhileBegun, Own
    <3>3. AtMostOneRunning'
      BY <2>1, <2>4 DEF Exclusion, AloneWhileBegun, AtMostOneRunning
    <3> QED BY <2>2, <2>3, <3>2, <3>3 DEF Exclusion
  <2>5. CASE pc[p] \notin Begun
    <3>1. row'[Own(p)].status # "RUNNING"
      BY <2>1, <2>5 DEF Exclusion, RefusalsOnly
    <3>2. \A c \in Cycle : row'[c].status = "RUNNING" => row[c].status = "RUNNING"
      BY <2>1, <3>1
    <3>3. AloneWhileBegun' /\ AtMostOneRunning'
      BY <2>1, <3>2 DEF Exclusion, AloneWhileBegun, AtMostOneRunning, Own
    <3> QED BY <2>2, <2>3, <3>3 DEF Exclusion
  <2> QED BY <2>4, <2>5
<1> QED
  BY <1>1, <1>2, <1>3 DEF Saving

LEMMA SealingExcludes ==
    ASSUME TypeOK, Exclusion, NEW p \in Invocation, Sealing(p)
    PROVE  Exclusion'
<1>0. /\ {"final", "sealed", "succeeded"} \subseteq Begun \ Unlocked
      /\ "release" \notin Begun \cup Unlocked
  BY DEF Begun, Working, Unlocked
<1>1. ASSUME NEW status \in Completed, Finish(p, status) PROVE Exclusion'
  BY <1>0, <1>1, SaveProgresses, ProgressExcludes DEF Finish, At
<1>2. ASSUME AnnounceFailure(p) PROVE Exclusion'
  BY <1>0, <1>2, WaitingExcludes DEF AnnounceFailure, At, Goto
<1>3. ASSUME AnnounceSuccess(p) PROVE Exclusion'
  BY <1>0, <1>3, WaitingExcludes DEF AnnounceSuccess, At, Goto
<1>4. ASSUME ReleaseLock(p) PROVE Exclusion'
  BY <1>4, ExitExcludes DEF ReleaseLock
<1> QED
  BY <1>1, <1>2, <1>3, <1>4 DEF Sealing

LEMMA NextExcludes ==
    ASSUME TypeOK, Exclusion, [Next]_vars
    PROVE  Exclusion'
<1>1. ASSUME NEW p \in Invocation, Step(p) PROVE Exclusion'
  BY <1>1, AdmissionExcludes, LockingExcludes, SavingExcludes, CollectingProgresses,
     BuildingProgresses, ProgressExcludes, SealingExcludes DEF Step
<1>2. ASSUME NEW p \in Invocation, Crash(p) PROVE Exclusion'
  BY <1>2, ExitExcludes DEF Crash
<1>3. ASSUME Tick \/ UNCHANGED vars PROVE Exclusion'
  BY <1>3 DEF Tick, vars, Exclusion, LockExclusion, AloneWhileBegun, RefusalsOnly,
     AtMostOneRunning, Own
<1> QED BY <1>1, <1>2, <1>3 DEF Next

THEOREM ExclusionInvariant == Spec => []Exclusion
<1>1. Init => Exclusion
  <2> SUFFICES ASSUME Init PROVE Exclusion
    OBVIOUS
  <2>1. \A p \in Invocation : pc[p] = "load" /\ save[p] = "none" /\ lock # p
    BY CycleAssumption DEF Init, CycleAssumption
  <2>2. \A c \in Cycle : row[c].status # "RUNNING"
    BY DEF Init, NoRow
  <2>3. "load" \in Unlocked \ Begun
    BY DEF Unlocked, Begun, Working
  <2> QED
    BY <2>1, <2>2, <2>3 DEF Exclusion, LockExclusion, AloneWhileBegun, RefusalsOnly,
       AtMostOneRunning
<1>2. TypeOK /\ Exclusion /\ [Next]_vars => Exclusion'
  BY NextExcludes
<1> QED BY <1>1, <1>2, TypeCorrect, PTL DEF Spec

\* The advisory lock has one holder, the invocation between lock and unlock.
THEOREM LockExcludes == Spec => []LockExclusion
<1>1. Exclusion => LockExclusion
  BY DEF Exclusion
<1> QED BY <1>1, ExclusionInvariant, PTL

\* At most one cycle is RUNNING, however many invocations start, crash and recover.
THEOREM OneCycleRuns == Spec => []AtMostOneRunning
<1>1. Exclusion => AtMostOneRunning
  BY DEF Exclusion
<1> QED BY <1>1, ExclusionInvariant, PTL

-----------------------------------------------------------------------------
(* The attempts of a source in a cycle.                                    *)

\* What an invocation read when it chose a source is still so when it records the
\* attempt: the lock keeps every other collector of the cycle out in between.
CollectorKnows ==
    \A p \in Invocation : pc[p] = "collecting" =>
        /\ loc[p].number = Len(attempts[Own(p)][loc[p].source]) + 1
        /\ ~PriorSuccess(Own(p), loc[p].source)

\* The inductive strengthening of AttemptsOnce.
Attempting == AttemptsOnce /\ CollectorKnows

\* A step of p that records no attempt and does not begin to collect.
Elsewhere(p) ==
    /\ UNCHANGED <<attempts, args>>
    /\ \A q \in Invocation \ {p} : pc'[q] = pc[q] /\ loc'[q] = loc[q]
    /\ pc'[p] = "collecting" => pc[p] = "collecting" /\ loc'[p] = loc[p]

LEMMA ElsewhereAttempts ==
    ASSUME TypeOK, Attempting, NEW p \in Invocation, Elsewhere(p)
    PROVE  Attempting'
<1>1. AttemptsOnce'
  BY DEF Elsewhere, Attempting, AttemptsOnce
<1>2. \A q \in Invocation : pc'[q] = "collecting" => pc[q] = "collecting" /\ loc'[q] = loc[q]
  BY DEF Elsewhere
<1>3. CollectorKnows'
  BY <1>2 DEF Elsewhere, Attempting, CollectorKnows, PriorSuccess, Own
<1> QED BY <1>1, <1>3 DEF Attempting

LEMMA GotoElsewhere ==
    ASSUME TypeOK, NEW p \in Invocation, NEW label, label # "collecting",
           pc' = [pc EXCEPT ![p] = label], UNCHANGED <<attempts, args>>,
           \A q \in Invocation \ {p} : loc'[q] = loc[q]
    PROVE  Elsewhere(p)
BY DEF Elsewhere, TypeOK

LEMMA ExitElsewhere ==
    ASSUME TypeOK, NEW p \in Invocation, Exit(p), UNCHANGED <<attempts, args>>
    PROVE  Elsewhere(p)
BY DEF Exit, Goto, Elsewhere, TypeOK

LEMMA QuietElsewhere ==
    ASSUME TypeOK, NEW p \in Invocation,
           Admission(p) \/ Locking(p) \/ Saving(p) \/ Sealing(p)
    PROVE  Elsewhere(p)
<1>1. CASE Admission(p)
  <2>1. ASSUME LoadRow(p) \/ AdmitRetry(p) \/ AdmitNew(p) \/ CreateCycle(p)
        PROVE  Elsewhere(p)
    BY <2>1, GotoElsewhere DEF LoadRow, AdmitRetry, AdmitNew, CreateCycle, Goto, database
  <2>2. ASSUME ReplayCompleted(p) \/ RefuseRetry(p) \/ CreateCollides(p) PROVE Elsewhere(p)
    BY <2>2, ExitElsewhere DEF ReplayCompleted, RefuseRetry, CreateCollides, database
  <2> QED BY <1>1, <2>1, <2>2 DEF Admission
<1>2. CASE Locking(p)
  <2>1. ASSUME TryLock(p) \/ LockRefused(p) \/ PeerRunning(p) \/ AnnounceConflict(p)
        PROVE  Elsewhere(p)
    BY <2>1, GotoElsewhere DEF TryLock, LockRefused, PeerRunning, AnnounceConflict, Save, Goto,
       database
  <2>2. ASSUME BeginRun(p) PROVE Elsewhere(p)
    BY <2>2, GotoElsewhere DEF BeginRun, Save, Goto, database, TypeOK
  <2>3. ASSUME AnnounceAbort(p) PROVE Elsewhere(p)
    BY <2>3, ExitElsewhere DEF AnnounceAbort
  <2> QED BY <1>2, <2>1, <2>2, <2>3 DEF Locking
<1>3. CASE Saving(p)
  BY <1>3, ExitElsewhere DEF Saving, SaveCheck, SaveRefused, SaveWrite, database, Elsewhere
<1>4. CASE Sealing(p)
  <2>1. ASSUME \/ \E status \in Completed : Finish(p, status)
               \/ AnnounceFailure(p) \/ AnnounceSuccess(p)
        PROVE  Elsewhere(p)
    BY <2>1, GotoElsewhere DEF Finish, AnnounceFailure, AnnounceSuccess, Save, Goto, database
  <2>2. ASSUME ReleaseLock(p) PROVE Elsewhere(p)
    BY <2>2, ExitElsewhere DEF ReleaseLock, database
  <2> QED BY <1>4, <2>1, <2>2 DEF Sealing
<1> QED BY <1>1, <1>2, <1>3, <1>4

LEMMA BuildingElsewhere ==
    ASSUME TypeOK, NEW p \in Invocation, Building(p)
    PROVE  Elsewhere(p)
<1>1. ASSUME NEW stage, NEW l, NEW label, label # "collecting", StageDone(p, stage, l, label)
      PROVE  Elsewhere(p)
  <2>1. \A q \in Invocation \ {p} : loc'[q] = loc[q]
    BY <1>1 DEF StageDone, TypeOK
  <2> QED BY <1>1, <2>1, GotoElsewhere DEF StageDone, SaveStage, Save, Goto, database
<1>2. ASSUME \/ EnterStage(p) \/ StageTimesOut(p) \/ StageFails(p) \/ ContinuityConflict(p)
             \/ GeospatialFails(p)
      PROVE  Elsewhere(p)
  BY <1>2, GotoElsewhere DEF EnterStage, StageTimesOut, StageFails, ContinuityConflict,
     GeospatialFails, SaveStage, SealTimeout, Seal, Save, Goto, database
<1>3. ASSUME \/ GreenContinuity(p) \/ Dedup(p) \/ DedupContinuity(p) \/ Premium(p)
             \/ GeospatialAligned(p) \/ Dashboard(p) \/ Readiness(p)
      PROVE  Elsewhere(p)
  BY <1>1, <1>3 DEF GreenContinuity, Dedup, DedupContinuity, Premium, GeospatialAligned,
     Dashboard, Readiness
<1>4. ASSUME NEW created \in BOOLEAN, NEW resolution \in {Never} \cup 0..clock,
             GeospatialFirst(p, created, resolution)
      PROVE  Elsewhere(p)
  <2>1. \A q \in Invocation \ {p} : loc'[q] = loc[q]
    BY <1>4 DEF GeospatialFirst, TypeOK
  <2> QED BY <1>4, <2>1, GotoElsewhere DEF GeospatialFirst, Goto, database
<1>5. ASSUME GeospatialRealign(p) PROVE Elsewhere(p)
  <2>1. \A q \in Invocation \ {p} : loc'[q] = loc[q]
    BY <1>5 DEF GeospatialRealign, TypeOK
  <2> QED BY <1>5, <2>1, GotoElsewhere DEF GeospatialRealign, Goto, database
<1>6. ASSUME NEW created \in BOOLEAN, NEW resolution \in {Never} \cup 0..clock,
             GeospatialRepeat(p, created, resolution)
      PROVE  Elsewhere(p)
  <2>1. \A q \in Invocation \ {p} : loc'[q] = loc[q]
    BY <1>6 DEF GeospatialRepeat, TypeOK
  <2> QED
    BY <1>6, <2>1, GotoElsewhere DEF GeospatialRepeat, Seal, SaveStage, Save, Goto, database
<1> QED
  BY <1>2, <1>3, <1>4, <1>5, <1>6 DEF Building

LEMMA AppendedElements ==
    ASSUME NEW S, NEW seq \in Seq(S), NEW e \in S
    PROVE  /\ Append(seq, e) \in Seq(S)
           /\ Len(seq) \in Nat /\ DOMAIN seq = 1..Len(seq)
           /\ Len(Append(seq, e)) = Len(seq) + 1
           /\ DOMAIN Append(seq, e) = 1..(Len(seq) + 1)
           /\ Append(seq, e)[Len(seq) + 1] = e
           /\ \A i \in DOMAIN seq : Append(seq, e)[i] = seq[i]
OBVIOUS

LEMMA CollectingAttempts ==
    ASSUME TypeOK, Exclusion, Attempting, NEW p \in Invocation, Collecting(p)
    PROVE  Attempting'
<1>1. ASSUME CohortResolved(p) \/ BeginCollection(p) PROVE Elsewhere(p)
  BY <1>1, GotoElsewhere DEF CohortResolved, BeginCollection, SealTimeout, Seal, SaveStage,
     Save, Goto, database
<1>2. ASSUME NEW s \in Source, SkipCollected(p, s) PROVE Elsewhere(p)
  BY <1>2 DEF SkipCollected, At, Elsewhere, TypeOK, database
<1>3. ASSUME AfterSource(p) \/ FinishCollection(p) PROVE Elsewhere(p)
  <2>1. \A q \in Invocation \ {p} : loc'[q] = loc[q]
    BY <1>3 DEF AfterSource, FinishCollection, TypeOK
  <2> QED
    BY <1>3, <2>1, GotoElsewhere DEF AfterSource, FinishCollection, SealTimeout, Seal,
       SaveStage, Save, Goto, database
<1>4. ASSUME NEW s \in Source, StartSource(p, s) PROVE Attempting'
  <2>1. /\ UNCHANGED <<attempts, args>> /\ ~PriorSuccess(Own(p), s)
        /\ loc'[p].source = s /\ loc'[p].number = Len(attempts[Own(p)][s]) + 1
        /\ \A q \in Invocation \ {p} : pc'[q] = pc[q] /\ loc'[q] = loc[q]
    BY <1>4 DEF StartSource, Goto, TypeOK, Local, database
  <2>2. AttemptsOnce'
    <3>1. attempts' = attempts /\ AttemptsOnce
      BY <2>1 DEF Attempting
    <3> QED BY <3>1 DEF AttemptsOnce
  <2>3. CollectorKnows'
    <3> SUFFICES ASSUME NEW q \in Invocation, pc'[q] = "collecting"
                 PROVE  /\ loc'[q].number = Len(attempts[Own(q)][loc'[q].source]) + 1
                        /\ ~PriorSuccess(Own(q), loc'[q].source)
      BY <2>1 DEF CollectorKnows, PriorSuccess, Own
    <3>1. CASE q = p
      BY <2>1, <3>1
    <3>2. CASE q # p
      BY <2>1, <3>2 DEF Attempting, CollectorKnows
    <3> QED BY <3>1, <3>2
  <2> QED BY <2>2, <2>3 DEF Attempting
<1>5. ASSUME NEW ok \in BOOLEAN, RecordAttempt(p, ok) PROVE Attempting'
  <2> DEFINE c == Own(p)
             s == loc[p].source
             old == attempts[c][s]
             attempt == [number |-> loc[p].number, ok |-> ok, at |-> clock]
  <2>1. pc[p] = "collecting" /\ c \in Cycle /\ s \in Source
    BY <1>5 DEF RecordAttempt, At, TypeOK, Own
  <2>2. /\ old \in Seq(Attempt) /\ Len(old) \in Nat
        /\ attempt \in Attempt
        /\ loc[p].number = Len(old) + 1
        /\ \A i \in DOMAIN old : ~old[i].ok
    <3>1. old \in Seq(Attempt)
      BY <2>1 DEF TypeOK
    <3>2. attempt \in Attempt
      BY DEF Attempt, TypeOK, Local
    <3>3. loc[p].number = Len(old) + 1 /\ ~PriorSuccess(c, s)
      BY <2>1 DEF Attempting, CollectorKnows
    <3>4. \A i \in DOMAIN old : ~old[i].ok
      BY <3>3 DEF PriorSuccess
    <3> HIDE DEF old, attempt
    <3> QED BY <3>1, <3>2, <3>3, <3>4
  <2>3. /\ attempts'[c][s] = Append(old, attempt)
        /\ \A d \in Cycle, t \in Source :
               <<d, t>> # <<c, s>> => attempts'[d][t] = attempts[d][t]
    BY <1>5, <2>1 DEF RecordAttempt, TypeOK
  <2>4. ASSUME NEW i \in DOMAIN attempts'[c][s]
        PROVE  /\ attempts'[c][s][i].number = i
               /\ attempts'[c][s][i].ok => i = Len(attempts'[c][s])
    <3>0. attempt.number = Len(old) + 1
      BY <2>2
    <3> HIDE DEF old, attempt, c, s
    <3>1. /\ Len(attempts'[c][s]) = Len(old) + 1 /\ i \in 1..(Len(old) + 1)
          /\ DOMAIN old = 1..Len(old)
          /\ attempts'[c][s][Len(old) + 1] = attempt
          /\ \A k \in DOMAIN old : attempts'[c][s][k] = old[k]
      BY <2>2, <2>3, <2>4, AppendedElements
    <3>2. CASE i = Len(old) + 1
      BY <3>0, <3>1, <3>2
    <3>3. CASE i \in DOMAIN old
      <4>1. old[i].number = i
        BY <2>1, <3>3 DEF Attempting, AttemptsOnce, old
      <4> QED BY <2>2, <3>1, <3>3, <4>1
    <3> QED BY <2>2, <3>1, <3>2, <3>3
  <2>5. AttemptsOnce'
    <3> SUFFICES ASSUME NEW d \in Cycle, NEW t \in Source, NEW i \in DOMAIN attempts'[d][t]
                 PROVE  /\ attempts'[d][t][i].number = i
                        /\ attempts'[d][t][i].ok => i = Len(attempts'[d][t])
      BY DEF AttemptsOnce
    <3> HIDE DEF c, s, old, attempt
    <3>1. CASE d = c /\ t = s
      BY <2>4, <3>1
    <3>2. CASE ~(d = c /\ t = s)
      <4>1. attempts'[d][t] = attempts[d][t] /\ AttemptsOnce
        BY <2>3, <3>2 DEF Attempting
      <4> QED BY <4>1 DEF AttemptsOnce
    <3> QED BY <3>1, <3>2
  <2>6. \A q \in Invocation : pc'[q] # "collecting"
    <3>1. pc'[p] = "collected" /\ \A q \in Invocation \ {p} : pc'[q] = pc[q]
      BY <1>5 DEF RecordAttempt, Goto, TypeOK
    <3>2. \A q \in Invocation : pc[q] = "collecting" => q = p
      BY <2>1 DEF Exclusion, LockExclusion, Unlocked
    <3> QED BY <3>1, <3>2
  <2>7. CollectorKnows'
    BY <2>6 DEF CollectorKnows
  <2> QED BY <2>5, <2>7 DEF Attempting
<1> QED
  BY <1>1, <1>2, <1>3, <1>4, <1>5, ElsewhereAttempts DEF Collecting

\* The inductive invariant behind AttemptsOnce: what the collector read still holds.
THEOREM CollectorsKnow == Spec => []Attempting
<1>1. Init => Attempting
  BY DEF Init, Attempting, AttemptsOnce, CollectorKnows
<1>2. TypeOK /\ Exclusion /\ Attempting /\ [Next]_vars => Attempting'
  <2> SUFFICES ASSUME TypeOK, Exclusion, Attempting, [Next]_vars PROVE Attempting'
    OBVIOUS
  <2>1. ASSUME NEW p \in Invocation, Step(p) PROVE Attempting'
    BY <2>1, QuietElsewhere, BuildingElsewhere, CollectingAttempts, ElsewhereAttempts DEF Step
  <2>2. ASSUME NEW p \in Invocation, Crash(p) PROVE Attempting'
    BY <2>2, ExitElsewhere, ElsewhereAttempts DEF Crash, database
  <2>3. ASSUME Tick \/ UNCHANGED vars PROVE Attempting'
    <3>1. UNCHANGED <<attempts, args, pc, loc>>
      BY <2>3 DEF Tick, database, vars
    <3>2. AttemptsOnce'
      BY <3>1 DEF Attempting, AttemptsOnce
    <3>3. CollectorKnows'
      BY <3>1 DEF Attempting, CollectorKnows, PriorSuccess, Own
    <3> QED BY <3>2, <3>3 DEF Attempting
  <2> QED BY <2>1, <2>2, <2>3 DEF Next
<1> QED BY <1>1, <1>2, TypeCorrect, ExclusionInvariant, PTL DEF Spec

\* Over any number of retries the attempts of a source in a cycle are numbered without
\* gaps, and nothing follows the successful one: no source is collected twice.
THEOREM AttemptsAreOnce == Spec => []AttemptsOnce
<1>1. Attempting => AttemptsOnce
  BY DEF Attempting
<1> QED BY <1>1, CollectorsKnow, PTL

-----------------------------------------------------------------------------
(* What a step does to the copy of an invocation.                          *)

LEMMA RowOfCopy ==
    ASSUME TypeOK, NEW p \in Invocation
    PROVE  /\ mem[p] \in Row /\ loc[p] \in Local /\ Own(p) \in Cycle /\ row[Own(p)] \in Row
           /\ mem[p].stages \in [Stage -> StageStatus]
BY DEF TypeOK, Own, Row

LEMMA SaveEffect ==
    ASSUME TypeOK, NEW p \in Invocation, NEW m, NEW label, Save(p, m, label)
    PROVE  /\ mem'[p] = m /\ save'[p] = "check" /\ pc'[p] = label
           /\ \A q \in Invocation \ {p} : pc'[q] = pc[q] /\ save'[q] = save[q] /\ mem'[q] = mem[q]
BY DEF Save, Goto, TypeOK

\* Everything in a copy but its stages, status and health.
Same(m, n) ==
    /\ m.release = n.release /\ m.cutoff = n.cutoff /\ m.pit = n.pit
    /\ m.resolution = n.resolution /\ m.fresh = n.fresh

\* What a save of a stage, a seal and the end of a stage make of the copies.
StageSaved(p, stage, status, label) ==
    /\ mem'[p].stages = [mem[p].stages EXCEPT ![stage] = status]
    /\ mem'[p].status = mem[p].status /\ Same(mem'[p], mem[p])
    /\ save'[p] = "check" /\ pc'[p] = label
    /\ \A q \in Invocation \ {p} : pc'[q] = pc[q] /\ save'[q] = save[q] /\ mem'[q] = mem[q]

SealMade(p, m, stage, status) ==
    /\ mem'[p].stages = [m.stages EXCEPT ![stage] = "FAILED"]
    /\ mem'[p].status = status /\ Same(mem'[p], m)
    /\ save'[p] = "check" /\ pc'[p] = "sealed"
    /\ \A q \in Invocation \ {p} : pc'[q] = pc[q] /\ save'[q] = save[q] /\ mem'[q] = mem[q]

StageEnded(p, stage, locals, label) ==
    /\ mem'[p].stages = [mem[p].stages EXCEPT ![stage] = "SUCCEEDED"]
    /\ mem'[p].status = mem[p].status /\ pc'[p] = label /\ loc'[p] = locals
    /\ UNCHANGED <<attempts, args, clock>>

LEMMA SaveStageEffect ==
    ASSUME TypeOK, NEW p \in Invocation, NEW stage \in Stage, NEW status, NEW label,
           SaveStage(p, stage, status, label)
    PROVE  StageSaved(p, stage, status, label)
<1> DEFINE n == [mem[p] EXCEPT !.stages[stage] = status, !.heartbeat = clock]
<1>1. /\ n.stages = [mem[p].stages EXCEPT ![stage] = status]
      /\ n.status = mem[p].status /\ Same(n, mem[p])
  BY RowOfCopy DEF Row, Same
<1>2. Save(p, n, label)
  BY DEF SaveStage
<1> HIDE DEF n
<1>3. /\ mem'[p] = n /\ save'[p] = "check" /\ pc'[p] = label
      /\ \A q \in Invocation \ {p} : pc'[q] = pc[q] /\ save'[q] = save[q] /\ mem'[q] = mem[q]
  BY <1>2, SaveEffect
<1> QED BY <1>1, <1>3 DEF StageSaved

LEMMA SealEffect ==
    ASSUME TypeOK, NEW p \in Invocation, NEW m \in Row, NEW stage \in Stage, NEW status,
           Seal(p, m, stage, status)
    PROVE  SealMade(p, m, stage, status)
<1> DEFINE n == [m EXCEPT !.stages[stage] = "FAILED", !.status = status,
                          !.heartbeat = clock, !.health = "RED"]
<1>1. n.stages = [m.stages EXCEPT ![stage] = "FAILED"] /\ n.status = status /\ Same(n, m)
  BY DEF Row, Same
<1>2. Save(p, n, "sealed")
  BY DEF Seal
<1> HIDE DEF n
<1>3. /\ mem'[p] = n /\ save'[p] = "check" /\ pc'[p] = "sealed"
      /\ \A q \in Invocation \ {p} : pc'[q] = pc[q] /\ save'[q] = save[q] /\ mem'[q] = mem[q]
  BY <1>2, SaveEffect
<1> QED BY <1>1, <1>3 DEF SealMade

LEMMA ExitEffect ==
    ASSUME TypeOK, NEW p \in Invocation, Exit(p)
    PROVE  /\ mem'[p] = NoRow /\ save'[p] = "none" /\ pc'[p] = "done" /\ loc'[p] = NoLocal
           /\ \A q \in Invocation \ {p} : /\ pc'[q] = pc[q] /\ save'[q] = save[q]
                                        /\ mem'[q] = mem[q] /\ loc'[q] = loc[q]
BY DEF Exit, Goto, TypeOK

\* A copy with another stage, and the copy of p with another stage.
LEMMA OtherStage ==
    ASSUME NEW m \in Row, NEW stage \in Stage, NEW status \in StageStatus
    PROVE  /\ [m EXCEPT !.stages[stage] = status] \in Row
           /\ [m EXCEPT !.stages[stage] = status].stages = [m.stages EXCEPT ![stage] = status]
           /\ Same([m EXCEPT !.stages[stage] = status], m)
<1>1. [m EXCEPT !.stages[stage] = status] \in Row
  BY SetStageTyped
<1> QED BY <1>1 DEF Row, Same

LEMMA StagesTyped ==
    ASSUME TypeOK, NEW p \in Invocation, NEW stage \in Stage, NEW status \in StageStatus
    PROVE  /\ [mem[p] EXCEPT !.stages[stage] = status] \in Row
           /\ [mem[p] EXCEPT !.stages[stage] = status].stages = [mem[p].stages EXCEPT ![stage] = status]
           /\ Same([mem[p] EXCEPT !.stages[stage] = status], mem[p])
<1>1. mem[p] \in Row
  BY RowOfCopy
<1> QED BY <1>1, OtherStage

-----------------------------------------------------------------------------
(* The copies and the stored rows.  A copy past its admission is one of a  *)
(* row that exists, with its release; a result is in a copy only between   *)
(* the seal and the return; and from its first save on, the holder of the  *)
(* lock works on a row without a result.                                   *)

Early == {"load", "admit", "create", "done"}

Pinned(p) ==
    /\ pc[p] \in Early \cup {"release"} => save[p] = "none"
    /\ pc[p] = "admit" /\ mem[p].status # "ABSENT" =>
           row[Own(p)].status # "ABSENT" /\ row[Own(p)].release = mem[p].release
    /\ pc[p] \notin Early =>
           /\ row[Own(p)].status # "ABSENT" /\ row[Own(p)].release = args[p].release
           /\ mem[p].status # "ABSENT" /\ mem[p].release = args[p].release
    /\ pc[p] \notin {"admit", "succeeded", "release"} => mem[p].status \notin Completed
    /\ mem[p].status \notin Completed => mem[p].cutoff = Never

Ahead(p) ==
    /\ pc[p] \in Begun
    /\ ~(pc[p] = "cohort" /\ save[p] = "check")
    /\ ~(pc[p] = "succeeded" /\ save[p] = "none")

OpenRow(p) == Ahead(p) => row[Own(p)].status \notin Completed

Stored ==
    /\ \A p \in Invocation : Pinned(p) /\ OpenRow(p)
    /\ \A c \in Cycle : row[c].status \notin Completed => row[c].cutoff = Never

\* The step of an invocation between its admission and its return, outside of save().
Gone(p) == pc'[p] = "done" /\ save'[p] = "none" /\ mem'[p] = NoRow

Moved(p) ==
    /\ mem'[p] = mem[p] /\ save'[p] = "none" /\ pc'[p] \notin Early \cup {"succeeded"}
    /\ pc[p] \in {"succeeded", "release"} => pc'[p] = "release"
    /\ pc'[p] \in Begun => pc[p] \in Begun

Changed(p) ==
    /\ save'[p] = "check" /\ pc'[p] \notin Early \cup {"release"}
    /\ pc[p] \notin {"succeeded", "release"}
    /\ mem'[p].release = mem[p].release
    /\ pc'[p] \in Begun \ {"cohort"} => pc[p] \in Begun
    /\ \/ pc'[p] = "succeeded" /\ mem'[p].status \in Completed
       \/ /\ pc'[p] # "succeeded"
          /\ mem'[p].status \notin Completed \cup {"ABSENT"} \/ mem'[p].status = mem[p].status
          /\ mem'[p].cutoff = mem[p].cutoff

Carries(p) ==
    /\ pc[p] \notin Early /\ save[p] = "none" /\ UNCHANGED <<row, args>>
    /\ \A q \in Invocation \ {p} : pc'[q] = pc[q] /\ save'[q] = save[q] /\ mem'[q] = mem[q]
    /\ Gone(p) \/ Moved(p) \/ Changed(p)

LEMMA CarriesStored ==
    ASSUME TypeOK, Stored, NEW p \in Invocation, Carries(p)
    PROVE  Stored'
<1>1. UNCHANGED <<row, args>> /\ \A q \in Invocation : Own(q)' = Own(q)
  BY DEF Carries, Own
<1>2. ASSUME NEW q \in Invocation \ {p} PROVE Pinned(q)' /\ OpenRow(q)'
  <2>1. Pinned(q) /\ OpenRow(q) /\ UNCHANGED <<pc[q], save[q], mem[q], row, args>>
    BY DEF Stored, Carries
  <2> QED BY <1>1, <2>1 DEF Pinned, OpenRow, Ahead
<1>3. Pinned(p) /\ OpenRow(p) /\ pc[p] \notin Early /\ save[p] = "none"
  BY DEF Stored, Carries
<1>4. ASSUME Gone(p) PROVE Pinned(p)' /\ OpenRow(p)'
  <2>1. pc'[p] = "done" /\ save'[p] = "none" /\ mem'[p].status = "ABSENT" /\ mem'[p].cutoff = Never
    BY <1>4 DEF Gone, NoRow
  <2> QED BY <2>1 DEF Pinned, OpenRow, Ahead, Early, Begun, Working, Completed, Carries, Stored,
             Own
<1>5. ASSUME Moved(p) PROVE Pinned(p)' /\ OpenRow(p)'
  <2>1. Pinned(p)'
    BY <1>1, <1>3, <1>5 DEF Moved, Pinned, Early
  <2>2. Ahead(p)' => Ahead(p)
    BY <1>3, <1>5 DEF Moved, Ahead, Begun, Working
  <2> QED BY <1>1, <1>3, <2>1, <2>2 DEF OpenRow
<1>6. ASSUME Changed(p) PROVE Pinned(p)' /\ OpenRow(p)'
  <2>1. Pinned(p)'
    BY <1>1, <1>3, <1>6 DEF Changed, Pinned, Early, Completed
  <2>2. Ahead(p)' => Ahead(p)
    BY <1>3, <1>6 DEF Changed, Ahead, Begun, Working
  <2> QED BY <1>1, <1>3, <2>1, <2>2 DEF OpenRow
<1>7. Pinned(p)' /\ OpenRow(p)'
  BY <1>4, <1>5, <1>6 DEF Carries
<1> QED BY <1>1, <1>2, <1>7 DEF Stored

\* Steps that save a copy or seal it.
LEMMA SavesCarry ==
    ASSUME TypeOK, NEW p \in Invocation, pc[p] \in Working, save[p] = "none",
           UNCHANGED <<row, args>>,
           \/ \E stage \in Stage, status \in StageStatus, label \in Working \ {"cohort"} :
                  SaveStage(p, stage, status, label)
           \/ \E m \in Row, stage \in Stage, status \in Failed :
                  Same(m, mem[p]) /\ Seal(p, m, stage, status)
    PROVE  Carries(p)
<1>1. CASE \E stage \in Stage, status \in StageStatus, label \in Working \ {"cohort"} :
               SaveStage(p, stage, status, label)
  <2>1. PICK stage \in Stage, status \in StageStatus, label \in Working \ {"cohort"} :
            SaveStage(p, stage, status, label)
    BY <1>1
  <2>2. StageSaved(p, stage, status, label)
    BY <2>1, SaveStageEffect
  <2>3. Changed(p)
    BY <2>2 DEF StageSaved, Changed, Same, Working, Begun, Early
  <2>4. pc[p] \notin Early
    BY DEF Working, Early
  <2> QED BY <2>2, <2>3, <2>4 DEF StageSaved, Carries
<1>2. CASE \E m \in Row, stage \in Stage, status \in Failed :
               Same(m, mem[p]) /\ Seal(p, m, stage, status)
  <2>1. PICK m \in Row, stage \in Stage, status \in Failed :
            Same(m, mem[p]) /\ Seal(p, m, stage, status)
    BY <1>2
  <2>2. SealMade(p, m, stage, status)
    BY <2>1, SealEffect
  <2>3. Changed(p)
    BY <2>1, <2>2 DEF SealMade, Changed, Same, Working, Begun, Early, Failed, Completed
  <2>4. pc[p] \notin Early
    BY DEF Working, Early
  <2> QED BY <2>2, <2>3, <2>4 DEF SealMade, Carries
<1> QED BY <1>1, <1>2

LEMMA ExitCarries ==
    ASSUME TypeOK, NEW p \in Invocation, pc[p] \notin Early, save[p] = "none", Exit(p),
           UNCHANGED <<row, args>>
    PROVE  Carries(p)
BY ExitEffect DEF Carries, Gone

LEMMA GotoCarries ==
    ASSUME TypeOK, NEW p \in Invocation, pc[p] \notin Early, save[p] = "none",
           NEW label, label \notin Early \cup {"succeeded"}, Goto(p, label),
           pc[p] \in {"succeeded", "release"} => label = "release",
           label \in Begun => pc[p] \in Begun,
           UNCHANGED <<row, args, save, mem>>
    PROVE  Carries(p)
BY DEF Carries, Moved, Goto, TypeOK

LEMMA LockingCarries ==
    ASSUME TypeOK, NEW p \in Invocation, Locking(p)
    PROVE  Carries(p)
<1>1. ASSUME NEW label \in {"aborted", "conflict"}, pc[p] \in {"lock", "peers"},
             save[p] = "none", Save(p, Aborted(mem[p]), label), UNCHANGED <<row, args>>
      PROVE  Carries(p)
  <2>1. /\ Aborted(mem[p]).status = "ABORTED_CONCURRENCY"
        /\ Aborted(mem[p]).release = mem[p].release /\ Aborted(mem[p]).cutoff = mem[p].cutoff
    BY RowOfCopy DEF Aborted, Row
  <2> QED BY <1>1, <2>1, SaveEffect DEF Carries, Changed, Early, Begun, Working, Completed
<1>2. CASE LockRefused(p) \/ PeerRunning(p)
  BY <1>1, <1>2 DEF LockRefused, PeerRunning, At
<1>3. CASE TryLock(p) \/ AnnounceConflict(p)
  BY <1>3, GotoCarries DEF TryLock, AnnounceConflict, At, Early, Begun, Working
<1>4. CASE BeginRun(p)
  <2> DEFINE n == [mem[p] EXCEPT !.status = "RUNNING", !.heartbeat = clock]
  <2>1. n.status = "RUNNING" /\ n.release = mem[p].release /\ n.cutoff = mem[p].cutoff
    BY RowOfCopy DEF Row
  <2>2. /\ Save(p, n, "cohort") /\ pc[p] = "peers" /\ save[p] = "none"
        /\ UNCHANGED <<row, args>>
    BY <1>4 DEF BeginRun, At
  <2> HIDE DEF n
  <2> QED BY <2>1, <2>2, SaveEffect DEF Carries, Changed, Early, Begun, Working, Completed
<1>5. CASE AnnounceAbort(p)
  BY <1>5, ExitCarries DEF AnnounceAbort, At, Early
<1> QED BY <1>2, <1>3, <1>4, <1>5 DEF Locking

LEMMA CollectingCarries ==
    ASSUME TypeOK, NEW p \in Invocation, Collecting(p)
    PROVE  Carries(p)
<1>1. mem[p] \in Row /\ Same(mem[p], mem[p]) /\ "collection" \in Stage /\ "cohort" \in Stage
  BY RowOfCopy DEF Same, Stage
<1>2. status_by_stage["collection"] \in Failed
  BY <1>1, StatusByStageTyped
<1>3. CASE CohortResolved(p) \/ BeginCollection(p) \/ FinishCollection(p) \/ (AfterSource(p) /\ Late(p))
  <2>1. pc[p] \in Working /\ save[p] = "none" /\ UNCHANGED <<row, args>>
    BY <1>3 DEF CohortResolved, BeginCollection, FinishCollection, AfterSource, At, Working
  <2>2. \/ \E stage \in Stage, status \in StageStatus, label \in Working \ {"cohort"} :
               SaveStage(p, stage, status, label)
        \/ Seal(p, mem[p], "collection", status_by_stage["collection"])
    BY <1>1, <1>3 DEF CohortResolved, BeginCollection, FinishCollection, AfterSource,
       SealTimeout, Working, StageStatus
  <2> QED BY <1>1, <1>2, <2>1, <2>2, SavesCarry
<1>4. CASE \/ \E s \in Source : StartSource(p, s)
           \/ \E ok \in BOOLEAN : RecordAttempt(p, ok)
           \/ AfterSource(p) /\ ~Late(p)
  BY <1>4, GotoCarries DEF StartSource, RecordAttempt, AfterSource, At, Early, Begun, Working
<1>5. CASE \E s \in Source : SkipCollected(p, s)
  BY <1>5 DEF SkipCollected, At, Carries, Moved, Early, Begun, Working
<1> QED BY <1>3, <1>4, <1>5 DEF Collecting

LEMMA BuildingCarries ==
    ASSUME TypeOK, NEW p \in Invocation, Building(p)
    PROVE  Carries(p)
<1>1. /\ mem[p] \in Row /\ Same(mem[p], mem[p]) /\ loc[p].stage \in Stage
      /\ {"green_continuity", "dedup", "dedup_continuity", "premium", "geospatial", "dashboard",
          "readiness"} \subseteq Stage
  BY RowOfCopy DEF Same, Stage, Local
<1>2. /\ status_by_stage[loc[p].stage] \in Failed
      /\ {"FAILED_CONTINUITY", "FAILED_DEDUP", "FAILED_GEOSPATIAL"} \subseteq Failed
  BY <1>1, StatusByStageTyped DEF Failed
<1>3. CASE EnterStage(p)
  <2>1. pc[p] \in Working /\ save[p] = "none" /\ "work" \in Working \ {"cohort"}
    BY <1>3 DEF EnterStage, At, Working
  <2> QED BY <1>1, <1>3, <2>1, SavesCarry DEF EnterStage, StageStatus
<1>4. CASE StageTimesOut(p) \/ GeospatialFails(p)
  <2>1. pc[p] \in Working /\ save[p] = "none" /\ UNCHANGED <<row, args>>
    BY <1>4 DEF StageTimesOut, GeospatialFails, At, Working
  <2> QED BY <1>1, <1>2, <1>4, <2>1, SavesCarry DEF StageTimesOut, GeospatialFails, SealTimeout
<1>5. CASE StageFails(p) \/ ContinuityConflict(p)
  <2>1. pc[p] \in Working /\ save[p] = "none" /\ UNCHANGED <<row, args>>
    BY <1>5 DEF StageFails, ContinuityConflict, At, Working
  <2>2. \A stage \in {"dedup", "dedup_continuity"}, status \in {"FAILED", "SKIPPED"} :
            LET m == [mem[p] EXCEPT !.stages[stage] = status] IN m \in Row /\ Same(m, mem[p])
    <3> TAKE stage \in {"dedup", "dedup_continuity"}, status \in {"FAILED", "SKIPPED"}
    <3>1. stage \in Stage /\ status \in StageStatus
      BY <1>1 DEF StageStatus
    <3> QED BY <3>1, StagesTyped
  <2>3. \E m \in Row, stage \in Stage, status \in Failed :
            Same(m, mem[p]) /\ Seal(p, m, stage, status)
    <3>1. CASE StageFails(p) /\ loc[p].stage # "dedup"
      BY <1>1, <1>2, <3>1 DEF StageFails
    <3>2. CASE StageFails(p) /\ loc[p].stage = "dedup"
      <4> DEFINE m == [mem[p] EXCEPT !.stages["dedup_continuity"] = "SKIPPED"]
      <4>1. m \in Row /\ Same(m, mem[p])
        BY <2>2
      <4>2. Seal(p, m, "dedup", "FAILED_DEDUP")
        BY <3>2 DEF StageFails
      <4> HIDE DEF m
      <4> QED BY <1>1, <1>2, <4>1, <4>2
    <3>3. CASE ContinuityConflict(p)
      <4> DEFINE m == [mem[p] EXCEPT !.stages["dedup"] = "FAILED"]
      <4>1. m \in Row /\ Same(m, mem[p])
        BY <2>2
      <4>2. Seal(p, m, "dedup_continuity", "FAILED_CONTINUITY")
        BY <3>3 DEF ContinuityConflict
      <4> HIDE DEF m
      <4> QED BY <1>1, <1>2, <4>1, <4>2
    <3> QED BY <1>5, <3>1, <3>2, <3>3
  <2> QED BY <2>1, <2>3, SavesCarry
<1>6. ASSUME NEW stage \in Stage, NEW l, NEW label \in Working \ {"cohort"},
             StageDone(p, stage, l, label), pc[p] \in Working, save[p] = "none"
      PROVE  Carries(p)
  BY <1>6, SavesCarry DEF StageDone, StageStatus
<1>7. CASE \/ GreenContinuity(p) \/ Dedup(p) \/ DedupContinuity(p) \/ Premium(p)
           \/ GeospatialAligned(p) \/ Dashboard(p) \/ Readiness(p)
  <2>1. pc[p] \in Working /\ save[p] = "none"
    BY <1>7 DEF GreenContinuity, Dedup, DedupContinuity, Premium, GeospatialAligned, Dashboard,
       Readiness, Works, At, Working
  <2>2. {"enter", "continuity", "final"} \subseteq Working \ {"cohort"}
    BY DEF Working
  <2> QED BY <1>1, <1>6, <1>7, <2>1, <2>2 DEF GreenContinuity, Dedup, DedupContinuity, Premium,
             GeospatialAligned, Dashboard, Readiness
<1>8. CASE \/ \E created \in BOOLEAN, resolution \in {Never} \cup 0..clock :
                  GeospatialFirst(p, created, resolution)
           \/ GeospatialRealign(p)
  BY <1>8, GotoCarries DEF GeospatialFirst, GeospatialRealign, Works, At, Early, Begun, Working
<1>9. ASSUME NEW created \in BOOLEAN, NEW resolution \in {Never} \cup 0..clock,
             GeospatialRepeat(p, created, resolution)
      PROVE  Carries(p)
  <2>0. "enter" \in Working \ {"cohort"} /\ "SUCCEEDED" \in StageStatus
    BY DEF Working, StageStatus
  <2>1. pc[p] \in Working /\ save[p] = "none" /\ UNCHANGED <<row, args>>
    BY <1>9 DEF GeospatialRepeat, At, Working
  <2> QED BY <1>1, <1>2, <1>9, <2>0, <2>1, SavesCarry DEF GeospatialRepeat
<1> QED BY <1>3, <1>4, <1>5, <1>7, <1>8, <1>9 DEF Building

\* The copy of a result that is about to be saved.
LEMMA FinishEffect ==
    ASSUME TypeOK, NEW p \in Invocation, NEW status \in Completed, Finish(p, status)
    PROVE  /\ mem'[p].status = status /\ mem'[p].release = mem[p].release
           /\ mem'[p].health = OperationalHealth(loc[p].failures)
           /\ mem'[p].cutoff = loc[p].cutoff /\ mem'[p].pit = loc[p].pit
           /\ mem'[p].resolution = loc[p].resolution /\ mem'[p].stages = mem[p].stages
           /\ save'[p] = "check" /\ pc'[p] = "succeeded"
           /\ \A q \in Invocation \ {p} : pc'[q] = pc[q] /\ save'[q] = save[q] /\ mem'[q] = mem[q]
<1> DEFINE n == [mem[p] EXCEPT !.status = status,
                               !.health = OperationalHealth(loc[p].failures),
                               !.heartbeat = clock, !.cutoff = loc[p].cutoff,
                               !.pit = loc[p].pit, !.resolution = loc[p].resolution,
                               !.fresh = loc[p].fresh]
<1>1. /\ n.status = status /\ n.release = mem[p].release
      /\ n.health = OperationalHealth(loc[p].failures) /\ n.cutoff = loc[p].cutoff
      /\ n.pit = loc[p].pit /\ n.resolution = loc[p].resolution /\ n.stages = mem[p].stages
  BY RowOfCopy DEF Row
<1>2. Save(p, n, "succeeded")
  BY DEF Finish
<1> HIDE DEF n
<1> QED BY <1>1, <1>2, SaveEffect

LEMMA SealingCarries ==
    ASSUME TypeOK, NEW p \in Invocation, Sealing(p)
    PROVE  Carries(p)
<1>1. ASSUME NEW status \in Completed, Finish(p, status) PROVE Carries(p)
  <2>1. pc[p] = "final" /\ save[p] = "none" /\ UNCHANGED <<row, args>>
    BY <1>1 DEF Finish, At
  <2> QED BY <1>1, <2>1, FinishEffect DEF Carries, Changed, Early, Begun, Working
<1>2. CASE AnnounceFailure(p) \/ AnnounceSuccess(p)
  BY <1>2, GotoCarries DEF AnnounceFailure, AnnounceSuccess, At, Early, Begun, Working
<1>3. CASE ReleaseLock(p)
  BY <1>3, ExitCarries DEF ReleaseLock, At, Early
<1> QED BY <1>1, <1>2, <1>3 DEF Sealing

LEMMA ExitStored ==
    ASSUME TypeOK, Stored, NEW p \in Invocation, Exit(p), UNCHANGED <<row, args>>
    PROVE  Stored'
<1>1. ASSUME NEW q \in Invocation \ {p} PROVE Pinned(q)' /\ OpenRow(q)'
  <2>1. /\ pc'[q] = pc[q] /\ save'[q] = save[q] /\ mem'[q] = mem[q]
        /\ Pinned(q) /\ OpenRow(q)
    BY ExitEffect DEF Stored
  <2> QED BY <2>1 DEF Pinned, OpenRow, Ahead, Own
<1>2. Pinned(p)' /\ OpenRow(p)'
  <2>1. pc'[p] = "done" /\ save'[p] = "none" /\ mem'[p].status = "ABSENT" /\ mem'[p].cutoff = Never
    BY ExitEffect DEF NoRow
  <2> QED BY <2>1 DEF Pinned, OpenRow, Ahead, Early, Begun, Working, Completed
<1> QED BY <1>1, <1>2 DEF Stored

LEMMA SavingStored ==
    ASSUME TypeOK, Exclusion, Stored, NEW p \in Invocation, Saving(p)
    PROVE  Stored'
<1>1. Pinned(p) /\ OpenRow(p) /\ Own(p) \in Cycle /\ \A q \in Invocation : Pinned(q) /\ OpenRow(q)
  BY RowOfCopy DEF Stored
<1>2. CASE SaveCheck(p)
  <2>1. /\ UNCHANGED <<row, args, pc, mem>> /\ save[p] = "check" /\ save'[p] = "write"
        /\ row[Own(p)].status \notin Completed
        /\ \A q \in Invocation \ {p} : save'[q] = save[q]
    BY <1>2 DEF SaveCheck, SavePermitted, TypeOK
  <2>2. ASSUME NEW q \in Invocation PROVE Pinned(q)' /\ OpenRow(q)'
    <3>1. Pinned(q)'
      BY <1>1, <2>1 DEF Pinned, Own, Early
    <3>2. OpenRow(q)'
      BY <1>1, <2>1 DEF OpenRow, Ahead, Own
    <3> QED BY <3>1, <3>2
  <2> QED BY <2>1, <2>2 DEF Stored
<1>3. CASE SaveRefused(p)
  <2>1. UNCHANGED <<row, args>>
    BY <1>3 DEF SaveRefused
  <2> QED BY <1>3, <2>1, ExitStored DEF SaveRefused
<1>4. CASE SaveWrite(p)
  <2>1. /\ UNCHANGED <<args, pc, mem>> /\ save[p] = "write" /\ save'[p] = "none"
        /\ row'[Own(p)] = mem[p] /\ \A c \in Cycle \ {Own(p)} : row'[c] = row[c]
        /\ \A q \in Invocation \ {p} : save'[q] = save[q]
    BY <1>4 DEF SaveWrite, TypeOK, Own
  <2>2. /\ pc[p] \notin Early \cup {"release"}
        /\ mem[p].status # "ABSENT" /\ mem[p].release = row[Own(p)].release
        /\ pc[p] # "succeeded" => mem[p].status \notin Completed
        /\ mem[p].status \notin Completed => mem[p].cutoff = Never
    BY <1>1, <2>1 DEF Pinned, Early
  <2>3. ASSUME NEW q \in Invocation PROVE Pinned(q)'
    <3>1. Pinned(q) /\ Own(q) \in Cycle /\ Own(q)' = Own(q) /\ mem'[q] = mem[q] /\ pc'[q] = pc[q]
      BY <1>1, <2>1, RowOfCopy DEF Own
    <3>2. save'[q] = "none" \/ save'[q] = save[q]
      BY <2>1
    <3>3. row[Own(q)].status # "ABSENT" =>
              row'[Own(q)].status # "ABSENT" /\ row'[Own(q)].release = row[Own(q)].release
      BY <2>1, <2>2, <3>1
    <3> QED BY <2>1, <3>1, <3>2, <3>3 DEF Pinned
  <2>4. ASSUME NEW q \in Invocation PROVE OpenRow(q)'
    <3>1. CASE pc[p] # "succeeded"
      <4>1. row'[Own(p)].status \notin Completed
        BY <2>1, <2>2, <3>1
      <4>2. CASE q = p
        BY <2>1, <4>1, <4>2 DEF OpenRow, Own
      <4>3. CASE q # p
        <5>1. /\ OpenRow(q) /\ Own(q) \in Cycle /\ Own(q)' = Own(q)
              /\ pc'[q] = pc[q] /\ save'[q] = save[q]
          BY <1>1, <2>1, <4>3, RowOfCopy DEF Own
        <5>2. row'[Own(q)].status \notin Completed \/ row'[Own(q)] = row[Own(q)]
          BY <2>1, <4>1, <5>1
        <5> QED BY <5>1, <5>2 DEF OpenRow, Ahead
      <4> QED BY <4>2, <4>3
    <3>2. CASE pc[p] = "succeeded"
      <4>1. pc[q] \in Begun => q = p
        BY <3>2 DEF Exclusion, LockExclusion, Begun, Working, Unlocked
      <4> QED BY <2>1, <3>2, <4>1 DEF OpenRow, Ahead
    <3> QED BY <3>1, <3>2
  <2>5. ASSUME NEW c \in Cycle, row'[c].status \notin Completed PROVE row'[c].cutoff = Never
    BY <2>1, <2>2, <2>5 DEF Stored
  <2> QED BY <2>3, <2>4, <2>5 DEF Stored
<1> QED BY <1>2, <1>3, <1>4 DEF Saving

LEMMA AdmissionStored ==
    ASSUME TypeOK, Stored, NEW p \in Invocation, Admission(p)
    PROVE  Stored'
<1>1. Pinned(p) /\ OpenRow(p) /\ Own(p) \in Cycle /\ \A q \in Invocation : Pinned(q) /\ OpenRow(q)
  BY RowOfCopy DEF Stored
<1>2. ASSUME UNCHANGED <<row, args>>, save'[p] = "none", pc'[p] \notin Begun,
             \A q \in Invocation \ {p} : pc'[q] = pc[q] /\ save'[q] = save[q] /\ mem'[q] = mem[q],
             Pinned(p)'
      PROVE  Stored'
  <2>1. ASSUME NEW q \in Invocation \ {p} PROVE Pinned(q)' /\ OpenRow(q)'
    BY <1>1, <1>2 DEF Pinned, OpenRow, Ahead, Own
  <2>2. OpenRow(p)'
    BY <1>2 DEF OpenRow, Ahead
  <2> QED BY <1>2, <2>1, <2>2 DEF Stored
<1>3. CASE LoadRow(p)
  <2>1. /\ UNCHANGED <<row, args, save>> /\ save[p] = "none" /\ pc'[p] = "admit"
        /\ mem'[p] = row[Own(p)]
        /\ \A q \in Invocation \ {p} : pc'[q] = pc[q] /\ mem'[q] = mem[q]
    BY <1>3 DEF LoadRow, At, Goto, TypeOK
  <2>2. Pinned(p)'
    BY <1>1, <2>1 DEF Pinned, Stored, Own, Early
  <2> QED BY <1>2, <2>1, <2>2 DEF Begun, Working
<1>4. CASE AdmitRetry(p) \/ AdmitNew(p)
  <2>1. /\ UNCHANGED <<row, args, save, mem>> /\ save[p] = "none" /\ pc[p] = "admit"
        /\ \/ pc'[p] = "create" /\ mem[p].status = "ABSENT"
           \/ /\ pc'[p] = "lock" /\ mem[p].release = args[p].release
              /\ mem[p].status \notin Completed \cup {"ABSENT"}
        /\ \A q \in Invocation \ {p} : pc'[q] = pc[q]
    BY <1>4 DEF AdmitRetry, AdmitNew, At, Goto, TypeOK
  <2>2. Pinned(p)'
    BY <1>1, <2>1 DEF Pinned, Own, Early, Completed
  <2> QED BY <1>2, <2>1, <2>2 DEF Begun, Working
<1>5. CASE ReplayCompleted(p) \/ RefuseRetry(p) \/ CreateCollides(p)
  <2>1. Exit(p) /\ UNCHANGED <<row, args>>
    BY <1>5 DEF ReplayCompleted, RefuseRetry, CreateCollides
  <2> QED BY <2>1, ExitStored
<1>6. CASE CreateCycle(p)
  <2> DEFINE planned == [NoRow EXCEPT !.status = "PLANNED", !.release = args[p].release]
  <2>1. planned.status = "PLANNED" /\ planned.release = args[p].release /\ planned.cutoff = Never
    BY DEF NoRow
  <2>2. /\ row[Own(p)].status = "ABSENT" /\ row' = [row EXCEPT ![Own(p)] = planned]
        /\ mem' = [mem EXCEPT ![p] = planned] /\ pc' = [pc EXCEPT ![p] = "lock"]
        /\ UNCHANGED <<args, save>> /\ save[p] = "none"
    BY <1>6 DEF CreateCycle, At, Goto
  <2> HIDE DEF planned
  <2>3. /\ row'[Own(p)] = planned /\ mem'[p] = planned /\ pc'[p] = "lock"
        /\ \A c \in Cycle \ {Own(p)} : row'[c] = row[c]
        /\ \A q \in Invocation \ {p} : pc'[q] = pc[q] /\ mem'[q] = mem[q]
    BY <1>1, <2>2 DEF TypeOK
  <2>4. ASSUME NEW q \in Invocation \ {p} PROVE Pinned(q)' /\ OpenRow(q)'
    <3>1. Pinned(q)'
      BY <1>1, <2>1, <2>2, <2>3 DEF Pinned, Own
    <3>2. OpenRow(q)'
      BY <1>1, <2>1, <2>2, <2>3 DEF OpenRow, Ahead, Own, Completed
    <3> QED BY <3>1, <3>2
  <2>5. Pinned(p)' /\ OpenRow(p)'
    BY <2>1, <2>2, <2>3 DEF Pinned, OpenRow, Ahead, Own, Early, Begun, Working, Completed
  <2>6. ASSUME NEW c \in Cycle, row'[c].status \notin Completed PROVE row'[c].cutoff = Never
    BY <2>1, <2>3, <2>6 DEF Stored
  <2> QED BY <2>4, <2>5, <2>6 DEF Stored
<1> QED BY <1>3, <1>4, <1>5, <1>6 DEF Admission

LEMMA StoredStep ==
    ASSUME TypeOK, Exclusion, Stored, [Next]_vars
    PROVE  Stored'
<1>1. ASSUME NEW p \in Invocation, Step(p) PROVE Stored'
  BY <1>1, AdmissionStored, LockingCarries, SavingStored, CollectingCarries, BuildingCarries,
     SealingCarries, CarriesStored DEF Step
<1>2. ASSUME NEW p \in Invocation, Crash(p) PROVE Stored'
  BY <1>2, ExitStored DEF Crash
<1>3. CASE Tick \/ UNCHANGED vars
  <2>1. UNCHANGED <<row, args, pc, save, mem>>
    BY <1>3 DEF Tick, vars
  <2> QED BY <2>1 DEF Stored, Pinned, OpenRow, Ahead, Own
<1> QED BY <1>1, <1>2, <1>3 DEF Next

\* The inductive invariant of the copies, behind the theorems below.
THEOREM CopiesAreTrue == Spec => []Stored
<1>1. Init => Stored
  <2> SUFFICES ASSUME Init PROVE Stored
    OBVIOUS
  <2>1. NoRow.status = "ABSENT" /\ NoRow.cutoff = Never /\ "ABSENT" \notin Completed
    BY DEF NoRow, Completed
  <2>2. ASSUME NEW p \in Invocation PROVE Pinned(p) /\ OpenRow(p)
    BY <2>1 DEF Init, Pinned, OpenRow, Ahead, Early, Begun, Working
  <2> QED BY <2>1, <2>2 DEF Init, Stored
<1>2. TypeOK /\ Exclusion /\ Stored /\ [Next]_vars => Stored'
  BY StoredStep
<1> QED BY <1>1, <1>2, TypeCorrect, ExclusionInvariant, PTL DEF Spec

\* Contract section 2, for any number of invocations and releases: whoever works on a cycle
\* or waits to, does so with the configuration of its row.
THEOREM ConfigurationStays == Spec => []ConfigurationPinned
<1>1. Stored => ConfigurationPinned
  BY DEF Stored, Pinned, ConfigurationPinned, Early
<1> QED BY <1>1, CopiesAreTrue, PTL

\* However many invocations are refused meanwhile, they replace the result of a cycle by
\* their refusal only, and nobody runs it again.
THEOREM ResultsAreKept == Spec => ResultKept
<1> DEFINE Kept == \A c \in Cycle : row[c].status \in Completed /\ row'[c] # row[c] =>
                       row'[c].status = "ABORTED_CONCURRENCY"
<1>1. TypeOK /\ Exclusion /\ Stored /\ [Next]_vars => [Kept]_vars
  <2> SUFFICES ASSUME TypeOK, Exclusion, Stored, [Next]_vars,
                      NEW c \in Cycle, row[c].status \in Completed, row'[c] # row[c]
               PROVE  row'[c].status = "ABORTED_CONCURRENCY"
    OBVIOUS
  <2>1. ASSUME NEW p \in Invocation, Step(p) PROVE row'[c].status = "ABORTED_CONCURRENCY"
    <3>1. CASE Locking(p) \/ Collecting(p) \/ Building(p) \/ Sealing(p)
      BY <3>1, LockingCarries, CollectingCarries, BuildingCarries, SealingCarries DEF Carries
    <3>2. CASE Admission(p)
      <4>1. CreateCycle(p)
        BY <3>2 DEF Admission, LoadRow, ReplayCompleted, RefuseRetry, AdmitRetry, AdmitNew,
           CreateCollides
      <4>2. row[Own(p)].status = "ABSENT" /\ \A d \in Cycle \ {Own(p)} : row'[d] = row[d]
        BY <4>1 DEF CreateCycle, TypeOK
      <4> QED BY <4>2 DEF Completed
    <3>3. CASE Saving(p)
      <4>1. SaveWrite(p)
        BY <3>3 DEF Saving, SaveCheck, SaveRefused
      <4>2. /\ c = Own(p) /\ row'[c] = mem[p] /\ save[p] = "write"
        BY <4>1 DEF SaveWrite, TypeOK
      <4>3. pc[p] \notin Begun
        BY <4>2 DEF Stored, OpenRow, Ahead
      <4> QED BY <4>2, <4>3 DEF Exclusion, RefusalsOnly
    <3> QED BY <2>1, <3>1, <3>2, <3>3 DEF Step
  <2>2. CASE Tick \/ UNCHANGED vars \/ \E p \in Invocation : Crash(p)
    BY <2>2 DEF Tick, vars, Crash
  <2> QED BY <2>1, <2>2 DEF Next
<1> QED BY <1>1, TypeCorrect, ExclusionInvariant, CopiesAreTrue, PTL DEF Spec, ResultKept

-----------------------------------------------------------------------------
(* The way of an invocation through its stages: which of them have         *)
(* succeeded in its copy, how old what it has built is, and which sources  *)
(* it has passed.                                                          *)

Position == [cohort |-> 1, collection |-> 2, green_continuity |-> 3, dedup |-> 4,
             dedup_continuity |-> 5, premium |-> 6, geospatial |-> 7, dashboard |-> 8,
             readiness |-> 9]

DoneBefore(m, stage) ==
    \A t \in Stage : Position[t] < Position[stage] => m.stages[t] = "SUCCEEDED"

Named(m) ==
    m.status \in Failed =>
        \E stage \in Stage :
            /\ m.stages[stage] = "FAILED" /\ DoneBefore(m, stage)
            /\ \/ status_by_stage[stage] = m.status
               \/ /\ stage = "dedup" /\ m.status = "FAILED_CONTINUITY"
                  /\ m.stages["dedup_continuity"] = "FAILED"

Staging == {"enter", "work", "georealign", "georepeat"}

Track(p) ==
    /\ Named(mem[p])
    /\ pc[p] \in Working => mem[p].status = "RUNNING"
    /\ pc[p] \in {"collection", "sources", "collecting", "collected"} =>
           DoneBefore(mem[p], "collection")
    /\ pc[p] \in Staging =>
           /\ DoneBefore(mem[p], loc[p].stage)
           /\ loc[p].stage \notin {"cohort", "collection", "dedup_continuity"}
    /\ pc[p] = "continuity" => DoneBefore(mem[p], "dedup_continuity") /\ loc[p].stage = "dedup"
    /\ pc[p] \in {"georealign", "georepeat"} => loc[p].stage = "geospatial"

\* The artifacts that exist when a stage begins, and the stages after the cutoff.
BuiltBefore == [stage \in Stage |->
                    {a \in Artifact : Position[a] < Position[stage]}]

CutBy(p) ==
    \/ pc[p] \in Staging /\ Position[loc[p].stage] > Position["dedup"]
    \/ pc[p] \in {"continuity", "final"}

ResolvedBy(p) ==
    \/ pc[p] \in {"enter", "work"} /\ loc[p].stage \in {"dashboard", "readiness"}
    \/ pc[p] = "final"

AttemptsUpTo(c, at) == \A s \in Source : \A i \in DOMAIN attempts[c][s] : attempts[c][s][i].at <= at

Chain(p) ==
    /\ pc[p] \in Staging => \A a \in BuiltBefore[loc[p].stage] : loc[p].pit[a] = loc[p].cutoff
    /\ pc[p] = "continuity" => loc[p].pit["dedup"] = loc[p].cutoff
    /\ pc[p] = "final" => \A a \in Artifact : loc[p].pit[a] = loc[p].cutoff
    /\ CutBy(p) => loc[p].cutoff \in Nat /\ AttemptsUpTo(Own(p), loc[p].cutoff)
    /\ ResolvedBy(p) => loc[p].resolution <= loc[p].cutoff
    /\ pc[p] = "succeeded" =>
           /\ \A a \in Artifact : mem[p].pit[a] = mem[p].cutoff
           /\ AttemptsUpTo(Own(p), mem[p].cutoff) /\ mem[p].resolution <= mem[p].cutoff

AllCollected(c) == \A s \in Source : PriorSuccess(c, s)

Swept(p) ==
    /\ pc[p] \in {"load", "admit", "create", "lock", "peers", "cohort", "collection"} =>
           loc[p].seen = {} /\ loc[p].failures = {}
    /\ pc[p] \in Working =>
           /\ loc[p].failures \subseteq
                  loc[p].seen \cup (IF pc[p] = "collected" THEN {loc[p].source} ELSE {})
           /\ \A s \in loc[p].failures : ~PriorSuccess(Own(p), s)
           /\ \A s \in loc[p].seen : PriorSuccess(Own(p), s) \/ s \in loc[p].failures
    /\ pc[p] \in {"collecting", "collected"} => loc[p].source \notin loc[p].seen
    /\ pc[p] = "collected" =>
           PriorSuccess(Own(p), loc[p].source) \/ loc[p].source \in loc[p].failures
    /\ pc[p] \in Staging \cup {"continuity", "final"} => loc[p].seen = Source
    /\ pc[p] = "succeeded" => (mem[p].health = "GREEN" <=> AllCollected(Own(p)))

\* What the others see of a step: nothing in their memory, no time, and attempts of the
\* collector only.
Apart(p) ==
    /\ \A q \in Invocation \ {p} : /\ pc'[q] = pc[q] /\ save'[q] = save[q]
                                  /\ mem'[q] = mem[q] /\ loc'[q] = loc[q]
    /\ args' = args /\ clock' = clock
    /\ pc[p] # "collecting" => attempts' = attempts

LEMMA ApartFromLoc ==
    ASSUME TypeOK, NEW p \in Invocation, NEW l, loc' = [loc EXCEPT ![p] = l]
    PROVE  loc'[p] = l /\ \A q \in Invocation \ {p} : loc'[q] = loc[q]
BY DEF TypeOK

LEMMA CollectingApart ==
    ASSUME TypeOK, NEW p \in Invocation, Collecting(p)
    PROVE  Apart(p)
<1>1. \A q \in Invocation \ {p} : pc'[q] = pc[q] /\ save'[q] = save[q] /\ mem'[q] = mem[q]
  BY CollectingCarries DEF Carries
<1>2. \A q \in Invocation \ {p} : loc'[q] = loc[q]
  BY DEF Collecting, CohortResolved, BeginCollection, SkipCollected, StartSource, RecordAttempt,
         AfterSource, FinishCollection, TypeOK
<1>3. args' = args /\ clock' = clock /\ (pc[p] # "collecting" => attempts' = attempts)
  BY DEF Collecting, CohortResolved, BeginCollection, SkipCollected, StartSource, RecordAttempt,
         AfterSource, FinishCollection, At, database
<1> QED BY <1>1, <1>2, <1>3 DEF Apart

LEMMA BuildingApart ==
    ASSUME TypeOK, NEW p \in Invocation, Building(p)
    PROVE  Apart(p) /\ attempts' = attempts
<1>1. \A q \in Invocation \ {p} : pc'[q] = pc[q] /\ save'[q] = save[q] /\ mem'[q] = mem[q]
  BY BuildingCarries DEF Carries
<1>2. \A q \in Invocation \ {p} : loc'[q] = loc[q]
  BY BuildingElsewhere DEF Elsewhere
<1>3. args' = args /\ clock' = clock /\ attempts' = attempts
  BY DEF Building, EnterStage, StageTimesOut, StageFails, ContinuityConflict, GreenContinuity,
         Dedup, DedupContinuity, Premium, GeospatialFirst, GeospatialRealign, GeospatialAligned,
         GeospatialRepeat, GeospatialFails, Dashboard, Readiness, StageDone, database
<1> QED BY <1>1, <1>2, <1>3 DEF Apart

LEMMA QuietApart ==
    ASSUME TypeOK, NEW p \in Invocation, Admission(p) \/ Locking(p) \/ Saving(p) \/ Sealing(p)
    PROVE  Apart(p) /\ attempts' = attempts
<1>1. /\ \A q \in Invocation \ {p} : pc'[q] = pc[q] /\ loc'[q] = loc[q]
      /\ attempts' = attempts /\ args' = args
  BY QuietElsewhere DEF Elsewhere
<1>2. clock' = clock
  BY DEF Admission, LoadRow, ReplayCompleted, RefuseRetry, AdmitRetry, AdmitNew, CreateCycle,
         CreateCollides, Locking, TryLock, LockRefused, PeerRunning, BeginRun, AnnounceAbort,
         AnnounceConflict, Saving, SaveCheck, SaveRefused, SaveWrite, Sealing, Finish,
         AnnounceFailure, AnnounceSuccess, ReleaseLock
<1>3. \A q \in Invocation \ {p} : save'[q] = save[q] /\ mem'[q] = mem[q]
  <2>1. CASE Locking(p) \/ Sealing(p)
    BY <2>1, LockingCarries, SealingCarries DEF Carries
  <2>2. CASE Admission(p)
    <3>1. ASSUME Exit(p) PROVE \A q \in Invocation \ {p} : save'[q] = save[q] /\ mem'[q] = mem[q]
      BY <3>1, ExitEffect
    <3>2. CASE LoadRow(p) \/ AdmitRetry(p) \/ AdmitNew(p) \/ CreateCycle(p)
      BY <3>2 DEF LoadRow, AdmitRetry, AdmitNew, CreateCycle, TypeOK
    <3> QED BY <2>2, <3>1, <3>2 DEF Admission, ReplayCompleted, RefuseRetry, CreateCollides
  <2>3. CASE Saving(p)
    <3>1. CASE SaveRefused(p)
      BY <3>1, ExitEffect DEF SaveRefused
    <3>2. CASE SaveCheck(p) \/ SaveWrite(p)
      BY <3>2 DEF SaveCheck, SaveWrite, TypeOK
    <3> QED BY <2>3, <3>1, <3>2 DEF Saving
  <2> QED BY <2>1, <2>2, <2>3
<1> QED BY <1>1, <1>2, <1>3 DEF Apart

\* Nobody else's journey is disturbed: a collector holds the lock, and a journey that rests
\* on attempts, too.
LEMMA OthersJourney ==
    ASSUME TypeOK, Exclusion, NEW p \in Invocation, Apart(p), NEW q \in Invocation \ {p},
           Track(q), Chain(q), Swept(q)
    PROVE  Track(q)' /\ Chain(q)' /\ Swept(q)'
<1>1. /\ pc'[q] = pc[q] /\ mem'[q] = mem[q] /\ loc'[q] = loc[q] /\ Own(q)' = Own(q)
      /\ pc[p] # "collecting" => attempts' = attempts
  BY DEF Apart, Own
<1>2. pc[q] \in Begun => attempts' = attempts
  <2>1. ASSUME pc[q] \in Begun, pc[p] = "collecting" PROVE FALSE
    BY <2>1 DEF Exclusion, LockExclusion, Begun, Working, Unlocked
  <2> QED BY <1>1, <2>1
<1>3. Track(q)'
  BY <1>1 DEF Track, Named, DoneBefore
<1>4. Chain(q)'
  BY <1>1, <1>2 DEF Chain, CutBy, ResolvedBy, AttemptsUpTo, Staging, Begun, Working
<1>5. Swept(q)'
  BY <1>1, <1>2 DEF Swept, PriorSuccess, AllCollected, Staging, Begun, Working
<1> QED BY <1>3, <1>4, <1>5

Journey(p) == Track(p) /\ Chain(p) /\ Swept(p)

LEMMA Positions ==
    /\ \A s \in Stage : Position[s] \in 1..9
    /\ \A s, t \in Stage : Position[s] = Position[t] => s = t
    /\ Position["cohort"] = 1 /\ Position["collection"] = 2 /\ Position["green_continuity"] = 3
    /\ Position["dedup"] = 4 /\ Position["dedup_continuity"] = 5 /\ Position["premium"] = 6
    /\ Position["geospatial"] = 7 /\ Position["dashboard"] = 8 /\ Position["readiness"] = 9
BY DEF Position, Stage

\* The next stage may begin when one has succeeded.
LEMMA NextDone ==
    ASSUME NEW m, NEW n, NEW s \in Stage, NEW t \in Stage, m.stages \in [Stage -> StageStatus],
           n.stages = [m.stages EXCEPT ![s] = "SUCCEEDED"], DoneBefore(m, s),
           Position[t] = Position[s] + 1
    PROVE  DoneBefore(n, t)
<1> SUFFICES ASSUME NEW u \in Stage, Position[u] < Position[t]
             PROVE  n.stages[u] = "SUCCEEDED"
  BY DEF DoneBefore
<1>1. u = s \/ Position[u] < Position[s]
  BY Positions
<1> QED BY <1>1 DEF DoneBefore

\* A change of a stage leaves what is before another untouched.
LEMMA StillDone ==
    ASSUME NEW m, NEW n, NEW s \in Stage, NEW t \in Stage, NEW x,
           m.stages \in [Stage -> StageStatus],
           n.stages = [m.stages EXCEPT ![s] = x], DoneBefore(m, t),
           Position[t] <= Position[s]
    PROVE  DoneBefore(n, t)
<1> SUFFICES ASSUME NEW u \in Stage, Position[u] < Position[t]
             PROVE  n.stages[u] = "SUCCEEDED"
  BY DEF DoneBefore
<1>1. u # s
  BY Positions
<1> QED BY <1>1 DEF DoneBefore

LEMMA GoneJourney ==
    ASSUME NEW p \in Invocation, pc'[p] = "done", mem'[p] = NoRow
    PROVE  Journey(p)'
BY DEF Journey, Track, Named, Chain, CutBy, ResolvedBy, Swept, Staging, Working, NoRow, Failed

LEMMA SealedJourney ==
    ASSUME NEW p \in Invocation, pc'[p] = "sealed", Named(mem'[p])
    PROVE  Journey(p)'
<1>1. Track(p)'
  BY DEF Track, Staging, Working
<1>2. Chain(p)'
  BY DEF Chain, CutBy, ResolvedBy, Staging
<1>3. Swept(p)'
  BY DEF Swept, Staging, Working
<1> QED BY <1>1, <1>2, <1>3 DEF Journey

\* A failure that is sealed in the stage whose predecessors have all succeeded is named.
LEMMA SealJourney ==
    ASSUME TypeOK, NEW p \in Invocation, NEW m \in Row, NEW stage \in Stage,
           Seal(p, m, stage, status_by_stage[stage]), DoneBefore(m, stage)
    PROVE  Journey(p)'
<1>1. /\ mem'[p].stages = [m.stages EXCEPT ![stage] = "FAILED"]
      /\ mem'[p].status = status_by_stage[stage] /\ pc'[p] = "sealed"
  BY SealEffect DEF SealMade
<1>2. m.stages \in [Stage -> StageStatus]
  BY DEF Row
<1>3. DoneBefore(mem'[p], stage)
  BY <1>1, <1>2, StillDone, Positions
<1>4. mem'[p].stages[stage] = "FAILED"
  BY <1>1, <1>2
<1>5. Named(mem'[p])
  BY <1>1, <1>3, <1>4 DEF Named
<1> QED BY <1>1, <1>5, SealedJourney

\* A label outside the way through the stages, with a copy that names its failure.
Resting == {"load", "admit", "create", "lock", "peers", "aborted", "conflict", "release", "done"}

LEMMA RestingJourney ==
    ASSUME NEW p \in Invocation, pc'[p] \in Resting, Named(mem'[p]),
           pc'[p] \in {"load", "admit", "create", "lock", "peers"} =>
               loc'[p].seen = {} /\ loc'[p].failures = {}
    PROVE  Journey(p)'
<1>1. Track(p)'
  BY DEF Track, Staging, Working, Resting
<1>2. Chain(p)'
  BY DEF Chain, CutBy, ResolvedBy, Staging, Resting
<1>3. Swept(p)'
  BY DEF Swept, Staging, Working, Resting
<1> QED BY <1>1, <1>2, <1>3 DEF Journey

LEMMA AdmissionJourney ==
    ASSUME TypeOK, NEW p \in Invocation, Admission(p), Journey(p), \A c \in Cycle : Named(row[c])
    PROVE  Journey(p)'
<1>1. ASSUME Exit(p) PROVE Journey(p)'
  BY <1>1, ExitEffect, GoneJourney
<1>2. CASE LoadRow(p)
  <2>1. /\ pc[p] = "load" /\ pc'[p] = "admit" /\ mem'[p] = row[Own(p)] /\ loc'[p] = loc[p]
        /\ Own(p) \in Cycle
    BY <1>2, RowOfCopy DEF LoadRow, At, Goto, TypeOK
  <2> QED BY <2>1, RestingJourney DEF Resting, Journey, Swept
<1>3. CASE AdmitRetry(p) \/ AdmitNew(p)
  <2>1. /\ pc[p] = "admit" /\ pc'[p] \in {"lock", "create"} /\ mem'[p] = mem[p] /\ loc'[p] = loc[p]
    BY <1>3 DEF AdmitRetry, AdmitNew, At, Goto, TypeOK
  <2> QED BY <2>1, RestingJourney DEF Resting, Journey, Swept, Track
<1>4. CASE CreateCycle(p)
  <2> DEFINE planned == [NoRow EXCEPT !.status = "PLANNED", !.release = args[p].release]
  <2>1. planned.status = "PLANNED"
    BY DEF NoRow
  <2> HIDE DEF planned
  <2>2. /\ pc[p] = "create" /\ pc'[p] = "lock" /\ mem'[p] = planned /\ loc'[p] = loc[p]
    BY <1>4 DEF CreateCycle, At, Goto, TypeOK, planned
  <2>3. Named(mem'[p])
    BY <2>1, <2>2 DEF Named, Failed
  <2> QED BY <2>2, <2>3, RestingJourney DEF Resting, Journey, Swept
<1> QED BY <1>1, <1>2, <1>3, <1>4 DEF Admission, ReplayCompleted, RefuseRetry, CreateCollides

LEMMA LockingJourney ==
    ASSUME TypeOK, NEW p \in Invocation, Locking(p), Journey(p)
    PROVE  Journey(p)'
<1>1. CASE TryLock(p) \/ AnnounceConflict(p)
  <2>1. /\ pc'[p] \in {"peers", "release"} /\ mem'[p] = mem[p] /\ loc'[p] = loc[p]
        /\ pc'[p] = "peers" => pc[p] = "lock"
    BY <1>1 DEF TryLock, AnnounceConflict, At, Goto, TypeOK
  <2> QED BY <2>1, RestingJourney DEF Resting, Journey, Swept, Track
<1>2. CASE LockRefused(p) \/ PeerRunning(p)
  <2>1. Aborted(mem[p]).status = "ABORTED_CONCURRENCY"
    BY RowOfCopy DEF Aborted, Row
  <2>2. mem'[p] = Aborted(mem[p]) /\ pc'[p] \in {"aborted", "conflict"}
    BY <1>2, SaveEffect DEF LockRefused, PeerRunning
  <2>3. Named(mem'[p])
    BY <2>1, <2>2 DEF Named, Failed
  <2> QED BY <2>2, <2>3, RestingJourney DEF Resting
<1>3. CASE BeginRun(p)
  <2> DEFINE n == [mem[p] EXCEPT !.status = "RUNNING", !.heartbeat = clock]
  <2>1. n.status = "RUNNING"
    BY RowOfCopy DEF Row
  <2>2. mem'[p] = n /\ pc'[p] = "cohort" /\ pc[p] = "peers"
    <3> HIDE DEF n
    <3>1. Save(p, n, "cohort") /\ pc[p] = "peers"
      BY <1>3 DEF BeginRun, At, n
    <3> QED BY <3>1, SaveEffect
  <2> HIDE DEF n
  <2>3. loc'[p].seen = loc[p].seen /\ loc'[p].failures = loc[p].failures
    BY <1>3 DEF BeginRun, TypeOK, Local
  <2>4. Track(p)'
    BY <2>1, <2>2 DEF Track, Named, Failed, Working, Staging
  <2>5. Chain(p)'
    BY <2>2 DEF Chain, CutBy, ResolvedBy, Staging
  <2>6. Swept(p)'
    BY <2>2, <2>3 DEF Journey, Swept, Staging, Working
  <2> QED BY <2>4, <2>5, <2>6 DEF Journey
<1>4. CASE AnnounceAbort(p)
  BY <1>4, ExitEffect, GoneJourney DEF AnnounceAbort
<1> QED BY <1>1, <1>2, <1>3, <1>4 DEF Locking

LEMMA SavingJourney ==
    ASSUME TypeOK, NEW p \in Invocation, Saving(p), Journey(p)
    PROVE  Journey(p)'
<1>1. CASE SaveRefused(p)
  BY <1>1, ExitEffect, GoneJourney DEF SaveRefused
<1>2. CASE SaveCheck(p) \/ SaveWrite(p)
  <2>1. UNCHANGED <<pc, mem, loc, attempts, args>>
    BY <1>2 DEF SaveCheck, SaveWrite, database
  <2>2. Track(p)'
    BY <2>1 DEF Journey, Track, Named, DoneBefore
  <2>3. Chain(p)'
    BY <2>1 DEF Journey, Chain, CutBy, ResolvedBy, AttemptsUpTo, Own
  <2>4. Swept(p)'
    BY <2>1 DEF Journey, Swept, PriorSuccess, AllCollected, Own
  <2> QED BY <2>2, <2>3, <2>4 DEF Journey
<1> QED BY <1>1, <1>2 DEF Saving

\* What the collection leaves to the stages after it: nothing is built, so the chain holds.
LEMMA CollectionChain ==
    ASSUME NEW p \in Invocation,
           pc'[p] \in {"collection", "sources", "collecting", "collected"}
    PROVE  Chain(p)'
BY DEF Chain, CutBy, ResolvedBy, Staging

LEMMA BeginCollectionJourney ==
    ASSUME TypeOK, NEW p \in Invocation, CohortResolved(p) \/ BeginCollection(p), Journey(p)
    PROVE  Journey(p)'
<1>0. /\ mem[p] \in Row /\ mem[p].stages \in [Stage -> StageStatus]
      /\ UNCHANGED <<attempts, args, loc>> /\ Own(p)' = Own(p)
      /\ {"cohort", "collection"} \subseteq Stage
  BY RowOfCopy DEF CohortResolved, BeginCollection, database, Own, Stage
<1>1. CASE CohortResolved(p)
  <2>1. /\ mem'[p].stages = [mem[p].stages EXCEPT !["cohort"] = "SUCCEEDED"]
        /\ mem'[p].status = mem[p].status /\ pc'[p] = "collection" /\ pc[p] = "cohort"
    BY <1>0, <1>1, SaveStageEffect DEF CohortResolved, At, StageSaved
  <2>2. DoneBefore(mem[p], "cohort")
    BY Positions DEF DoneBefore
  <2>3. DoneBefore(mem'[p], "collection")
    BY <1>0, <2>1, <2>2, NextDone, Positions
  <2>4. mem'[p].status = "RUNNING"
    BY <2>1 DEF Journey, Track, Working
  <2>5. Track(p)'
    BY <2>1, <2>3, <2>4 DEF Track, Named, Failed, Staging
  <2>6. Swept(p)'
    BY <1>0, <2>1 DEF Journey, Swept, Staging, Working
  <2> QED BY <2>1, <2>5, <2>6, CollectionChain DEF Journey
<1>2. CASE BeginCollection(p)
  <2>1. pc[p] = "collection" /\ DoneBefore(mem[p], "collection")
    BY <1>2 DEF BeginCollection, At, Journey, Track
  <2>2. ASSUME Seal(p, mem[p], "collection", status_by_stage["collection"]) PROVE Journey(p)'
    BY <1>0, <2>1, <2>2, SealJourney
  <2>3. ASSUME SaveStage(p, "collection", "RUNNING", "sources") PROVE Journey(p)'
    <3>1. /\ mem'[p].stages = [mem[p].stages EXCEPT !["collection"] = "RUNNING"]
          /\ mem'[p].status = mem[p].status /\ pc'[p] = "sources"
      BY <1>0, <2>3, SaveStageEffect DEF StageSaved
    <3>2. DoneBefore(mem'[p], "collection")
      <4>1. Position["collection"] <= Position["collection"]
        BY Positions
      <4> QED BY <1>0, <2>1, <3>1, <4>1, StillDone
    <3>3. mem'[p].status = "RUNNING"
      BY <2>1, <3>1 DEF Journey, Track, Working
    <3>4. Track(p)'
      BY <3>1, <3>2, <3>3 DEF Track, Named, Failed, Staging
    <3>5. Swept(p)'
      BY <1>0, <2>1, <3>1 DEF Journey, Swept, Staging, Working
    <3> QED BY <3>1, <3>4, <3>5, CollectionChain DEF Journey
  <2> QED BY <1>2, <2>2, <2>3 DEF BeginCollection, SealTimeout
<1> QED BY <1>1, <1>2

\* The loop over the sources changes no copy, so the stages stay as they are.
LEMMA LoopTrack ==
    ASSUME NEW p \in Invocation, Journey(p), mem'[p] = mem[p],
           {pc[p], pc'[p]} \subseteq {"sources", "collecting", "collected"}
    PROVE  Track(p)' /\ Chain(p)'
<1>1. Track(p)'
  BY DEF Journey, Track, Named, DoneBefore, Staging, Working
<1> QED BY <1>1, CollectionChain

LEMMA ChooseSourceJourney ==
    ASSUME TypeOK, NEW p \in Invocation, NEW s \in Source, Journey(p),
           SkipCollected(p, s) \/ StartSource(p, s)
    PROVE  Journey(p)'
<1>0. /\ UNCHANGED <<attempts, args>> /\ Own(p)' = Own(p) /\ pc[p] = "sources"
      /\ mem'[p] = mem[p] /\ loc'[p].failures = loc[p].failures
  BY DEF SkipCollected, StartSource, At, database, Own, TypeOK, Local
<1>1. CASE SkipCollected(p, s)
  <2>1. pc'[p] = "sources" /\ loc'[p].seen = loc[p].seen \cup {s} /\ PriorSuccess(Own(p), s)
    BY <1>1 DEF SkipCollected, At, TypeOK, Local
  <2>2. Swept(p)'
    BY <1>0, <2>1 DEF Journey, Swept, PriorSuccess, Staging, Working
  <2> QED BY <1>0, <2>1, <2>2, LoopTrack DEF Journey
<1>2. CASE StartSource(p, s)
  <2>1. pc'[p] = "collecting" /\ loc'[p].seen = loc[p].seen /\ loc'[p].source = s /\ s \notin loc[p].seen
    BY <1>2 DEF StartSource, Goto, TypeOK, Local
  <2>2. Swept(p)'
    BY <1>0, <2>1 DEF Journey, Swept, PriorSuccess, Staging, Working
  <2> QED BY <1>0, <2>1, <2>2, LoopTrack DEF Journey
<1> QED BY <1>1, <1>2

\* What a new attempt of s changes: s may have succeeded now, and nothing else did.
LEMMA AttemptRecorded ==
    ASSUME TypeOK, Attempting, NEW p \in Invocation, NEW ok \in BOOLEAN, RecordAttempt(p, ok)
    PROVE  /\ pc[p] = "collecting" /\ pc'[p] = "collected" /\ mem'[p] = mem[p]
           /\ loc'[p].seen = loc[p].seen /\ loc'[p].source = loc[p].source
           /\ loc'[p].failures = IF ok THEN loc[p].failures
                                 ELSE loc[p].failures \cup {loc[p].source}
           /\ loc[p].source \in Source
           /\ \A s \in Source \ {loc[p].source} :
                  attempts'[Own(p)][s] = attempts[Own(p)][s]
           /\ \A c \in Cycle \ {Own(p)} : attempts'[c] = attempts[c]
           /\ PriorSuccess(Own(p), loc[p].source)' <=> ok
           /\ \A i \in DOMAIN attempts'[Own(p)][loc[p].source] :
                  \/ attempts'[Own(p)][loc[p].source][i].at = clock
                  \/ /\ i \in DOMAIN attempts[Own(p)][loc[p].source]
                     /\ attempts'[Own(p)][loc[p].source][i] =
                            attempts[Own(p)][loc[p].source][i]
<1> DEFINE c == Own(p)
           s == loc[p].source
           old == attempts[c][s]
           attempt == [number |-> loc[p].number, ok |-> ok, at |-> clock]
<1>1. pc[p] = "collecting" /\ c \in Cycle /\ s \in Source /\ c' = c
  BY DEF RecordAttempt, At, TypeOK, Own
<1>2. /\ pc'[p] = "collected" /\ mem'[p] = mem[p]
      /\ loc'[p].seen = loc[p].seen /\ s' = s
      /\ loc'[p].failures = IF ok THEN loc[p].failures ELSE loc[p].failures \cup {s}
  BY <1>1 DEF RecordAttempt, Goto, TypeOK, Local
<1>3. old \in Seq(Attempt)
  BY <1>1 DEF TypeOK
<1>4. attempt \in Attempt /\ attempt.ok = ok /\ attempt.at = clock
  BY DEF Attempt, TypeOK, Local
<1>5. \A i \in DOMAIN old : ~old[i].ok
  BY <1>1 DEF Attempting, CollectorKnows, PriorSuccess
<1>6. /\ attempts'[c][s] = Append(old, attempt)
      /\ \A t \in Source \ {s} : attempts'[c][t] = attempts[c][t]
      /\ \A d \in Cycle \ {c} : attempts'[d] = attempts[d]
  BY <1>1 DEF RecordAttempt, TypeOK
<1>7. /\ DOMAIN old = 1..Len(old) /\ Len(old) \in Nat
      /\ DOMAIN Append(old, attempt) = 1..(Len(old) + 1)
      /\ Append(old, attempt)[Len(old) + 1] = attempt
      /\ \A i \in DOMAIN old : Append(old, attempt)[i] = old[i]
  <2> HIDE DEF old, attempt
  <2> QED BY <1>3, <1>4, AppendedElements
<1>8. \A i \in DOMAIN Append(old, attempt) :
          i = Len(old) + 1 \/ (i \in DOMAIN old /\ Append(old, attempt)[i] = old[i])
  <2> HIDE DEF old, attempt
  <2> DEFINE n == Len(old)
  <2>1. \A i \in 1..(n + 1) : i = n + 1 \/ i \in 1..n
    <3>1. n \in Nat
      BY <1>7
    <3> HIDE DEF n
    <3> QED BY <3>1
  <2> QED BY <1>7, <2>1
<1>9. (\E i \in DOMAIN Append(old, attempt) : Append(old, attempt)[i].ok) <=> ok
  <2> HIDE DEF old, attempt
  <2> QED BY <1>4, <1>5, <1>7, <1>8
<1>10. PriorSuccess(c, s)' <=> ok
  <2> HIDE DEF old, attempt
  <2> QED BY <1>1, <1>2, <1>6, <1>9 DEF PriorSuccess
<1>11. \A i \in DOMAIN attempts'[c][s] :
           \/ attempts'[c][s][i].at = clock
           \/ i \in DOMAIN old /\ attempts'[c][s][i] = old[i]
  <2> HIDE DEF attempt
  <2> QED BY <1>4, <1>6, <1>7, <1>8
<1> QED BY <1>1, <1>2, <1>6, <1>10, <1>11

LEMMA RecordJourney ==
    ASSUME TypeOK, Attempting, NEW p \in Invocation, NEW ok \in BOOLEAN, RecordAttempt(p, ok),
           Journey(p)
    PROVE  Journey(p)'
<1> DEFINE s == loc[p].source
<1>1. /\ pc[p] = "collecting" /\ pc'[p] = "collected" /\ mem'[p] = mem[p]
      /\ loc'[p].seen = loc[p].seen /\ loc'[p].source = s /\ s \in Source
      /\ loc'[p].failures = IF ok THEN loc[p].failures ELSE loc[p].failures \cup {s}
      /\ PriorSuccess(Own(p), s)' <=> ok
  BY AttemptRecorded
<1>2. \A t \in Source \ {s} : PriorSuccess(Own(p), t)' <=> PriorSuccess(Own(p), t)
  <2>1. \A t \in Source \ {s} : attempts'[Own(p)][t] = attempts[Own(p)][t]
    BY AttemptRecorded
  <2>2. Own(p)' = Own(p)
    BY DEF RecordAttempt, Own
  <2> QED BY <2>1, <2>2 DEF PriorSuccess
<1>3. loc[p].failures \subseteq Source /\ loc[p].seen \subseteq Source
  BY DEF TypeOK, Local
<1>4. /\ loc[p].failures \subseteq loc[p].seen /\ s \notin loc[p].seen
      /\ \A t \in loc[p].failures : ~PriorSuccess(Own(p), t)
      /\ \A t \in loc[p].seen : PriorSuccess(Own(p), t) \/ t \in loc[p].failures
  BY <1>1 DEF Journey, Swept, Working
<1>5. Swept(p)'
  <2>1. loc'[p].failures \subseteq loc'[p].seen \cup {s}
    BY <1>1, <1>4
  <2>2. \A t \in loc'[p].failures : ~PriorSuccess(Own(p), t)'
    BY <1>1, <1>2, <1>3, <1>4
  <2>3. \A t \in loc'[p].seen : PriorSuccess(Own(p), t)' \/ t \in loc'[p].failures
    BY <1>1, <1>2, <1>3, <1>4
  <2>4. PriorSuccess(Own(p), s)' \/ s \in loc'[p].failures
    BY <1>1
  <2> QED BY <1>1, <1>4, <2>1, <2>2, <2>3, <2>4 DEF Swept, Staging, Working
<1> QED BY <1>1, <1>5, LoopTrack DEF Journey

LEMMA AfterSourceJourney ==
    ASSUME TypeOK, NEW p \in Invocation, AfterSource(p), Journey(p)
    PROVE  Journey(p)'
<1>1. /\ UNCHANGED <<attempts, args>> /\ Own(p)' = Own(p) /\ pc[p] = "collected"
      /\ "collection" \in Stage /\ mem[p] \in Row /\ DoneBefore(mem[p], "collection")
  BY RowOfCopy DEF AfterSource, At, database, Own, Stage, Journey, Track
<1>2. ASSUME SealTimeout(p, "collection") PROVE Journey(p)'
  BY <1>1, <1>2, SealJourney DEF SealTimeout
<1>3. ASSUME loc' = [loc EXCEPT ![p].seen = @ \cup {loc[p].source}], Goto(p, "sources"),
             UNCHANGED <<save, mem>>
      PROVE  Journey(p)'
  <2>1. /\ pc'[p] = "sources" /\ mem'[p] = mem[p] /\ loc'[p].seen = loc[p].seen \cup {loc[p].source}
        /\ loc'[p].failures = loc[p].failures
    BY <1>3 DEF Goto, TypeOK, Local
  <2>2. Swept(p)'
    BY <1>1, <2>1 DEF Journey, Swept, PriorSuccess, Staging, Working
  <2> QED BY <1>1, <2>1, <2>2, LoopTrack DEF Journey
<1> QED BY <1>2, <1>3 DEF AfterSource

LEMMA FinishCollectionJourney ==
    ASSUME TypeOK, NEW p \in Invocation, FinishCollection(p), Journey(p)
    PROVE  Journey(p)'
<1>1. /\ UNCHANGED <<attempts, args>> /\ Own(p)' = Own(p) /\ pc[p] = "sources"
      /\ loc[p].seen = Source /\ {"collection", "green_continuity"} \subseteq Stage
      /\ mem[p].stages \in [Stage -> StageStatus] /\ DoneBefore(mem[p], "collection")
  BY RowOfCopy DEF FinishCollection, At, database, Own, Stage, Journey, Track
<1>2. /\ loc'[p].seen = loc[p].seen /\ loc'[p].failures = loc[p].failures
      /\ loc'[p].stage = "green_continuity"
  BY DEF FinishCollection, TypeOK, Local
<1>3. /\ mem'[p].stages = [mem[p].stages EXCEPT !["collection"] = "SUCCEEDED"]
      /\ mem'[p].status = mem[p].status /\ pc'[p] = "enter"
  BY <1>1, SaveStageEffect DEF FinishCollection, StageSaved
<1>4. DoneBefore(mem'[p], "green_continuity")
  BY <1>1, <1>3, NextDone, Positions
<1>5. mem'[p].status = "RUNNING"
  BY <1>1, <1>3 DEF Journey, Track, Working
<1>6. Track(p)'
  BY <1>2, <1>3, <1>4, <1>5 DEF Track, Named, Failed, Staging
<1>7. Chain(p)'
  <2>1. BuiltBefore["green_continuity"] = {}
    BY Positions DEF BuiltBefore, Artifact, Stage
  <2>2. Position["green_continuity"] < Position["dedup"]
    BY Positions
  <2> QED BY <1>2, <1>3, <2>1, <2>2, Positions DEF Chain, CutBy, ResolvedBy, Staging
<1>8. Swept(p)'
  BY <1>1, <1>2, <1>3 DEF Journey, Swept, PriorSuccess, Staging, Working
<1> QED BY <1>6, <1>7, <1>8 DEF Journey

LEMMA CollectingJourney ==
    ASSUME TypeOK, Attempting, NEW p \in Invocation, Collecting(p), Journey(p)
    PROVE  Journey(p)'
BY BeginCollectionJourney, ChooseSourceJourney, RecordJourney, AfterSourceJourney,
   FinishCollectionJourney DEF Collecting

-----------------------------------------------------------------------------
(* The stages after the collection.                                        *)

\* The sources an invocation has passed stay as they are once it has left the loop.
LEMMA SweptOn ==
    ASSUME NEW p \in Invocation, Swept(p), UNCHANGED <<attempts, args>>,
           pc[p] \in Staging \cup {"continuity"}, pc'[p] \in Staging \cup {"continuity", "final"},
           loc'[p].seen = loc[p].seen, loc'[p].failures = loc[p].failures
    PROVE  Swept(p)'
<1>1. Own(p)' = Own(p) /\ \A s : PriorSuccess(Own(p), s)' = PriorSuccess(Own(p), s)
  BY DEF Own, PriorSuccess
<1> QED BY <1>1 DEF Swept, Staging, Working

LEMMA StageDoneEffect ==
    ASSUME TypeOK, NEW p \in Invocation, NEW stage \in Stage, NEW locals, NEW label,
           StageDone(p, stage, locals, label)
    PROVE  StageEnded(p, stage, locals, label)
<1>1. SaveStage(p, stage, "SUCCEEDED", label) /\ UNCHANGED <<attempts, args, clock>>
  BY DEF StageDone, database
<1>2. loc'[p] = locals
  BY DEF StageDone, TypeOK
<1>3. /\ mem'[p].stages = [mem[p].stages EXCEPT ![stage] = "SUCCEEDED"]
      /\ mem'[p].status = mem[p].status /\ pc'[p] = label
  BY <1>1, SaveStageEffect DEF StageSaved
<1> QED BY <1>1, <1>2, <1>3 DEF StageEnded

\* The artifacts before each stage.
LEMMA BuiltStages ==
    /\ BuiltBefore["green_continuity"] = {} /\ BuiltBefore["dedup"] = {}
    /\ BuiltBefore["premium"] = {"dedup"} /\ BuiltBefore["geospatial"] = {"dedup", "premium"}
    /\ BuiltBefore["dashboard"] = {"dedup", "premium"}
    /\ BuiltBefore["readiness"] = {"dedup", "premium", "dashboard"}
BY Positions DEF BuiltBefore, Artifact, Stage

\* An invocation that enters a stage whose predecessors have succeeded.
LEMMA EnteringJourney ==
    ASSUME TypeOK, NEW p \in Invocation, Journey(p), UNCHANGED <<attempts, args>>,
           pc[p] \in Staging \cup {"continuity"}, pc'[p] = "enter",
           NEW stage \in Stage, loc'[p].stage = stage,
           stage \notin {"cohort", "collection", "dedup_continuity"},
           mem'[p].status = mem[p].status, DoneBefore(mem'[p], stage),
           loc'[p].seen = loc[p].seen, loc'[p].failures = loc[p].failures,
           \A a \in BuiltBefore[stage] : loc'[p].pit[a] = loc'[p].cutoff,
           Position[stage] > 4 =>
               loc'[p].cutoff \in Nat /\ AttemptsUpTo(Own(p), loc'[p].cutoff),
           stage \in {"dashboard", "readiness"} => loc'[p].resolution <= loc'[p].cutoff
    PROVE  Journey(p)'
<1>1. mem[p].status = "RUNNING"
  BY DEF Journey, Track, Staging, Working
<1>2. Track(p)'
  BY <1>1 DEF Track, Named, Failed, Staging
<1>3. Chain(p)'
  BY Positions DEF Chain, CutBy, ResolvedBy, Staging, AttemptsUpTo, Own
<1> QED BY <1>2, <1>3, SweptOn DEF Journey, Staging

LEMMA EnterStageJourney ==
    ASSUME TypeOK, NEW p \in Invocation, EnterStage(p), Journey(p)
    PROVE  Journey(p)'
<1>1. /\ pc[p] = "enter" /\ UNCHANGED <<attempts, args, loc>> /\ loc[p].stage \in Stage
      /\ mem[p].stages \in [Stage -> StageStatus] /\ DoneBefore(mem[p], loc[p].stage)
  BY RowOfCopy DEF EnterStage, At, database, Journey, Track, Staging, Local
<1>2. /\ mem'[p].stages = [mem[p].stages EXCEPT ![loc[p].stage] = "RUNNING"]
      /\ mem'[p].status = mem[p].status /\ pc'[p] = "work"
  BY <1>1, SaveStageEffect DEF EnterStage, StageSaved
<1>3. DoneBefore(mem'[p], loc[p].stage)
  <2>1. Position[loc[p].stage] <= Position[loc[p].stage]
    BY <1>1, Positions
  <2> QED BY <1>1, <1>2, <2>1, StillDone
<1>4. mem[p].status = "RUNNING"
  BY <1>1 DEF Journey, Track, Working
<1>5. Track(p)'
  BY <1>1, <1>2, <1>3, <1>4 DEF Journey, Track, Named, Failed, Staging
<1>6. Chain(p)'
  BY <1>1, <1>2 DEF Journey, Chain, CutBy, ResolvedBy, Staging, AttemptsUpTo, Own
<1> QED BY <1>1, <1>2, <1>5, <1>6, SweptOn DEF Journey, Staging

LEMMA FailingJourney ==
    ASSUME TypeOK, NEW p \in Invocation, Journey(p),
           StageTimesOut(p) \/ StageFails(p) \/ ContinuityConflict(p) \/ GeospatialFails(p)
    PROVE  Journey(p)'
<1>1. /\ loc[p].stage \in Stage /\ mem[p] \in Row /\ mem[p].stages \in [Stage -> StageStatus]
      /\ {"dedup", "dedup_continuity", "geospatial"} \subseteq Stage
  BY RowOfCopy DEF Local, Stage
<1>2. DoneBefore(mem[p], loc[p].stage)
  BY DEF StageTimesOut, StageFails, ContinuityConflict, GeospatialFails, At, Journey, Track, Staging
<1>3. ASSUME NEW stage \in Stage, DoneBefore(mem[p], stage),
             Seal(p, mem[p], stage, status_by_stage[stage])
      PROVE  Journey(p)'
  BY <1>1, <1>3, SealJourney
<1>4. CASE StageTimesOut(p)
  BY <1>1, <1>2, <1>3, <1>4 DEF StageTimesOut, SealTimeout
<1>5. CASE GeospatialFails(p)
  <2>1. loc[p].stage = "geospatial"
    BY <1>5 DEF GeospatialFails, At, Journey, Track
  <2>2. status_by_stage["geospatial"] = "FAILED_GEOSPATIAL"
    BY DEF status_by_stage
  <2> QED BY <1>1, <1>2, <1>3, <1>5, <2>1, <2>2 DEF GeospatialFails
<1>6. CASE StageFails(p) /\ loc[p].stage # "dedup"
  BY <1>1, <1>2, <1>3, <1>6 DEF StageFails
<1>7. CASE StageFails(p) /\ loc[p].stage = "dedup"
  <2> DEFINE m == [mem[p] EXCEPT !.stages["dedup_continuity"] = "SKIPPED"]
  <2>1. m \in Row /\ m.stages = [mem[p].stages EXCEPT !["dedup_continuity"] = "SKIPPED"]
    BY <1>1, StagesTyped DEF StageStatus
  <2>2. Seal(p, m, "dedup", status_by_stage["dedup"])
    BY <1>7 DEF StageFails, status_by_stage
  <2> HIDE DEF m
  <2>3. DoneBefore(m, "dedup")
    <3>1. Position["dedup"] <= Position["dedup_continuity"]
      BY Positions
    <3>2. DoneBefore(mem[p], "dedup")
      BY <1>2, <1>7
    <3> QED BY <1>1, <2>1, <3>1, <3>2, StillDone
  <2> QED BY <1>1, <2>1, <2>2, <2>3, SealJourney
<1>8. CASE ContinuityConflict(p)
  <2> DEFINE m == [mem[p] EXCEPT !.stages["dedup"] = "FAILED"]
  <2>1. m \in Row /\ m.stages = [mem[p].stages EXCEPT !["dedup"] = "FAILED"]
    BY <1>1, StagesTyped DEF StageStatus
  <2>2. Seal(p, m, "dedup_continuity", "FAILED_CONTINUITY") /\ loc[p].stage = "dedup"
    BY <1>8 DEF ContinuityConflict
  <2> HIDE DEF m
  <2>3. DoneBefore(m, "dedup")
    <3>1. Position["dedup"] <= Position["dedup"]
      BY Positions
    <3>2. DoneBefore(mem[p], "dedup")
      BY <1>2, <2>2
    <3> QED BY <1>1, <2>1, <3>1, <3>2, StillDone
  <2>4. /\ mem'[p].stages = [m.stages EXCEPT !["dedup_continuity"] = "FAILED"]
        /\ mem'[p].status = "FAILED_CONTINUITY" /\ pc'[p] = "sealed"
    <3>1. SealMade(p, m, "dedup_continuity", "FAILED_CONTINUITY")
      BY <1>1, <2>1, <2>2, SealEffect
    <3> QED BY <3>1 DEF SealMade
  <2>5. m.stages \in [Stage -> StageStatus] /\ m.stages["dedup"] = "FAILED"
    <3>1. m.stages \in [Stage -> StageStatus]
      BY <2>1 DEF Row
    <3>2. m.stages["dedup"] = "FAILED"
      BY <1>1, <2>1
    <3> QED BY <3>1, <3>2
  <2>6. DoneBefore(mem'[p], "dedup")
    <3>1. Position["dedup"] <= Position["dedup_continuity"]
      BY Positions
    <3> DEFINE n == mem'[p]
    <3>2. n.stages = [m.stages EXCEPT !["dedup_continuity"] = "FAILED"]
      BY <2>4
    <3> HIDE DEF n
    <3>3. DoneBefore(n, "dedup")
      BY <1>1, <2>3, <2>5, <3>1, <3>2, StillDone
    <3> QED BY <3>3 DEF n
  <2>7. mem'[p].stages["dedup"] = "FAILED" /\ mem'[p].stages["dedup_continuity"] = "FAILED"
    BY <1>1, <2>4, <2>5
  <2>8. Named(mem'[p])
    BY <1>1, <2>4, <2>6, <2>7 DEF Named
  <2> QED BY <2>4, <2>8, SealedJourney
<1> QED BY <1>4, <1>5, <1>6, <1>7, <1>8

\* A stage of the work list that ran to its end and is followed by another one.
LEMMA WorkedJourney ==
    ASSUME TypeOK, NEW p \in Invocation, Journey(p), pc[p] \in Staging,
           NEW stage \in Stage, NEW next \in Stage, loc[p].stage = stage,
           Position[next] = Position[stage] + 1,
           next \notin {"cohort", "collection", "dedup_continuity"},
           NEW locals, StageDone(p, stage, locals, "enter"),
           locals.stage = next, locals.seen = loc[p].seen, locals.failures = loc[p].failures,
           \A a \in BuiltBefore[next] : locals.pit[a] = locals.cutoff,
           Position[next] > 4 =>
               locals.cutoff \in Nat /\ AttemptsUpTo(Own(p), locals.cutoff),
           next \in {"dashboard", "readiness"} => locals.resolution <= locals.cutoff
    PROVE  Journey(p)'
<1>1. /\ mem'[p].stages = [mem[p].stages EXCEPT ![stage] = "SUCCEEDED"]
      /\ mem'[p].status = mem[p].status /\ pc'[p] = "enter" /\ loc'[p] = locals
      /\ UNCHANGED <<attempts, args>>
  BY StageDoneEffect DEF StageEnded
<1>2. mem[p].stages \in [Stage -> StageStatus] /\ DoneBefore(mem[p], stage)
  BY RowOfCopy DEF Journey, Track
<1>3. DoneBefore(mem'[p], next)
  BY <1>1, <1>2, NextDone
<1> QED BY <1>1, <1>3, EnteringJourney

LEMMA GreenContinuityJourney ==
    ASSUME TypeOK, NEW p \in Invocation, GreenContinuity(p), Journey(p)
    PROVE  Journey(p)'
<1> DEFINE locals == [loc[p] EXCEPT !.stage = "dedup"]
<1>1. /\ locals.stage = "dedup" /\ locals.seen = loc[p].seen
      /\ locals.failures = loc[p].failures
  BY RowOfCopy DEF Local
<1>2. /\ pc[p] \in Staging /\ loc[p].stage = "green_continuity"
      /\ StageDone(p, "green_continuity", locals, "enter")
      /\ {"green_continuity", "dedup"} \subseteq Stage
  BY DEF GreenContinuity, Works, At, Staging, Stage
<1> HIDE DEF locals
<1> QED BY <1>1, <1>2, Positions, BuiltStages, WorkedJourney

LEMMA DedupJourney ==
    ASSUME TypeOK, NEW p \in Invocation, Dedup(p), Journey(p), AttemptsUpTo(Own(p), clock)
    PROVE  Journey(p)'
<1> DEFINE locals == [loc[p] EXCEPT !.cutoff = clock, !.pit["dedup"] = clock]
<1>1. /\ locals.stage = loc[p].stage /\ locals.seen = loc[p].seen
      /\ locals.failures = loc[p].failures /\ locals.cutoff = clock
      /\ locals.pit["dedup"] = clock
  BY RowOfCopy DEF Local, Artifact
<1>2. /\ pc[p] = "work" /\ loc[p].stage = "dedup" /\ clock \in Nat
      /\ StageDone(p, "dedup", locals, "continuity")
      /\ {"dedup", "dedup_continuity"} \subseteq Stage
  BY DEF Dedup, Works, At, Stage, TypeOK
<1> HIDE DEF locals
<1>3. /\ mem'[p].stages = [mem[p].stages EXCEPT !["dedup"] = "SUCCEEDED"]
      /\ mem'[p].status = mem[p].status /\ pc'[p] = "continuity" /\ loc'[p] = locals
      /\ UNCHANGED <<attempts, args>>
  BY <1>2, StageDoneEffect DEF StageEnded
<1>4. mem[p].stages \in [Stage -> StageStatus] /\ DoneBefore(mem[p], "dedup")
  BY <1>2, RowOfCopy DEF Journey, Track, Staging
<1>5. DoneBefore(mem'[p], "dedup_continuity")
  BY <1>2, <1>3, <1>4, NextDone, Positions
<1>6. mem'[p].status = "RUNNING"
  BY <1>2, <1>3 DEF Journey, Track, Working
<1>7. Track(p)'
  BY <1>1, <1>2, <1>3, <1>5, <1>6 DEF Track, Named, Failed, Staging
<1>8. Chain(p)'
  BY <1>1, <1>2, <1>3 DEF Chain, CutBy, ResolvedBy, Staging, AttemptsUpTo, Own
<1> QED BY <1>1, <1>2, <1>3, <1>7, <1>8, SweptOn DEF Journey, Staging

LEMMA DedupContinuityJourney ==
    ASSUME TypeOK, NEW p \in Invocation, DedupContinuity(p), Journey(p)
    PROVE  Journey(p)'
<1> DEFINE locals == [loc[p] EXCEPT !.stage = "premium"]
<1>1. /\ locals.stage = "premium" /\ locals.seen = loc[p].seen
      /\ locals.failures = loc[p].failures /\ locals.cutoff = loc[p].cutoff
      /\ locals.pit = loc[p].pit
  BY RowOfCopy DEF Local
<1>2. /\ pc[p] = "continuity" /\ StageDone(p, "dedup_continuity", locals, "enter")
      /\ {"premium", "dedup_continuity"} \subseteq Stage
  BY DEF DedupContinuity, At, Stage
<1> HIDE DEF locals
<1>3. /\ mem'[p].stages = [mem[p].stages EXCEPT !["dedup_continuity"] = "SUCCEEDED"]
      /\ mem'[p].status = mem[p].status /\ pc'[p] = "enter" /\ loc'[p] = locals
      /\ UNCHANGED <<attempts, args>>
  BY <1>2, StageDoneEffect DEF StageEnded
<1>4. mem[p].stages \in [Stage -> StageStatus] /\ DoneBefore(mem[p], "dedup_continuity")
  BY <1>2, RowOfCopy DEF Journey, Track
<1>5. DoneBefore(mem'[p], "premium")
  BY <1>2, <1>3, <1>4, NextDone, Positions
<1>6. /\ loc[p].pit["dedup"] = loc[p].cutoff /\ loc[p].cutoff \in Nat
      /\ AttemptsUpTo(Own(p), loc[p].cutoff)
  BY <1>2 DEF Journey, Chain, CutBy
<1> QED BY <1>1, <1>2, <1>3, <1>5, <1>6, BuiltStages, EnteringJourney

LEMMA PremiumJourney ==
    ASSUME TypeOK, NEW p \in Invocation, Premium(p), Journey(p)
    PROVE  Journey(p)'
<1> DEFINE locals == [loc[p] EXCEPT !.stage = "geospatial", !.pit["premium"] = loc[p].cutoff]
<1>1. /\ locals.stage = "geospatial" /\ locals.seen = loc[p].seen
      /\ locals.failures = loc[p].failures /\ locals.cutoff = loc[p].cutoff
      /\ locals.pit["dedup"] = loc[p].pit["dedup"] /\ locals.pit["premium"] = loc[p].cutoff
  BY RowOfCopy DEF Local, Artifact
<1>2. /\ pc[p] \in Staging /\ loc[p].stage = "premium"
      /\ StageDone(p, "premium", locals, "enter")
      /\ {"premium", "geospatial"} \subseteq Stage
  BY DEF Premium, Works, At, Staging, Stage
<1> HIDE DEF locals
<1>3. /\ loc[p].pit["dedup"] = loc[p].cutoff /\ loc[p].cutoff \in Nat
      /\ AttemptsUpTo(Own(p), loc[p].cutoff)
  BY <1>2, BuiltStages, Positions DEF Journey, Chain, CutBy
<1> QED BY <1>1, <1>2, <1>3, Positions, BuiltStages, WorkedJourney

LEMMA DashboardJourney ==
    ASSUME TypeOK, NEW p \in Invocation, Dashboard(p), Journey(p)
    PROVE  Journey(p)'
<1> DEFINE locals == [loc[p] EXCEPT !.stage = "readiness", !.pit["dashboard"] = loc[p].cutoff]
<1>1. /\ locals.stage = "readiness" /\ locals.seen = loc[p].seen
      /\ locals.failures = loc[p].failures /\ locals.cutoff = loc[p].cutoff
      /\ locals.pit["dedup"] = loc[p].pit["dedup"] /\ locals.pit["premium"] = loc[p].pit["premium"]
      /\ locals.pit["dashboard"] = loc[p].cutoff /\ locals.resolution = loc[p].resolution
  BY RowOfCopy DEF Local, Artifact
<1>2. /\ pc[p] = "work" /\ loc[p].stage = "dashboard"
      /\ StageDone(p, "dashboard", locals, "enter")
      /\ {"dashboard", "readiness"} \subseteq Stage
  BY DEF Dashboard, Works, At, Stage
<1> HIDE DEF locals
<1>3. /\ loc[p].pit["dedup"] = loc[p].cutoff /\ loc[p].pit["premium"] = loc[p].cutoff
      /\ loc[p].cutoff \in Nat /\ AttemptsUpTo(Own(p), loc[p].cutoff)
      /\ loc[p].resolution <= loc[p].cutoff
  BY <1>2, BuiltStages, Positions DEF Journey, Chain, CutBy, ResolvedBy, Staging
<1>4. pc[p] \in Staging
  BY <1>2 DEF Staging
<1> QED BY <1>1, <1>2, <1>3, <1>4, Positions, BuiltStages, WorkedJourney

LEMMA ReadinessDone ==
    ASSUME TypeOK, NEW p \in Invocation, NEW locals, StageDone(p, "readiness", locals, "final")
    PROVE  /\ mem'[p].status = mem[p].status /\ pc'[p] = "final" /\ loc'[p] = locals
           /\ UNCHANGED <<attempts, args>>
<1>1. "readiness" \in Stage
  BY DEF Stage
<1>2. StageEnded(p, "readiness", locals, "final")
  BY <1>1, StageDoneEffect
<1> QED BY <1>2 DEF StageEnded

LEMMA ReadinessJourney ==
    ASSUME TypeOK, NEW p \in Invocation, Readiness(p), Journey(p)
    PROVE  Journey(p)'
<1> DEFINE locals == [loc[p] EXCEPT !.pit["readiness"] = loc[p].cutoff,
                                    !.fresh = FreshAt(loc[p].cutoff)]
<1>1. /\ locals.seen = loc[p].seen
      /\ locals.failures = loc[p].failures /\ locals.cutoff = loc[p].cutoff
      /\ locals.pit["dedup"] = loc[p].pit["dedup"] /\ locals.pit["premium"] = loc[p].pit["premium"]
      /\ locals.pit["dashboard"] = loc[p].pit["dashboard"] /\ locals.pit["readiness"] = loc[p].cutoff
      /\ locals.resolution = loc[p].resolution
  BY RowOfCopy DEF Local, Artifact
<1>2. /\ pc[p] = "work" /\ loc[p].stage = "readiness"
      /\ StageDone(p, "readiness", locals, "final") /\ "readiness" \in Stage
  BY DEF Readiness, Works, At, Stage
<1> HIDE DEF locals
<1>3. /\ loc[p].pit["dedup"] = loc[p].cutoff /\ loc[p].pit["premium"] = loc[p].cutoff
      /\ loc[p].pit["dashboard"] = loc[p].cutoff
      /\ loc[p].cutoff \in Nat /\ AttemptsUpTo(Own(p), loc[p].cutoff)
      /\ loc[p].resolution <= loc[p].cutoff
  BY <1>2, BuiltStages, Positions DEF Journey, Chain, CutBy, ResolvedBy, Staging
<1>4. /\ mem'[p].status = mem[p].status /\ pc'[p] = "final" /\ loc'[p] = locals
      /\ UNCHANGED <<attempts, args>>
  BY <1>2, ReadinessDone
<1>5. mem'[p].status = "RUNNING"
  BY <1>2, <1>4 DEF Journey, Track, Working
<1>6. Track(p)'
  BY <1>4, <1>5 DEF Track, Named, Failed, Staging
<1>7. Chain(p)'
  BY <1>1, <1>3, <1>4 DEF Chain, CutBy, ResolvedBy, Staging, AttemptsUpTo, Own, Artifact
<1> QED BY <1>1, <1>2, <1>4, <1>6, <1>7, SweptOn DEF Journey, Staging

LEMMA GeospatialRealigns ==
    ASSUME TypeOK, NEW p \in Invocation, Journey(p), AttemptsUpTo(Own(p), clock),
           \/ \E created \in BOOLEAN, resolution \in {Never} \cup 0..clock :
                  GeospatialFirst(p, created, resolution)
           \/ GeospatialRealign(p)
    PROVE  Journey(p)'
<1>1. /\ UNCHANGED <<attempts, args, mem, clock>> /\ pc[p] \in Staging
      /\ loc[p].stage = "geospatial" /\ clock \in Nat
  BY DEF GeospatialFirst, GeospatialRealign, Works, At, Staging, database, TypeOK, Journey, Track
<1>2. loc[p] \in Local /\ loc[p].pit \in [Artifact -> Stamp]
  BY RowOfCopy DEF Local
<1>3. pc'[p] \in {"georealign", "georepeat"}
  BY DEF GeospatialFirst, GeospatialRealign, Goto, TypeOK
<1>4. /\ loc'[p].seen = loc[p].seen /\ loc'[p].failures = loc[p].failures
      /\ loc'[p].stage = loc[p].stage
      /\ \/ loc'[p].cutoff = loc[p].cutoff /\ loc'[p].pit = loc[p].pit
         \/ /\ loc'[p].cutoff = clock
            /\ loc'[p].pit["dedup"] = clock /\ loc'[p].pit["premium"] = clock
  <2>1. ASSUME NEW created \in BOOLEAN, NEW resolution \in {Never} \cup 0..clock,
               GeospatialFirst(p, created, resolution)
        PROVE  <1>4!:
    <3> DEFINE locals == [loc[p] EXCEPT !.created = created, !.resolution = resolution]
    <3>1. /\ locals.seen = loc[p].seen /\ locals.failures = loc[p].failures
          /\ locals.stage = loc[p].stage /\ locals.cutoff = loc[p].cutoff
          /\ locals.pit = loc[p].pit
      BY <1>2 DEF Local
    <3>2. loc'[p] = locals
      BY <2>1 DEF GeospatialFirst, TypeOK
    <3> HIDE DEF locals
    <3> QED BY <3>1, <3>2
  <2>2. ASSUME GeospatialRealign(p) PROVE <1>4!:
    <3> DEFINE locals == [loc[p] EXCEPT !.cutoff = clock, !.pit["dedup"] = clock,
                                        !.pit["premium"] = clock]
    <3>1. /\ locals.seen = loc[p].seen /\ locals.failures = loc[p].failures
          /\ locals.stage = loc[p].stage /\ locals.cutoff = clock
          /\ locals.pit["dedup"] = clock /\ locals.pit["premium"] = clock
      BY <1>2 DEF Local, Artifact
    <3>2. loc'[p] = locals
      BY <2>2 DEF GeospatialRealign, TypeOK
    <3> HIDE DEF locals
    <3> QED BY <3>1, <3>2
  <2> QED BY <2>1, <2>2
<1>5. /\ loc[p].pit["dedup"] = loc[p].cutoff /\ loc[p].pit["premium"] = loc[p].cutoff
      /\ loc[p].cutoff \in Nat /\ AttemptsUpTo(Own(p), loc[p].cutoff)
  BY <1>1, BuiltStages, Positions DEF Journey, Chain, CutBy
<1>6. Track(p)'
  BY <1>1, <1>3, <1>4 DEF Journey, Track, Named, DoneBefore, Staging, Working
<1>7. Chain(p)'
  <2>1. loc'[p].cutoff \in Nat /\ AttemptsUpTo(Own(p), loc'[p].cutoff)
    BY <1>1, <1>4, <1>5
  <2>2. AttemptsUpTo(Own(p), loc[p].cutoff)'
    BY <1>1, <2>1 DEF AttemptsUpTo, Own
  <2>3. \A a \in BuiltBefore["geospatial"] : loc'[p].pit[a] = loc'[p].cutoff
    BY <1>4, <1>5, BuiltStages
  <2> QED BY <1>1, <1>3, <1>4, <2>1, <2>2, <2>3 DEF Chain, CutBy, ResolvedBy, Staging
<1>8. Swept(p)'
  BY <1>1, <1>3, <1>4, SweptOn DEF Journey, Staging
<1> QED BY <1>6, <1>7, <1>8 DEF Journey

\* The geospatial stage closes on a cutoff that covers the newest resolution.
LEMMA GeospatialDone ==
    ASSUME TypeOK, NEW p \in Invocation, Journey(p), NEW locals,
           pc[p] \in {"georealign", "georepeat"},
           StageDone(p, "geospatial", locals, "enter"),
           locals.stage = "dashboard", locals.seen = loc[p].seen,
           locals.failures = loc[p].failures, locals.cutoff = loc[p].cutoff,
           locals.pit = loc[p].pit, locals.resolution <= loc[p].cutoff
    PROVE  Journey(p)'
<1>1. /\ pc[p] \in Staging /\ loc[p].stage = "geospatial"
      /\ {"dashboard", "geospatial"} \subseteq Stage
  BY DEF Journey, Track, Staging, Stage
<1>2. /\ loc[p].pit["dedup"] = loc[p].cutoff /\ loc[p].pit["premium"] = loc[p].cutoff
      /\ loc[p].cutoff \in Nat /\ AttemptsUpTo(Own(p), loc[p].cutoff)
  BY <1>1, BuiltStages, Positions DEF Journey, Chain, CutBy
<1>3. \A a \in BuiltBefore["dashboard"] : locals.pit[a] = locals.cutoff
  BY <1>2, BuiltStages
<1>4. Position["dashboard"] = Position["geospatial"] + 1
  BY Positions
<1> QED BY <1>1, <1>2, <1>3, <1>4, WorkedJourney

LEMMA GeospatialCloses ==
    ASSUME TypeOK, NEW p \in Invocation, Journey(p),
           \/ GeospatialAligned(p)
           \/ \E created \in BOOLEAN, resolution \in {Never} \cup 0..clock :
                  GeospatialRepeat(p, created, resolution)
    PROVE  Journey(p)'
<1>0. /\ loc[p] \in Local /\ loc[p].resolution \in Int /\ loc[p].stage \in Stage
      /\ mem[p] \in Row /\ clock \in Nat
  BY RowOfCopy DEF Local, Stamp, Never, TypeOK
<1>1. CASE GeospatialAligned(p)
  <2> DEFINE locals == [loc[p] EXCEPT !.stage = "dashboard"]
  <2>1. /\ locals.stage = "dashboard" /\ locals.seen = loc[p].seen
        /\ locals.failures = loc[p].failures /\ locals.cutoff = loc[p].cutoff
        /\ locals.pit = loc[p].pit /\ locals.resolution = loc[p].resolution
    BY <1>0 DEF Local
  <2>2. StageDone(p, "geospatial", locals, "enter") /\ pc[p] = "georealign"
    BY <1>1 DEF GeospatialAligned, At
  <2> HIDE DEF locals
  <2>3. loc[p].stage = "geospatial" /\ pc[p] \in Staging
    BY <2>2 DEF Journey, Track, Staging
  <2>4. loc[p].cutoff \in Nat
    BY <2>3, Positions DEF Journey, Chain, CutBy
  <2>5. loc[p].resolution <= loc[p].cutoff
    BY <1>0, <1>1, <2>4 DEF GeospatialAligned, RequiresAdvance
  <2> QED BY <2>1, <2>2, <2>5, GeospatialDone
<1>2. ASSUME NEW created \in BOOLEAN, NEW resolution \in {Never} \cup 0..clock,
             GeospatialRepeat(p, created, resolution)
      PROVE  Journey(p)'
  <2>1. pc[p] = "georepeat" /\ loc[p].stage = "geospatial" /\ pc[p] \in Staging
    BY <1>2 DEF GeospatialRepeat, At, Journey, Track, Staging
  <2>2. loc[p].cutoff \in Nat
    BY <2>1, Positions DEF Journey, Chain, CutBy
  <2>3. CASE RequiresAdvance(created, resolution, loc[p].cutoff)
    <3>1. Seal(p, mem[p], "geospatial", status_by_stage["geospatial"])
      BY <1>2, <2>3 DEF GeospatialRepeat, status_by_stage
    <3>2. DoneBefore(mem[p], "geospatial")
      BY <2>1 DEF Journey, Track
    <3> QED BY <1>0, <2>1, <3>1, <3>2, SealJourney
  <2>4. CASE ~RequiresAdvance(created, resolution, loc[p].cutoff)
    <3> DEFINE locals == [loc[p] EXCEPT !.resolution = resolution, !.created = FALSE,
                                        !.stage = "dashboard"]
    <3>1. /\ locals.stage = "dashboard" /\ locals.seen = loc[p].seen
          /\ locals.failures = loc[p].failures /\ locals.cutoff = loc[p].cutoff
          /\ locals.pit = loc[p].pit /\ locals.resolution = resolution
      BY <1>0 DEF Local
    <3>2. StageDone(p, "geospatial", locals, "enter")
      BY <1>2, <2>4 DEF GeospatialRepeat, StageDone
    <3>3. resolution <= loc[p].cutoff
      <4>1. resolution \in Int
        BY <1>0 DEF Never
      <4> QED BY <2>2, <2>4, <4>1 DEF RequiresAdvance
    <3> HIDE DEF locals
    <3> QED BY <2>1, <3>1, <3>2, <3>3, GeospatialDone
  <2> QED BY <2>3, <2>4
<1> QED BY <1>1, <1>2

LEMMA BuildingJourney ==
    ASSUME TypeOK, NEW p \in Invocation, Building(p), Journey(p), AttemptsUpTo(Own(p), clock)
    PROVE  Journey(p)'
BY EnterStageJourney, FailingJourney, GreenContinuityJourney, DedupJourney,
   DedupContinuityJourney, PremiumJourney, GeospatialRealigns, GeospatialCloses,
   DashboardJourney, ReadinessJourney DEF Building

LEMMA SealingJourney ==
    ASSUME TypeOK, NEW p \in Invocation, Sealing(p), Journey(p)
    PROVE  Journey(p)'
<1>1. ASSUME NEW status \in Completed, Finish(p, status) PROVE Journey(p)'
  <2>1. pc[p] = "final" /\ UNCHANGED <<attempts, args, loc>>
    BY <1>1 DEF Finish, At, database
  <2>2. /\ mem'[p].status = status /\ mem'[p].health = OperationalHealth(loc[p].failures)
        /\ mem'[p].cutoff = loc[p].cutoff /\ mem'[p].pit = loc[p].pit
        /\ mem'[p].resolution = loc[p].resolution /\ pc'[p] = "succeeded"
    BY <1>1, FinishEffect
  <2>3. Track(p)'
    BY <2>2 DEF Track, Named, Completed, Failed, Working, Staging
  <2>4. Chain(p)'
    BY <2>1, <2>2 DEF Journey, Chain, CutBy, ResolvedBy, Staging, AttemptsUpTo, Own
  <2>5. loc[p].failures = {} <=> AllCollected(Own(p))
    <3>1. /\ loc[p].failures \subseteq loc[p].seen /\ loc[p].seen = Source
          /\ \A s \in loc[p].failures : ~PriorSuccess(Own(p), s)
          /\ \A s \in loc[p].seen : PriorSuccess(Own(p), s) \/ s \in loc[p].failures
      BY <2>1 DEF Journey, Swept, Working
    <3> QED BY <3>1 DEF AllCollected
  <2>6. mem'[p].health = "GREEN" <=> AllCollected(Own(p))
    BY <2>2, <2>5 DEF OperationalHealth
  <2>7. AllCollected(Own(p))' <=> AllCollected(Own(p))
    BY <2>1 DEF AllCollected, PriorSuccess, Own
  <2>8. Swept(p)'
    BY <2>2, <2>6, <2>7 DEF Swept, Staging, Working
  <2> QED BY <2>3, <2>4, <2>8 DEF Journey
<1>2. CASE AnnounceFailure(p) \/ AnnounceSuccess(p)
  <2>1. pc'[p] = "release" /\ mem'[p] = mem[p]
    BY <1>2 DEF AnnounceFailure, AnnounceSuccess, Goto, TypeOK
  <2> QED BY <2>1, RestingJourney DEF Resting, Journey, Track
<1>3. CASE ReleaseLock(p)
  BY <1>3, ExitEffect, GoneJourney DEF ReleaseLock
<1> QED BY <1>1, <1>2, <1>3 DEF Sealing

-----------------------------------------------------------------------------
(* The rows that the journeys leave behind.                                *)

ResultTrue(m, c) ==
    /\ m.health = "GREEN" <=> AllCollected(c)
    /\ AttemptsUpTo(c, m.cutoff) /\ m.resolution <= m.cutoff

RowTrue(c) == Named(row[c]) /\ (row[c].status \in Completed => ResultTrue(row[c], c))

\* The inductive strengthening of the four properties of what a cycle leaves.
Journeys ==
    /\ \A p \in Invocation : Journey(p)
    /\ \A c \in Cycle : RowTrue(c) /\ AttemptsUpTo(c, clock)

\* Attempts may only be appended to the cycle of a collector, with the time of the clock.
LEMMA AttemptsOfAStep ==
    ASSUME TypeOK, Attempting, NEW p \in Invocation, Step(p)
    PROVE  /\ Apart(p)
           /\ \A c \in Cycle : AttemptsUpTo(c, clock) => AttemptsUpTo(c, clock)'
           /\ \A c \in Cycle : attempts'[c] = attempts[c] \/ (pc[p] = "collecting" /\ c = Own(p))
<1>1. Apart(p) /\ (attempts' = attempts \/ \E ok \in BOOLEAN : RecordAttempt(p, ok))
  <2>1. CASE Collecting(p)
    BY <2>1, CollectingApart DEF Collecting, CohortResolved, BeginCollection, SkipCollected,
       StartSource, AfterSource, FinishCollection, database
  <2> QED BY <2>1, BuildingApart, QuietApart DEF Step
<1>2. clock' = clock
  BY <1>1 DEF Apart
<1>3. CASE attempts' = attempts
  BY <1>1, <1>2, <1>3 DEF AttemptsUpTo
<1>4. ASSUME NEW ok \in BOOLEAN, RecordAttempt(p, ok), NEW c \in Cycle
      PROVE  /\ AttemptsUpTo(c, clock) => AttemptsUpTo(c, clock)'
             /\ attempts'[c] = attempts[c] \/ (pc[p] = "collecting" /\ c = Own(p))
  <2>1. CASE c # Own(p)
    <3>1. attempts'[c] = attempts[c]
      BY <1>4, <2>1, AttemptRecorded
    <3> QED BY <1>2, <3>1 DEF AttemptsUpTo
  <2>2. CASE c = Own(p)
    <3>1. pc[p] = "collecting" /\ loc[p].source \in Source
      BY <1>4, AttemptRecorded
    <3>2. ASSUME AttemptsUpTo(c, clock), NEW s \in Source, NEW i \in DOMAIN attempts'[c][s]
          PROVE  attempts'[c][s][i].at <= clock
      <4>1. CASE s # loc[p].source
        <5>1. attempts'[c][s] = attempts[c][s]
          BY <1>4, <2>2, <4>1, AttemptRecorded
        <5> QED BY <3>2, <5>1 DEF AttemptsUpTo
      <4>2. CASE s = loc[p].source
        <5>1. \/ attempts'[c][s][i].at = clock
              \/ i \in DOMAIN attempts[c][s] /\ attempts'[c][s][i] = attempts[c][s][i]
          BY <1>4, <2>2, <3>2, <4>2, AttemptRecorded
        <5>2. clock \in Nat
          BY DEF TypeOK
        <5> QED BY <3>2, <5>1, <5>2 DEF AttemptsUpTo
      <4> QED BY <4>1, <4>2
    <3> QED BY <1>2, <2>2, <3>1, <3>2 DEF AttemptsUpTo
  <2> QED BY <2>1, <2>2
<1> QED BY <1>1, <1>3, <1>4

LEMMA RowsOfAStep ==
    ASSUME TypeOK, Exclusion, Stored, Attempting, Journeys, NEW p \in Invocation, Step(p),
           NEW c \in Cycle
    PROVE  RowTrue(c)'
<1>1. RowTrue(c) /\ Journey(p) /\ Pinned(p) /\ OpenRow(p)
  BY DEF Journeys, Stored
<1>2. CASE row' = row
  <2>1. CASE attempts'[c] = attempts[c]
    BY <1>1, <1>2, <2>1 DEF RowTrue, Named, DoneBefore, ResultTrue, AllCollected, PriorSuccess,
       AttemptsUpTo
  <2>2. CASE pc[p] = "collecting" /\ c = Own(p)
    <3>1. row[c].status \notin Completed
      BY <1>1, <2>2 DEF OpenRow, Ahead, Begun, Working
    <3> QED BY <1>1, <1>2, <3>1 DEF RowTrue, Named, DoneBefore
  <2> QED BY <2>1, <2>2, AttemptsOfAStep
<1>3. CASE CreateCycle(p)
  <2> DEFINE planned == [NoRow EXCEPT !.status = "PLANNED", !.release = args[p].release]
  <2>1. planned.status = "PLANNED"
    BY DEF NoRow
  <2>2. row'[c] = row[c] \/ row'[c] = planned
    <3> HIDE DEF planned
    <3> QED BY <1>3 DEF CreateCycle, TypeOK, planned
  <2> HIDE DEF planned
  <2>3. attempts' = attempts
    BY <1>3 DEF CreateCycle, database
  <2>4. CASE row'[c] = row[c]
    BY <1>1, <2>3, <2>4 DEF RowTrue, Named, DoneBefore, ResultTrue, AllCollected, PriorSuccess,
       AttemptsUpTo
  <2>5. CASE row'[c] = planned
    BY <2>1, <2>5 DEF RowTrue, Named, Failed, Completed
  <2> QED BY <2>2, <2>4, <2>5
<1>4. CASE SaveWrite(p)
  <2>1. /\ attempts' = attempts /\ save[p] = "write"
        /\ row'[c] = row[c] \/ (c = Own(p) /\ row'[c] = mem[p])
    BY <1>4 DEF SaveWrite, TypeOK, database
  <2>2. CASE row'[c] = row[c]
    BY <1>1, <2>1, <2>2 DEF RowTrue, Named, DoneBefore, ResultTrue, AllCollected, PriorSuccess,
       AttemptsUpTo
  <2>3. CASE c = Own(p) /\ row'[c] = mem[p]
    <3>1. Named(mem[p])
      BY <1>1 DEF Journey, Track
    <3>2. mem[p].status \in Completed => pc[p] = "succeeded"
      BY <1>1, <2>1 DEF Pinned, Early
    <3>3. mem[p].status \in Completed => ResultTrue(mem[p], c)
      BY <1>1, <2>3, <3>2 DEF Journey, Chain, Swept, ResultTrue
    <3>4. ResultTrue(mem[p], c) => ResultTrue(mem[p], c)'
      <4>1. mem' = mem
        BY <1>4 DEF SaveWrite
      <4> QED BY <2>1, <4>1 DEF ResultTrue, AllCollected, PriorSuccess, AttemptsUpTo
    <3>5. mem' = mem
      BY <1>4 DEF SaveWrite
    <3>6. RowTrue(c)' <=> Named(mem[p]) /\ (mem[p].status \in Completed => ResultTrue(mem[p], c)')
      BY <2>3, <3>5 DEF RowTrue, ResultTrue
    <3> QED BY <3>1, <3>3, <3>4, <3>6
  <2> QED BY <2>1, <2>2, <2>3
<1>5. row' = row \/ CreateCycle(p) \/ SaveWrite(p)
  <2>1. CASE Locking(p) \/ Collecting(p) \/ Building(p) \/ Sealing(p)
    BY <2>1, LockingCarries, CollectingCarries, BuildingCarries, SealingCarries DEF Carries
  <2>2. CASE Admission(p)
    BY <2>2 DEF Admission, LoadRow, ReplayCompleted, RefuseRetry, AdmitRetry, AdmitNew,
       CreateCollides
  <2>3. CASE Saving(p)
    BY <2>3 DEF Saving, SaveCheck, SaveRefused
  <2> QED BY <2>1, <2>2, <2>3 DEF Step
<1> QED BY <1>2, <1>3, <1>4, <1>5

LEMMA JourneysStep ==
    ASSUME TypeOK, Exclusion, Stored, Attempting, Journeys, [Next]_vars
    PROVE  Journeys'
<1>1. ASSUME NEW p \in Invocation, Apart(p), Journey(p)', NEW q \in Invocation PROVE Journey(q)'
  BY <1>1, OthersJourney DEF Journeys, Journey
<1>2. ASSUME NEW p \in Invocation, Step(p) PROVE Journeys'
  <2>1. Journey(p) /\ Own(p) \in Cycle /\ AttemptsUpTo(Own(p), clock)
        /\ \A c \in Cycle : Named(row[c])
    BY RowOfCopy DEF Journeys, RowTrue
  <2>2. Journey(p)'
    BY <1>2, <2>1, AdmissionJourney, LockingJourney, SavingJourney, CollectingJourney,
       BuildingJourney, SealingJourney DEF Step
  <2>3. Apart(p) /\ \A c \in Cycle : AttemptsUpTo(c, clock)'
    BY <1>2, AttemptsOfAStep DEF Journeys
  <2>4. \A c \in Cycle : RowTrue(c)'
    BY <1>2, RowsOfAStep
  <2> QED BY <1>1, <2>2, <2>3, <2>4 DEF Journeys
<1>3. ASSUME UNCHANGED <<row, attempts, args>>, clock' \in Nat, clock <= clock'
      PROVE  \A c \in Cycle : RowTrue(c)' /\ AttemptsUpTo(c, clock)'
  <2>1. \A c \in Cycle : RowTrue(c)'
    BY <1>3 DEF Journeys, RowTrue, Named, DoneBefore, ResultTrue, AllCollected, PriorSuccess,
       AttemptsUpTo
  <2>2. ASSUME NEW c \in Cycle, NEW s \in Source, NEW i \in DOMAIN attempts[c][s]
        PROVE  attempts[c][s][i].at <= clock'
    <3>1. attempts[c][s] \in Seq(Attempt) /\ clock \in Nat
      BY DEF TypeOK
    <3>2. attempts[c][s][i].at \in Nat
      <4>1. \A seq \in Seq(Attempt) : \A k \in DOMAIN seq : seq[k] \in Attempt
        OBVIOUS
      <4>2. attempts[c][s][i] \in Attempt
        BY <3>1, <4>1
      <4> QED BY <4>2 DEF Attempt
    <3>3. attempts[c][s][i].at <= clock
      BY DEF Journeys, AttemptsUpTo
    <3> QED BY <1>3, <3>1, <3>2, <3>3
  <2> QED BY <1>3, <2>1, <2>2 DEF AttemptsUpTo
<1>4. ASSUME NEW p \in Invocation, Crash(p) PROVE Journeys'
  <2>1. UNCHANGED <<row, attempts, args, clock>> /\ Exit(p) /\ clock \in Nat
    BY <1>4 DEF Crash, database, TypeOK
  <2>2. Apart(p) /\ Journey(p)'
    BY <2>1, ExitEffect, GoneJourney DEF Apart
  <2> QED BY <1>1, <1>3, <2>1, <2>2 DEF Journeys
<1>5. CASE Tick \/ UNCHANGED vars
  <2>1. /\ UNCHANGED <<row, attempts, args, pc, save, mem, loc>>
        /\ clock' \in Nat /\ clock <= clock'
    BY <1>5 DEF Tick, vars, database, TypeOK
  <2>2. ASSUME NEW p \in Invocation PROVE Journey(p)'
    <3>1. Journey(p)
      BY DEF Journeys
    <3>2. Track(p)'
      BY <2>1, <3>1 DEF Journey, Track, Named, DoneBefore
    <3>3. Swept(p)'
      BY <2>1, <3>1 DEF Journey, Swept, AllCollected, PriorSuccess, Own
    <3>4. Chain(p)'
      BY <2>1, <3>1 DEF Journey, Chain, CutBy, ResolvedBy, AttemptsUpTo, Own
    <3> QED BY <3>2, <3>3, <3>4 DEF Journey
  <2> QED BY <1>3, <2>1, <2>2 DEF Journeys
<1> QED BY <1>2, <1>4, <1>5 DEF Next

\* The inductive invariant of the journeys, behind the theorems below.
THEOREM JourneysAreTrue == Spec => []Journeys
<1>1. Init => Journeys
  <2> SUFFICES ASSUME Init PROVE Journeys
    OBVIOUS
  <2>1. ASSUME NEW p \in Invocation PROVE Journey(p)
    BY DEF Init, Journey, Track, Named, Chain, CutBy, ResolvedBy, Swept, Staging, Working, NoRow,
           NoLocal, Failed
  <2>2. ASSUME NEW c \in Cycle PROVE RowTrue(c) /\ AttemptsUpTo(c, clock)
    BY DEF Init, RowTrue, Named, NoRow, Failed, Completed, AttemptsUpTo
  <2> QED BY <2>1, <2>2 DEF Journeys
<1>2. TypeOK /\ Exclusion /\ Stored /\ Attempting /\ Journeys /\ [Next]_vars => Journeys'
  BY JourneysStep
<1> QED BY <1>1, <1>2, TypeCorrect, ExclusionInvariant, CopiesAreTrue, CollectorsKnow, PTL
    DEF Spec

\* A cycle is sealed GREEN only when every source of the cohort, however many, has a successful
\* attempt in it, made by this invocation or one before it, and AMBER only for a reason.
THEOREM GreenIsComplete == Spec => []GreenComplete
<1>1. Journeys => GreenComplete
  <2> SUFFICES ASSUME Journeys, NEW c \in Cycle, row[c].status \in Completed
               PROVE  LET succeeded == {s \in Source :
                                           \E i \in DOMAIN attempts[c][s] : attempts[c][s][i].ok}
                      IN  /\ row[c].health = "GREEN" => succeeded = Source
                          /\ row[c].health = "AMBER" =>
                                 succeeded # Source \/ row[c].fresh # Source
    BY DEF GreenComplete
  <2>1. row[c].health = "GREEN" <=> AllCollected(c)
    BY DEF Journeys, RowTrue, ResultTrue
  <2> QED BY <2>1 DEF AllCollected, PriorSuccess
<1> QED BY <1>1, JourneysAreTrue, PTL

\* Contract section 5, for every cohort and every number of retries: no collection of a
\* completed cycle and no resolution it pins is later than its cutoff.
THEOREM CutoffsCoverEvidence == Spec => []CutoffCoversEvidence
<1>1. Journeys => CutoffCoversEvidence
  BY DEF Journeys, RowTrue, ResultTrue, AttemptsUpTo, CutoffCoversEvidence
<1> QED BY <1>1, JourneysAreTrue, PTL

\* The status of a failed row names the first of its stages that did not succeed.
THEOREM FailuresAreNamed == Spec => []FailedStageNamed
<1>1. Journeys => FailedStageNamed
  <2>1. /\ DOMAIN STAGE_ORDER = 1..9
        /\ \A i \in 1..9 : STAGE_ORDER[i] \in Stage /\ Position[STAGE_ORDER[i]] = i
        /\ \A s \in Stage : STAGE_ORDER[Position[s]] = s
    BY DEF STAGE_ORDER, Position, Stage
  <2> SUFFICES ASSUME Journeys, NEW c \in Cycle, row[c].status \in Failed
               PROVE  \E i \in DOMAIN STAGE_ORDER :
                          /\ row[c].stages[STAGE_ORDER[i]] = "FAILED"
                          /\ 1..(i - 1) \subseteq
                                 {j \in DOMAIN STAGE_ORDER :
                                      row[c].stages[STAGE_ORDER[j]] = "SUCCEEDED"}
                          /\ \/ status_by_stage[STAGE_ORDER[i]] = row[c].status
                             \/ /\ STAGE_ORDER[i] = "dedup"
                                /\ row[c].status = "FAILED_CONTINUITY"
                                /\ row[c].stages["dedup_continuity"] = "FAILED"
    BY DEF FailedStageNamed
  <2>2. PICK stage \in Stage :
            /\ row[c].stages[stage] = "FAILED" /\ DoneBefore(row[c], stage)
            /\ \/ status_by_stage[stage] = row[c].status
               \/ /\ stage = "dedup" /\ row[c].status = "FAILED_CONTINUITY"
                  /\ row[c].stages["dedup_continuity"] = "FAILED"
    BY DEF Journeys, RowTrue, Named
  <2> DEFINE i == Position[stage]
  <2>3. i \in 1..9 /\ STAGE_ORDER[i] = stage
    BY <2>1, Positions
  <2>4. \A j \in 1..(i - 1) : j \in 1..9 /\ row[c].stages[STAGE_ORDER[j]] = "SUCCEEDED"
    BY <2>1, <2>2, <2>3 DEF DoneBefore
  <2> HIDE DEF i
  <2> QED BY <2>1, <2>2, <2>3, <2>4
<1> QED BY <1>1, JourneysAreTrue, PTL

\* Whatever the other invocations do, none of the saves of the one that holds the lock is
\* refused after its first.
THEOREM OwnersSave == Spec => []OwnerSaveAccepted
<1>1. Stored /\ Journeys => OwnerSaveAccepted
  <2> SUFFICES ASSUME Stored, Journeys, NEW p \in Invocation, save[p] = "check",
                      pc[p] \in (Working \cup Closing) \ {"cohort", "release"}
               PROVE  SavePermitted(p)
    BY DEF OwnerSaveAccepted
  <2>1. Pinned(p) /\ OpenRow(p) /\ Journey(p)
    BY DEF Stored, Journeys
  <2>2. row[Own(p)].status \notin Completed
    BY <2>1 DEF OpenRow, Ahead, Begun, Closing
  <2>3. row[Own(p)].release = mem[p].release
    BY <2>1 DEF Pinned, Early, Working, Closing
  <2>4. mem[p].cutoff # Never => pc[p] = "succeeded"
    BY <2>1 DEF Pinned, Early, Working, Closing
  <2>5. Clean(mem[p])
    BY <2>1, <2>4 DEF Clean, Journey, Chain
  <2> QED BY <2>2, <2>3, <2>5 DEF SavePermitted
<1> QED BY <1>1, CopiesAreTrue, JourneysAreTrue, PTL

=============================================================================
