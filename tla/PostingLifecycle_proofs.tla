------------------------ MODULE PostingLifecycle_proofs ------------------------
(***************************************************************************)
(* Proofs about PostingLifecycle for every set of postings and collectors, *)
(* every confirmation delay and any number of runs.                        *)
(***************************************************************************)
EXTENDS PostingLifecycle, FiniteSetTheorems, TLAPS

-----------------------------------------------------------------------------
(* Type correctness.                                                       *)

LEMMA NoLocalTyped == NoLocal \in Local
BY DEF NoLocal, Local, Stamp, Never

LEMMA ThisRunTyped ==
    ASSUME TypeOK, NEW c \in Collector, pc[c] # "idle"
    PROVE  /\ loc[c].run \in DOMAIN runs
           /\ loc[c].run \in Nat
           /\ ThisRun(c) \in Run
           /\ DOMAIN runs = 1..Len(runs)
BY DEF TypeOK, ThisRun, Local

\* The table of runs after the row of one run changed.
LEMMA RunsTyped ==
    ASSUME TypeOK, NEW c \in Collector, pc[c] # "idle", NEW run \in Run,
           runs' = [runs EXCEPT ![loc[c].run] = run]
    PROVE  runs' \in Seq(Run) /\ DOMAIN runs' = DOMAIN runs
BY ThisRunTyped DEF TypeOK

\* The step of one collector that stays in its run.
LEMMA StayTyped ==
    ASSUME TypeOK, NEW c \in Collector, NEW label \in Label, NEW l \in Local,
           runs' \in Seq(Run), DOMAIN runs' = DOMAIN runs,
           posting' \in [Posting -> PostingRow], events' \in [Posting -> Seq(Event)],
           clock' = clock, pc' = [pc EXCEPT ![c] = label], loc' = [loc EXCEPT ![c] = l],
           label # "idle" => l.run \in DOMAIN runs,
           label \in {"detail", "create"} => l.id \in Posting,
           label \in {"detail", "create", "lifecycle"} => l.at \in Nat
    PROVE  TypeOK'
<1>1. loc' \in [Collector -> Local] /\ pc' \in [Collector -> Label]
  BY DEF TypeOK
<1>2. ASSUME NEW d \in Collector
      PROVE  /\ pc'[d] # "idle" => loc'[d].run \in DOMAIN runs'
             /\ pc'[d] \in {"detail", "create"} => loc'[d].id \in Posting
             /\ pc'[d] \in {"detail", "create", "lifecycle"} => loc'[d].at \in Nat
  <2>1. CASE d = c
    BY <2>1 DEF TypeOK
  <2>2. CASE d # c
    BY <2>2 DEF TypeOK
  <2> QED BY <2>1, <2>2
<1> QED BY <1>1, <1>2 DEF TypeOK

LEMMA ReturnTyped ==
    ASSUME TypeOK, NEW c \in Collector, Return(c), runs' \in Seq(Run),
           DOMAIN runs' = DOMAIN runs, UNCHANGED <<clock, posting, events>>
    PROVE  TypeOK'
<1>1. "idle" \in Label
  BY DEF Label
<1> QED BY <1>1, NoLocalTyped, StayTyped DEF Return, Goto, TypeOK

LEMMA FailTyped ==
    ASSUME TypeOK, NEW c \in Collector, pc[c] # "idle",
           NEW health \in {"DEGRADED", "OUTAGE"}, Fail(c, health)
    PROVE  TypeOK'
<1> DEFINE run == [ThisRun(c) EXCEPT !.status = "FAILED", !.complete = FALSE,
                                     !.health = health]
<1>1. run \in Run
  BY ThisRunTyped DEF Run
<1>2. runs' = [runs EXCEPT ![loc[c].run] = run]
  BY ThisRunTyped DEF Fail, ThisRun, Run
<1>3. runs' \in Seq(Run) /\ DOMAIN runs' = DOMAIN runs
  <2> HIDE DEF run
  <2> QED BY <1>1, <1>2, RunsTyped
<1> QED BY <1>3, ReturnTyped DEF Fail

\* A committed sighting.
LEMMA CommitTyped ==
    ASSUME TypeOK, NEW c \in Collector, NEW x \in Posting,
           NEW type \in LifecycleStatus \ {"UNKNOWN"}, NEW at \in Nat, Commit(x, c, type, at)
    PROVE  events' \in [Posting -> Seq(Event)]
<1> DEFINE e == [run |-> loc[c].run, type |-> type, at |-> at]
<1>1. e \in Event
  BY DEF Event, TypeOK, Local
<1>2. Append(events[x], e) \in Seq(Event)
  <2> HIDE DEF e
  <2> QED BY <1>1 DEF TypeOK
<1> QED BY <1>2 DEF Commit, TypeOK

LEMMA StartTyped ==
    ASSUME TypeOK, NEW c \in Collector, NEW wanted \in SUBSET Posting, Start(c, wanted)
    PROVE  TypeOK'
<1> DEFINE run == [full |-> wanted = {}, status |-> "RUNNING", health |-> "UNKNOWN",
                   complete |-> FALSE, listing |-> {}, listedAt |-> Never]
           l == [NoLocal EXCEPT !.run = Len(runs) + 1, !.wanted = wanted]
<1>1. run \in Run
  BY DEF Run, Stamp, Never
<1>2. runs' = Append(runs, run)
  BY DEF Start
<1>3. runs' \in Seq(Run) /\ DOMAIN runs' = 1..(Len(runs) + 1) /\ DOMAIN runs = 1..Len(runs)
  <2> HIDE DEF run
  <2> QED BY <1>1, <1>2 DEF TypeOK
<1>4. l \in Local /\ l.run = Len(runs) + 1
  <2>1. Len(runs) \in Nat
    BY DEF TypeOK
  <2> DEFINE n == Len(runs) + 1
  <2>2. n \in Nat
    BY <2>1
  <2>3. l = [[NoLocal EXCEPT !.run = n] EXCEPT !.wanted = wanted]
    OBVIOUS
  <2> HIDE DEF l, n
  <2>4. l \in Local /\ l.run = n
    BY <2>2, <2>3, NoLocalTyped DEF Local
  <2> QED BY <2>4 DEF n
<1>5. /\ loc' = [loc EXCEPT ![c] = l] /\ pc' = [pc EXCEPT ![c] = "listing"]
      /\ UNCHANGED <<clock, posting, events>>
  BY DEF Start, Goto
<1>6. ASSUME NEW d \in Collector
      PROVE  /\ pc'[d] # "idle" => loc'[d].run \in DOMAIN runs'
             /\ pc'[d] \in {"detail", "create"} => loc'[d].id \in Posting
             /\ pc'[d] \in {"detail", "create", "lifecycle"} => loc'[d].at \in Nat
  <2>0. Len(runs) \in Nat
    BY DEF TypeOK
  <2> HIDE DEF l, run
  <2>1. CASE d = c
    BY <1>3, <1>4, <1>5, <2>0, <2>1 DEF TypeOK
  <2>2. CASE d # c
    BY <1>3, <1>5, <2>0, <2>2 DEF TypeOK
  <2> QED BY <2>1, <2>2
<1>7. loc' \in [Collector -> Local] /\ pc' \in [Collector -> Label]
  <2> HIDE DEF l
  <2> QED BY <1>4, <1>5 DEF TypeOK, Label
<1> QED BY <1>3, <1>5, <1>6, <1>7 DEF TypeOK

LEMMA ListingTyped ==
    ASSUME TypeOK, NEW c \in Collector, NEW listed \in SUBSET Posting,
           FetchListing(c, listed)
    PROVE  TypeOK'
<1> DEFINE run == [ThisRun(c) EXCEPT !.listing = listed, !.listedAt = clock]
           scoped == IF Full(c) THEN listed ELSE loc[c].wanted
           l == [loc[c] EXCEPT !.scoped = scoped, !.left = scoped]
<1>1. pc[c] = "listing"
  BY DEF FetchListing
<1>2. run \in Run
  BY <1>1, ThisRunTyped DEF Run, TypeOK, Stamp
<1>3. runs' = [runs EXCEPT ![loc[c].run] = run]
  BY <1>1, ThisRunTyped DEF FetchListing, ThisRun, Run
<1>4. runs' \in Seq(Run) /\ DOMAIN runs' = DOMAIN runs
  <2> HIDE DEF run
  <2> QED BY <1>1, <1>2, <1>3, RunsTyped
<1>5. scoped \in SUBSET Posting
  BY DEF TypeOK, Local
<1>6. l \in Local /\ l.run = loc[c].run
  <2> HIDE DEF scoped
  <2> QED BY <1>5 DEF TypeOK, Local
<1>7. loc' = [loc EXCEPT ![c] = l]
  BY DEF FetchListing, TypeOK, Local
<1>8. "details" \in Label /\ l.run \in DOMAIN runs
  BY <1>1, <1>6, ThisRunTyped DEF Label
<1> QED
  <2> HIDE DEF l
  <2> QED BY <1>4, <1>6, <1>7, <1>8, StayTyped DEF FetchListing, Goto, TypeOK

LEMMA DetailTyped ==
    ASSUME TypeOK, NEW c \in Collector, NEW x \in Posting, BeginDetail(c, x)
    PROVE  TypeOK'
<1> DEFINE l == [loc[c] EXCEPT !.id = x, !.at = clock, !.left = @ \ {x}]
<1>1. l \in Local /\ l.run = loc[c].run /\ l.id = x /\ l.at \in Nat
  BY DEF TypeOK, Local, Stamp
<1>2. loc' = [loc EXCEPT ![c] = l]
  BY DEF BeginDetail, TypeOK, Local
<1>3. "detail" \in Label /\ l.run \in DOMAIN runs
  BY <1>1, ThisRunTyped DEF Label, BeginDetail
<1> QED
  <2> HIDE DEF l
  <2> QED BY <1>1, <1>2, <1>3, StayTyped DEF BeginDetail, Goto, TypeOK

\* The end of a detail, of either kind.
LEMMA SightingTyped ==
    ASSUME TypeOK, NEW c \in Collector, pc[c] \in {"detail", "create"},
           NEW r \in PostingRow, NEW type \in {"NEW", "STILL_ACTIVE"},
           posting' = [posting EXCEPT ![loc[c].id] = r], Commit(loc[c].id, c, type, loc[c].at),
           Goto(c, "details"), UNCHANGED <<clock, runs, loc>>
    PROVE  TypeOK'
<1>1. /\ loc[c].id \in Posting /\ loc[c].at \in Nat /\ loc[c] \in Local
      /\ loc' = [loc EXCEPT ![c] = loc[c]] /\ loc[c].run \in DOMAIN runs
  BY DEF TypeOK
<1>2. posting' \in [Posting -> PostingRow]
  BY DEF TypeOK
<1>3. events' \in [Posting -> Seq(Event)]
  BY <1>1, CommitTyped DEF LifecycleStatus
<1>4. "details" \in Label
  BY DEF Label
<1> QED BY <1>1, <1>2, <1>3, <1>4, StayTyped DEF Goto, TypeOK

LEMMA RecordTyped ==
    ASSUME TypeOK, NEW c \in Collector, RecordActive(c) \/ CreatePosting(c)
    PROVE  TypeOK'
<1>1. ASSUME Fail(c, "DEGRADED"), pc[c] # "idle" PROVE TypeOK'
  BY <1>1, FailTyped
<1>2. CASE RecordActive(c) /\ ~Fail(c, "DEGRADED")
  <2> DEFINE r == Seen(posting[loc[c].id], loc[c].at)
  <2>1. loc[c].id \in Posting /\ loc[c].at \in Nat /\ posting[loc[c].id] \in PostingRow
    BY <1>2 DEF RecordActive, TypeOK
  <2>2. r \in PostingRow
    BY <2>1 DEF Seen, PostingRow, Stamp, Never, LifecycleStatus
  <2>3. posting' = [posting EXCEPT ![loc[c].id] = r]
    BY <1>2, <2>1 DEF RecordActive, TypeOK
  <2> HIDE DEF r
  <2> QED BY <1>2, <2>2, <2>3, SightingTyped DEF RecordActive
<1>3. CASE CreatePosting(c) /\ ~Fail(c, "DEGRADED")
  <2> DEFINE r == [NoPosting EXCEPT !.status = "NEW", !.first = loc[c].at, !.last = loc[c].at]
  <2>1. loc[c].at \in Nat
    BY <1>3 DEF CreatePosting, TypeOK
  <2>2. r \in PostingRow
    BY <2>1 DEF NoPosting, PostingRow, Stamp, Never, LifecycleStatus
  <2>3. posting' = [posting EXCEPT ![loc[c].id] = r]
    BY <1>3 DEF CreatePosting
  <2> HIDE DEF r
  <2> QED BY <1>3, <2>2, <2>3, SightingTyped DEF CreatePosting
<1> QED BY <1>1, <1>2, <1>3 DEF RecordActive, CreatePosting

LEMMA MissedTyped ==
    ASSUME NEW r \in PostingRow, NEW at \in Nat
    PROVE  Missed(r, at) \in PostingRow
<1> DEFINE first == IF r.firstNegative = Never THEN at ELSE r.firstNegative
           status == IF Closes(r, at) THEN "CLOSED_OBSERVED" ELSE "DISAPPEARED_PENDING"
           closed == IF Closes(r, at) THEN at ELSE Never
<1>1. first \in Stamp /\ closed \in Stamp /\ at \in Stamp
  BY DEF PostingRow, Stamp, Never
<1>2. status \in LifecycleStatus
  BY DEF LifecycleStatus
<1>3. Missed(r, at) = [r EXCEPT !.status = status, !.firstNegative = first,
                                !.lastNegative = at, !.closed = closed,
                                !.negatives = r.negatives + 1]
  BY DEF Missed, PostingRow
<1>4. r.negatives + 1 \in Nat
  BY DEF PostingRow
<1> QED
  <2> DEFINE negatives == r.negatives + 1
  <2>1. negatives \in Nat
    BY <1>4
  <2>2. Missed(r, at) = [r EXCEPT !.status = status, !.firstNegative = first,
                                  !.lastNegative = at, !.closed = closed,
                                  !.negatives = negatives]
    BY <1>3
  <2> HIDE DEF first, status, closed, negatives
  <2> QED BY <1>1, <1>2, <2>1, <2>2 DEF PostingRow

LEMMA AbsencesTyped ==
    ASSUME TypeOK, NEW c \in Collector, RecordAbsences(c)
    PROVE  TypeOK'
<1> DEFINE run == [ThisRun(c) EXCEPT !.health = "HEALTHY"]
           missed == [x \in Candidates(c) |-> Missed(posting[x], loc[c].at)]
           event(x) == [run |-> loc[c].run, type |-> missed[x].status, at |-> loc[c].at]
<1>1. pc[c] = "lifecycle" /\ loc[c].at \in Nat /\ loc[c].run \in Nat /\ loc[c] \in Local
  BY ThisRunTyped DEF RecordAbsences, TypeOK
<1>2. run \in Run /\ runs' = [runs EXCEPT ![loc[c].run] = run]
  BY <1>1, ThisRunTyped DEF RecordAbsences, ThisRun, Run
<1>3. runs' \in Seq(Run) /\ DOMAIN runs' = DOMAIN runs
  <2> HIDE DEF run
  <2> QED BY <1>1, <1>2, RunsTyped
<1>4. /\ posting' = [x \in Posting |-> IF x \in Candidates(c) THEN missed[x] ELSE posting[x]]
      /\ events' = [x \in Posting |-> IF x \in Candidates(c)
                                      THEN Append(events[x], event(x)) ELSE events[x]]
  BY DEF RecordAbsences
<1>5. ASSUME NEW x \in Candidates(c)
      PROVE  x \in Posting /\ missed[x] \in PostingRow /\ event(x) \in Event
  <2>1. x \in Posting /\ posting[x] \in PostingRow
    BY DEF Candidates, TypeOK
  <2>2. missed[x] \in PostingRow
    BY <1>1, <2>1, MissedTyped
  <2>3. missed[x].status \in {"CLOSED_OBSERVED", "DISAPPEARED_PENDING"}
    BY <2>1 DEF Missed, PostingRow
  <2> HIDE DEF missed
  <2> QED BY <1>1, <2>1, <2>2, <2>3 DEF Event, LifecycleStatus
<1>6. posting' \in [Posting -> PostingRow] /\ events' \in [Posting -> Seq(Event)]
  <2>1. \A x \in Posting : posting[x] \in PostingRow /\ events[x] \in Seq(Event)
    BY DEF TypeOK
  <2>2. \A x \in Candidates(c) : Append(events[x], event(x)) \in Seq(Event)
    <3> HIDE DEF event
    <3> QED BY <1>5, <2>1
  <2> HIDE DEF missed, event
  <2> QED BY <1>4, <1>5, <2>1, <2>2
<1>7. /\ loc' = [loc EXCEPT ![c] = loc[c]] /\ pc' = [pc EXCEPT ![c] = "final"]
      /\ clock' = clock /\ "final" \in Label /\ loc[c].run \in DOMAIN runs
  BY <1>1, ThisRunTyped DEF RecordAbsences, Goto, TypeOK, Label
<1> QED BY <1>1, <1>3, <1>6, <1>7, StayTyped

\* Every variable keeps its type in every step of every collector.
THEOREM LifecycleTyped == LifecycleSpec => []TypeOK
<1>1. LifecycleInit => TypeOK
  <2> SUFFICES ASSUME LifecycleInit PROVE TypeOK
    OBVIOUS
  <2>1. NoPosting \in PostingRow
    BY DEF NoPosting, PostingRow, Stamp, Never, LifecycleStatus
  <2>2. "idle" \in Label
    BY DEF Label
  <2>3. <<>> \in Seq(Run) /\ <<>> \in Seq(Event)
    OBVIOUS
  <2> QED BY <2>1, <2>2, <2>3, NoLocalTyped DEF LifecycleInit, TypeOK
<1>2. TypeOK /\ [LifecycleNext]_lifecycleVars => TypeOK'
  <2> SUFFICES ASSUME TypeOK, [LifecycleNext]_lifecycleVars PROVE TypeOK'
    OBVIOUS
  <2>1. ASSUME NEW c \in Collector, Collect(c) PROVE TypeOK'
    <3>1. CASE ListingFails(c) \/ DetailFails(c) \/ AbsencesFail(c)
      BY <3>1, FailTyped DEF ListingFails, DetailFails, AbsencesFail
    <3>2. CASE MissPosting(c)
      <4>1. loc[c] \in Local /\ loc' = [loc EXCEPT ![c] = loc[c]] /\ "create" \in Label
        BY <3>2 DEF MissPosting, TypeOK, Label
      <4>2. loc[c].run \in DOMAIN runs /\ loc[c].id \in Posting /\ loc[c].at \in Nat
        BY <3>2 DEF MissPosting, TypeOK
      <4> QED BY <3>2, <4>1, <4>2, StayTyped DEF MissPosting, Goto, TypeOK
    <3>3. CASE DetailsDone(c)
      <4> DEFINE l == [loc[c] EXCEPT !.at = clock]
      <4>1. l \in Local /\ l.run = loc[c].run /\ l.at \in Nat
        BY DEF TypeOK, Local, Stamp
      <4>2. loc' = [loc EXCEPT ![c] = l] /\ l.run \in DOMAIN runs
        BY <3>3, <4>1, ThisRunTyped DEF DetailsDone, TypeOK
      <4> HIDE DEF l
      <4>3. CASE Full(c)
        BY <3>3, <4>1, <4>2, <4>3, StayTyped DEF DetailsDone, Goto, TypeOK, Label
      <4>4. CASE ~Full(c)
        BY <3>3, <4>1, <4>2, <4>4, StayTyped DEF DetailsDone, Goto, TypeOK, Label
      <4> QED BY <4>3, <4>4
    <3>4. CASE Finish(c)
      <4> DEFINE run == [ThisRun(c) EXCEPT !.status = "SUCCEEDED", !.health = "HEALTHY",
                                           !.complete = Full(c)]
      <4>1. run \in Run
        BY <3>4, ThisRunTyped DEF Run, Full, Finish
      <4>2. runs' = [runs EXCEPT ![loc[c].run] = run]
        BY <3>4, ThisRunTyped DEF Finish, ThisRun, Run
      <4>3. runs' \in Seq(Run) /\ DOMAIN runs' = DOMAIN runs
        <5> HIDE DEF run
        <5> QED BY <3>4, <4>1, <4>2, RunsTyped DEF Finish
      <4> QED BY <3>4, <4>3, ReturnTyped DEF Finish
    <3> QED BY <2>1, <3>1, <3>2, <3>3, <3>4, StartTyped, ListingTyped, DetailTyped,
               RecordTyped, AbsencesTyped DEF Collect
  <2>2. ASSUME NEW c \in Collector, Crash(c) PROVE TypeOK'
    BY <2>2, ReturnTyped DEF Crash, TypeOK
  <2>3. CASE Tick
    BY <2>3 DEF Tick, TypeOK
  <2>4. CASE UNCHANGED lifecycleVars
    BY <2>4 DEF lifecycleVars, TypeOK
  <2> QED BY <2>1, <2>2, <2>3, <2>4 DEF LifecycleNext
<1> QED BY <1>1, <1>2, PTL DEF LifecycleSpec

-----------------------------------------------------------------------------
(* The refinement.  A row that is not pending carries no negative evidence *)
(* and a pending one does, and no scan is dated in the future.             *)

Shape ==
    \A x \in Posting :
        /\ posting[x].status \in {"UNKNOWN", "NEW", "STILL_ACTIVE"} =>
               posting[x].negatives = 0 /\ posting[x].firstNegative = Never
        /\ posting[x].status = "DISAPPEARED_PENDING" =>
               posting[x].negatives >= 1 /\ posting[x].firstNegative \in Nat

Dated == \A c \in Collector : pc[c] = "lifecycle" => loc[c].at <= clock

\* A step that leaves the postings and the clock alone.
LEMMA QuietStep ==
    ASSUME Shape, UNCHANGED <<posting, clock>>
    PROVE  Shape' /\ UNCHANGED Promised!promise
BY DEF Shape, Promised!promise

\* What a sighting does to the row, for a new posting and for a known one.
LEMMA SightingStep ==
    ASSUME TypeOK, Shape, NEW x \in Posting, NEW r \in PostingRow,
           posting' = [posting EXCEPT ![x] = r], clock' = clock,
           r.status = IF posting[x].status = "UNKNOWN" THEN "NEW" ELSE "STILL_ACTIVE",
           r.negatives = 0, r.firstNegative = Never
    PROVE  Shape' /\ Promised!See(x)
<1>1. /\ posting'[x] = r
      /\ \A y \in Posting \ {x} : posting'[y] = posting[y]
  BY DEF TypeOK
<1>2. Shape'
  BY <1>1 DEF Shape
<1>3. Promised!See(x)
  BY <1>1 DEF Promised!See, TypeOK
<1> QED BY <1>2, <1>3

LEMMA RecordStep ==
    ASSUME TypeOK, Shape, NEW c \in Collector, RecordActive(c) \/ CreatePosting(c)
    PROVE  /\ Shape'
           /\ UNCHANGED Promised!promise \/ \E x \in Posting : Promised!See(x)
<1> DEFINE x == loc[c].id
<1>1. /\ x \in Posting /\ loc[c].at \in Nat /\ posting[x] \in PostingRow
  BY DEF RecordActive, CreatePosting, TypeOK
<1>2. CASE Fail(c, "DEGRADED")
  BY <1>2, QuietStep DEF Fail
<1>3. CASE RecordActive(c) /\ ~Fail(c, "DEGRADED")
  <2> DEFINE r == Seen(posting[x], loc[c].at)
  <2>1. r \in PostingRow /\ r.status = "STILL_ACTIVE" /\ r.negatives = 0 /\ r.firstNegative = Never
    BY <1>1 DEF Seen, PostingRow, Stamp, Never, LifecycleStatus
  <2>2. /\ posting' = [posting EXCEPT ![x] = r] /\ clock' = clock
        /\ posting[x].status # "UNKNOWN"
    BY <1>1, <1>3 DEF RecordActive, TypeOK
  <2> HIDE DEF r, x
  <2> QED BY <1>1, <2>1, <2>2, SightingStep
<1>4. CASE CreatePosting(c) /\ ~Fail(c, "DEGRADED")
  <2> DEFINE r == [NoPosting EXCEPT !.status = "NEW", !.first = loc[c].at, !.last = loc[c].at]
  <2>1. r \in PostingRow /\ r.status = "NEW" /\ r.negatives = 0 /\ r.firstNegative = Never
    BY <1>1 DEF NoPosting, PostingRow, Stamp, Never, LifecycleStatus
  <2>2. /\ posting' = [posting EXCEPT ![x] = r] /\ clock' = clock
        /\ posting[x].status = "UNKNOWN"
    BY <1>4 DEF CreatePosting
  <2> HIDE DEF r, x
  <2> QED BY <1>1, <2>1, <2>2, SightingStep
<1> QED BY <1>2, <1>3, <1>4

\* The row of a posting that a scan missed.
LEMMA MissedRow ==
    ASSUME NEW r \in PostingRow, NEW at \in Nat, ConfirmationDelay \in Nat
    PROVE  /\ Missed(r, at).status = IF Closes(r, at) THEN "CLOSED_OBSERVED"
                                     ELSE "DISAPPEARED_PENDING"
           /\ Missed(r, at).firstNegative = IF r.firstNegative = Never THEN at
                                            ELSE r.firstNegative
           /\ Missed(r, at).negatives = r.negatives + 1
BY DEF Missed, PostingRow

LEMMA AbsencesStep ==
    ASSUME TypeOK, Shape, Dated, NEW c \in Collector, RecordAbsences(c)
    PROVE  /\ Shape'
           /\ Candidates(c) \in SUBSET Posting /\ loc[c].at \in 0..clock
           /\ Promised!Miss(Candidates(c), loc[c].at)
<1> DEFINE at == loc[c].at
           missed == Candidates(c)
           row(x) == Missed(posting[x], at)
<1>1. at \in Nat /\ at \in 0..clock /\ ConfirmationDelay \in Nat
  BY LifecycleAssumption DEF RecordAbsences, TypeOK, Dated
<1>2. /\ posting' = [x \in Posting |-> IF x \in missed THEN row(x) ELSE posting[x]]
      /\ clock' = clock
  BY DEF RecordAbsences
<1>3. missed \in SUBSET Posting
  BY DEF Candidates
<1>4. ASSUME NEW x \in missed
      PROVE  /\ x \in Posting
             /\ posting[x].status \in {"NEW", "STILL_ACTIVE", "DISAPPEARED_PENDING"}
             /\ row(x).status = IF posting[x].status = "DISAPPEARED_PENDING"
                                   /\ at - posting[x].firstNegative >= ConfirmationDelay
                                THEN "CLOSED_OBSERVED" ELSE "DISAPPEARED_PENDING"
             /\ row(x).firstNegative = IF posting[x].status = "DISAPPEARED_PENDING"
                                       THEN posting[x].firstNegative ELSE at
             /\ row(x).firstNegative \in Nat
             /\ row(x).negatives >= 1
  <2>1. x \in Posting /\ posting[x] \in PostingRow
    BY DEF Candidates, TypeOK
  <2>2. posting[x].status \in {"NEW", "STILL_ACTIVE", "DISAPPEARED_PENDING"}
    BY <2>1 DEF Candidates, PostingRow, LifecycleStatus
  <2>3. posting[x].negatives \in Nat
    BY <2>1 DEF PostingRow
  <2>4. /\ row(x).status = IF Closes(posting[x], at) THEN "CLOSED_OBSERVED"
                           ELSE "DISAPPEARED_PENDING"
        /\ row(x).firstNegative = IF posting[x].firstNegative = Never THEN at
                                  ELSE posting[x].firstNegative
        /\ row(x).negatives = posting[x].negatives + 1
    BY <1>1, <2>1, MissedRow
  <2>5. CASE posting[x].status = "DISAPPEARED_PENDING"
    <3>1. posting[x].negatives >= 1 /\ posting[x].firstNegative \in Nat
      BY <2>1, <2>5 DEF Shape
    <3> QED BY <2>1, <2>2, <2>3, <2>4, <2>5, <3>1 DEF Closes, Never
  <2>6. CASE posting[x].status # "DISAPPEARED_PENDING"
    <3>1. posting[x].negatives = 0 /\ posting[x].firstNegative = Never
      BY <2>1, <2>2, <2>6 DEF Shape
    <3> QED BY <1>1, <2>1, <2>2, <2>4, <2>6, <3>1 DEF Closes
  <2> QED BY <2>5, <2>6
<1>5. ASSUME NEW x \in Posting
      PROVE  posting'[x] = IF x \in missed THEN row(x) ELSE posting[x]
  BY <1>2
<1>6. Shape'
  <2> HIDE DEF missed, row
  <2>1. ASSUME NEW x \in Posting
        PROVE  /\ posting'[x].status \in {"UNKNOWN", "NEW", "STILL_ACTIVE"} =>
                      posting'[x].negatives = 0 /\ posting'[x].firstNegative = Never
               /\ posting'[x].status = "DISAPPEARED_PENDING" =>
                      posting'[x].negatives >= 1 /\ posting'[x].firstNegative \in Nat
    <3>1. CASE x \in missed
      BY <1>4, <1>5, <3>1
    <3>2. CASE x \notin missed
      BY <1>5, <3>2 DEF Shape
    <3> QED BY <3>1, <3>2
  <2> QED BY <2>1 DEF Shape
<1>7. Promised!Miss(missed, at)
  <2> HIDE DEF missed, row, at
  <2>1. ASSUME NEW x \in missed
        PROVE  posting[x].status \notin {"UNKNOWN", "CLOSED_OBSERVED"}
    BY <1>4
  <2>2. ASSUME NEW x \in Posting
        PROVE  posting'[x].status =
                   IF x \notin missed THEN posting[x].status
                   ELSE IF /\ posting[x].status = "DISAPPEARED_PENDING"
                           /\ at - (IF posting[x].firstNegative = Never THEN 0
                                    ELSE posting[x].firstNegative) >= ConfirmationDelay
                        THEN "CLOSED_OBSERVED" ELSE "DISAPPEARED_PENDING"
    <3>1. posting[x].status = "DISAPPEARED_PENDING" => posting[x].firstNegative # Never
      BY DEF Shape, Never
    <3> QED BY <1>4, <1>5, <3>1
  <2>3. ASSUME NEW x \in Posting
        PROVE  (IF posting'[x].firstNegative = Never THEN 0 ELSE posting'[x].firstNegative) =
                   IF x \in missed /\ posting[x].status # "DISAPPEARED_PENDING" THEN at
                   ELSE IF posting[x].firstNegative = Never THEN 0
                        ELSE posting[x].firstNegative
    BY <1>1, <1>4, <1>5 DEF Never
  <2> QED BY <1>2, <1>3, <2>1, <2>2, <2>3 DEF Promised!Miss
<1> QED BY <1>1, <1>3, <1>6, <1>7

\* The clock and the collectors keep the dates of the scans in the past.
LEMMA DatedStep ==
    ASSUME TypeOK, Dated, [LifecycleNext]_lifecycleVars
    PROVE  Dated'
<1> SUFFICES ASSUME NEW d \in Collector, pc'[d] = "lifecycle" PROVE loc'[d].at <= clock'
  BY DEF Dated
<1>0. clock \in Nat /\ pc \in [Collector -> Label] /\ loc \in [Collector -> Local]
  BY DEF TypeOK
<1>1. CASE Tick \/ UNCHANGED lifecycleVars
  <2>1. pc' = pc /\ loc' = loc /\ clock' >= clock
    BY <1>0, <1>1 DEF Tick, lifecycleVars
  <2>2. loc[d].at <= clock /\ loc[d].at \in Int /\ clock' \in Nat
    BY <1>0, <1>1, <2>1 DEF Dated, Local, Stamp, Never, Tick, lifecycleVars
  <2> QED BY <1>0, <2>1, <2>2
<1>2. ASSUME NEW c \in Collector, Collect(c) \/ Crash(c) PROVE loc'[d].at <= clock'
  <2>1. clock' = clock
    BY <1>2 DEF Collect, Crash, Start, FetchListing, ListingFails, BeginDetail, DetailFails,
                RecordActive, MissPosting, CreatePosting, DetailsDone, RecordAbsences,
                AbsencesFail, Finish, Fail
  <2>2. CASE DetailsDone(c) /\ c = d
    BY <1>0, <2>1, <2>2 DEF DetailsDone, Local
  <2>3. CASE ~(DetailsDone(c) /\ c = d)
    <3>1. pc'[d] = pc[d] /\ loc'[d] = loc[d]
      <4>1. CASE c = d
        BY <1>0, <1>2, <2>3, <4>1 DEF Collect, Crash, Start, FetchListing, ListingFails,
               BeginDetail, DetailFails, RecordActive, MissPosting, CreatePosting,
               RecordAbsences, AbsencesFail, Finish, Fail, Return, Goto
      <4>2. CASE c # d
        BY <1>0, <1>2, <4>2 DEF Collect, Crash, Start, FetchListing, ListingFails,
               BeginDetail, DetailFails, RecordActive, MissPosting, CreatePosting,
               DetailsDone, RecordAbsences, AbsencesFail, Finish, Fail, Return, Goto
      <4> QED BY <4>1, <4>2
    <3> QED BY <2>1, <3>1 DEF Dated
  <2> QED BY <2>2, <2>3
<1> QED BY <1>1, <1>2 DEF LifecycleNext

LEMMA RefinementStep ==
    ASSUME TypeOK, Shape, Dated, [LifecycleNext]_lifecycleVars
    PROVE  Shape' /\ [Promised!PromiseNext]_(Promised!promise)
<1>1. ASSUME NEW c \in Collector, Collect(c) \/ Crash(c)
      PROVE  Shape' /\ [Promised!PromiseNext]_(Promised!promise)
  <2>1. CASE RecordActive(c) \/ CreatePosting(c)
    BY <2>1, RecordStep DEF Promised!PromiseNext
  <2>2. CASE RecordAbsences(c)
    <3> DEFINE missed == Candidates(c)
               at == loc[c].at
    <3>1. /\ Shape' /\ missed \in SUBSET Posting /\ at \in 0..clock
          /\ Promised!Miss(missed, at)
      BY <2>2, AbsencesStep
    <3> HIDE DEF missed, at
    <3> QED BY <3>1, Zenon DEF Promised!PromiseNext, Promised!Miss
  <2>3. CASE ~(RecordActive(c) \/ CreatePosting(c)) /\ ~RecordAbsences(c)
    <3>1. UNCHANGED <<posting, clock>>
      BY <1>1, <2>3 DEF Collect, Crash, Start, FetchListing, ListingFails, BeginDetail,
                DetailFails, MissPosting, DetailsDone, AbsencesFail, Finish, Fail
    <3> QED BY <3>1, QuietStep
  <2> QED BY <2>1, <2>2, <2>3
<1>2. CASE Tick
  <2>1. clock' > clock /\ posting' = posting
    BY <1>2 DEF Tick, TypeOK
  <2>2. Shape'
    BY <2>1 DEF Shape
  <2>3. Promised!Pass
    BY <2>1 DEF Promised!Pass
  <2> QED BY <2>2, <2>3 DEF Promised!PromiseNext
<1>3. CASE UNCHANGED lifecycleVars
  BY <1>3, QuietStep DEF lifecycleVars
<1> QED BY <1>1, <1>2, <1>3 DEF LifecycleNext

\* However the transactions of concurrent, failing and crashing collectors interleave,
\* each posting lives by the promise: pending after a miss, closed by a second one a
\* confirmation delay later, and out of that only by a sighting.
THEOREM LifecycleKeepsPromise == LifecycleSpec => KeepsPromise
<1>1. LifecycleInit => Shape /\ Dated /\ Promised!PromiseInit
  BY DEF LifecycleInit, Shape, Dated, NoPosting, Never, Promised!PromiseInit
<1>2. TypeOK /\ Shape /\ Dated /\ [LifecycleNext]_lifecycleVars =>
          Shape' /\ Dated' /\ [Promised!PromiseNext]_(Promised!promise)
  BY RefinementStep, DatedStep
<1> QED BY <1>1, <1>2, LifecycleTyped, PTL DEF LifecycleSpec, KeepsPromise, Promised!Promise

-----------------------------------------------------------------------------
(* Runs and their events.  A run in progress belongs to one collector, its *)
(* scope is its own listing, and it commits absences in its last step but  *)
(* one: until then its row may still change, and nothing rests on it.      *)

Mid == {"details", "detail", "create", "lifecycle", "final"}

OwnRuns ==
    \A c, d \in Collector :
        c # d /\ pc[c] # "idle" /\ pc[d] # "idle" => loc[c].run # loc[d].run

RunTrue(c) ==
    pc[c] # "idle" =>
        /\ ThisRun(c).status = "RUNNING" /\ ~ThisRun(c).complete
        /\ pc[c] \in Mid /\ Full(c) => loc[c].scoped = ThisRun(c).listing
        /\ pc[c] = "lifecycle" => Full(c)
        /\ pc[c] \in {"lifecycle", "final"} => loc[c].left = {}

\* An entry of the scope is left, at hand, or has its event.
Sighted(c) ==
    pc[c] \in Mid =>
        \A x \in loc[c].scoped \ loc[c].left :
            \/ pc[c] \in {"detail", "create"} /\ x = loc[c].id
            \/ \E i \in DOMAIN events[x] : events[x][i].run = loc[c].run

Unmissed(c) ==
    pc[c] \notin {"idle", "final"} =>
        \A x \in Posting : \A i \in DOMAIN events[x] :
            events[x][i].run = loc[c].run => events[x][i].type \notin Absent

RunKnown == \A x \in Posting : \A i \in DOMAIN events[x] : events[x][i].run \in DOMAIN runs

CollectInv ==
    /\ OwnRuns /\ RunKnown
    /\ \A c \in Collector : RunTrue(c) /\ Sighted(c) /\ Unmissed(c)
    /\ AbsenceFromHealthyListing /\ SnapshotAccounted

\* What the step of a collector leaves alone.
LEMMA CollectorStep ==
    ASSUME TypeOK, NEW c \in Collector, Collect(c) \/ Crash(c)
    PROVE  /\ \A d \in Collector \ {c} : pc'[d] = pc[d] /\ loc'[d] = loc[d]
           /\ \A n \in DOMAIN runs : /\ n \in DOMAIN runs'
                                     /\ runs'[n] # runs[n] => pc[c] # "idle" /\ n = loc[c].run
           /\ clock' = clock
<1>1. pc \in [Collector -> Label] /\ loc \in [Collector -> Local] /\ runs \in Seq(Run)
  BY DEF TypeOK
<1>2. CASE \E wanted \in SUBSET Posting : Start(c, wanted)
  <2>1. PICK wanted \in SUBSET Posting : Start(c, wanted)
    BY <1>2
  <2>2. \A d \in Collector \ {c} : pc'[d] = pc[d] /\ loc'[d] = loc[d]
    BY <1>1, <2>1 DEF Start, Goto
  <2> DEFINE run == [full |-> wanted = {}, status |-> "RUNNING", health |-> "UNKNOWN",
                     complete |-> FALSE, listing |-> {}, listedAt |-> Never]
  <2>3. runs' = Append(runs, run) /\ clock' = clock
    BY <2>1 DEF Start
  <2> HIDE DEF run
  <2>4. \A n \in DOMAIN runs : n \in DOMAIN runs' /\ runs'[n] = runs[n]
    BY <1>1, <2>3
  <2> QED BY <2>2, <2>3, <2>4
<1>3. CASE ~\E wanted \in SUBSET Posting : Start(c, wanted)
  <2>1. \A d \in Collector \ {c} : pc'[d] = pc[d] /\ loc'[d] = loc[d]
    BY <1>1, <1>3 DEF Collect, Crash, FetchListing, ListingFails, BeginDetail, DetailFails,
           RecordActive, MissPosting, CreatePosting, DetailsDone, RecordAbsences,
           AbsencesFail, Finish, Fail, Return, Goto
  <2>2. /\ clock' = clock /\ pc[c] # "idle"
        /\ runs' = runs \/ \E r : runs' = [runs EXCEPT ![loc[c].run] = r]
    <3>1. clock' = clock /\ pc[c] # "idle"
      BY <1>3 DEF Collect, Crash, FetchListing, ListingFails, BeginDetail, DetailFails,
             RecordActive, MissPosting, CreatePosting, DetailsDone, RecordAbsences,
             AbsencesFail, Finish, Fail
    <3>2. ASSUME NEW health, Fail(c, health)
          PROVE  \E r : runs' = [runs EXCEPT ![loc[c].run] = r]
      <4> DEFINE r == [ThisRun(c) EXCEPT !.status = "FAILED", !.complete = FALSE,
                                         !.health = health]
      <4>1. runs' = [runs EXCEPT ![loc[c].run] = r]
        BY <1>1, <3>1, <3>2, ThisRunTyped DEF Fail, ThisRun, Run
      <4> HIDE DEF r
      <4> QED BY <4>1
    <3>3. ASSUME NEW listed \in SUBSET Posting, FetchListing(c, listed)
          PROVE  \E r : runs' = [runs EXCEPT ![loc[c].run] = r]
      <4> DEFINE r == [ThisRun(c) EXCEPT !.listing = listed, !.listedAt = clock]
      <4>1. runs' = [runs EXCEPT ![loc[c].run] = r]
        BY <1>1, <3>1, <3>3, ThisRunTyped DEF FetchListing, ThisRun, Run
      <4> HIDE DEF r
      <4> QED BY <4>1
    <3>4. ASSUME RecordAbsences(c)
          PROVE  \E r : runs' = [runs EXCEPT ![loc[c].run] = r]
      <4> DEFINE r == [ThisRun(c) EXCEPT !.health = "HEALTHY"]
      <4>1. runs' = [runs EXCEPT ![loc[c].run] = r]
        BY <1>1, <3>1, <3>4, ThisRunTyped DEF RecordAbsences, ThisRun, Run
      <4> HIDE DEF r
      <4> QED BY <4>1
    <3>5. ASSUME Finish(c)
          PROVE  \E r : runs' = [runs EXCEPT ![loc[c].run] = r]
      <4> DEFINE r == [ThisRun(c) EXCEPT !.status = "SUCCEEDED", !.health = "HEALTHY",
                                         !.complete = Full(c)]
      <4>1. runs' = [runs EXCEPT ![loc[c].run] = r]
        BY <1>1, <3>1, <3>5, ThisRunTyped DEF Finish, ThisRun, Run
      <4> HIDE DEF r
      <4> QED BY <4>1
    <3> QED BY <1>3, <3>1, <3>2, <3>3, <3>4, <3>5 DEF Collect, Crash, ListingFails,
               BeginDetail, DetailFails, RecordActive, MissPosting, CreatePosting,
               DetailsDone, AbsencesFail
  <2>3. \A n \in DOMAIN runs : n \in DOMAIN runs' /\ (runs'[n] # runs[n] => n = loc[c].run)
    BY <1>1, <2>2, ThisRunTyped
  <2> QED BY <2>1, <2>2, <2>3
<1> QED BY <1>2, <1>3

\* What a step commits about x: nothing, a sighting, or an absence.
SightsIt(c, x) ==
    /\ pc[c] \in {"detail", "create"} /\ x = loc[c].id
    /\ events'[x][Len(events[x]) + 1].type \in {"NEW", "STILL_ACTIVE"}
    /\ loc' = loc /\ pc' = [pc EXCEPT ![c] = "details"] /\ runs' = runs

MissesIt(c, x) ==
    /\ RecordAbsences(c) /\ x \in Candidates(c)
    /\ events'[x][Len(events[x]) + 1].type = Missed(posting[x], loc[c].at).status

Appends(c, x) ==
    /\ Len(events'[x]) = Len(events[x]) + 1
    /\ \A i \in 1..Len(events[x]) : events'[x][i] = events[x][i]
    /\ events'[x][Len(events[x]) + 1].run = loc[c].run
    /\ events'[x][Len(events[x]) + 1].at = loc[c].at

LEMMA SightingEvent ==
    ASSUME TypeOK, NEW c \in Collector, pc[c] \in {"detail", "create"},
           NEW type \in {"NEW", "STILL_ACTIVE"},
           Commit(loc[c].id, c, type, loc[c].at), Goto(c, "details"),
           UNCHANGED <<clock, runs, loc>>, NEW x \in Posting
    PROVE  events'[x] = events[x] \/ (Appends(c, x) /\ SightsIt(c, x))
<1> DEFINE e == [run |-> loc[c].run, type |-> type, at |-> loc[c].at]
<1>1. e.run = loc[c].run /\ e.type = type /\ e.at = loc[c].at
  OBVIOUS
<1>2. events' = [events EXCEPT ![loc[c].id] = Append(@, e)]
  BY DEF Commit
<1>3. events[x] \in Seq(Event) /\ events \in [Posting -> Seq(Event)]
  BY DEF TypeOK
<1>4. CASE x = loc[c].id
  <2> HIDE DEF e
  <2>1. events'[x] = Append(events[x], e)
    BY <1>2, <1>3, <1>4
  <2>2. events'[x][Len(events[x]) + 1] = e
    BY <1>3, <2>1
  <2>3. /\ Len(events'[x]) = Len(events[x]) + 1
        /\ \A i \in 1..Len(events[x]) : events'[x][i] = events[x][i]
    BY <1>3, <2>1
  <2> QED BY <1>1, <1>4, <2>2, <2>3 DEF Appends, SightsIt, Goto
<1>5. CASE x # loc[c].id
  BY <1>2, <1>3, <1>5
<1> QED BY <1>4, <1>5

LEMMA EventStep ==
    ASSUME TypeOK, NEW c \in Collector, Collect(c) \/ Crash(c), NEW x \in Posting
    PROVE  \/ events'[x] = events[x]
           \/ Appends(c, x) /\ (SightsIt(c, x) \/ MissesIt(c, x))
<1>1. CASE RecordActive(c) \/ CreatePosting(c)
  <2>1. CASE Fail(c, "DEGRADED")
    BY <2>1 DEF Fail
  <2>2. CASE ~Fail(c, "DEGRADED") /\ RecordActive(c)
    BY <2>2, SightingEvent DEF RecordActive
  <2>3. CASE ~Fail(c, "DEGRADED") /\ CreatePosting(c)
    BY <2>3, SightingEvent DEF CreatePosting
  <2> QED BY <1>1, <2>1, <2>2, <2>3
<1>2. CASE RecordAbsences(c)
  <2> DEFINE missed == [y \in Candidates(c) |-> Missed(posting[y], loc[c].at)]
             event(y) == [run |-> loc[c].run, type |-> missed[y].status, at |-> loc[c].at]
  <2>1. events' = [y \in Posting |-> IF y \in Candidates(c)
                                     THEN Append(events[y], event(y)) ELSE events[y]]
    BY <1>2 DEF RecordAbsences
  <2>2. events[x] \in Seq(Event)
    BY DEF TypeOK
  <2>3. CASE x \in Candidates(c)
    <3> DEFINE e == event(x)
    <3>1. /\ e.run = loc[c].run /\ e.at = loc[c].at
          /\ e.type = Missed(posting[x], loc[c].at).status
      BY <2>3
    <3>2. events'[x] = Append(events[x], e)
      BY <2>1, <2>3
    <3> HIDE DEF e, event, missed
    <3>3. events'[x][Len(events[x]) + 1] = e
      BY <2>2, <3>2
    <3>4. /\ Len(events'[x]) = Len(events[x]) + 1
          /\ \A i \in 1..Len(events[x]) : events'[x][i] = events[x][i]
      BY <2>2, <3>2
    <3> QED BY <1>2, <2>3, <3>1, <3>3, <3>4 DEF Appends, MissesIt
  <2>4. CASE x \notin Candidates(c)
    BY <2>1, <2>4
  <2> QED BY <2>3, <2>4
<1>3. CASE ~(RecordActive(c) \/ CreatePosting(c)) /\ ~RecordAbsences(c)
  <2>1. events' = events
    BY <1>3 DEF Collect, Crash, Start, FetchListing, ListingFails, BeginDetail, DetailFails,
           MissPosting, DetailsDone, AbsencesFail, Finish, Fail
  <2> QED BY <2>1
<1> QED BY <1>1, <1>2, <1>3

\* Events stay, with what they say.
LEMMA EventsStay ==
    ASSUME TypeOK, TypeOK', NEW c \in Collector, Collect(c) \/ Crash(c), NEW x \in Posting
    PROVE  /\ DOMAIN events[x] = 1..Len(events[x]) /\ DOMAIN events'[x] = 1..Len(events'[x])
           /\ Len(events[x]) \in Nat
           /\ \A i \in DOMAIN events[x] : i \in DOMAIN events'[x] /\ events'[x][i] = events[x][i]
           /\ \A i \in DOMAIN events'[x] \ DOMAIN events[x] :
                  /\ i = Len(events[x]) + 1 /\ Appends(c, x)
                  /\ events'[x][i].run = loc[c].run
                  /\ SightsIt(c, x) \/ MissesIt(c, x)
           /\ Appends(c, x) => DOMAIN events'[x] = DOMAIN events[x] \cup {Len(events[x]) + 1}
<1>1. events[x] \in Seq(Event) /\ events'[x] \in Seq(Event)
  BY DEF TypeOK
<1>2. CASE events'[x] = events[x]
  BY <1>1, <1>2 DEF Appends
<1>3. CASE Appends(c, x) /\ (SightsIt(c, x) \/ MissesIt(c, x))
  <2>1. \A i \in DOMAIN events'[x] \ DOMAIN events[x] : i = Len(events[x]) + 1
    BY <1>1, <1>3 DEF Appends
  <2>2. \A i \in DOMAIN events[x] : i \in DOMAIN events'[x] /\ events'[x][i] = events[x][i]
    BY <1>1, <1>3 DEF Appends
  <2>3. events'[x][Len(events[x]) + 1].run = loc[c].run
    BY <1>3 DEF Appends
  <2>4. DOMAIN events'[x] = DOMAIN events[x] \cup {Len(events[x]) + 1}
    BY <1>1, <1>3 DEF Appends
  <2> QED BY <1>1, <1>3, <2>1, <2>2, <2>3, <2>4
<1> QED BY <1>2, <1>3, EventStep

\* A new event is of the run of the collector that steps.
LEMMA NewEvent ==
    ASSUME TypeOK, TypeOK', NEW c \in Collector, Collect(c) \/ Crash(c), NEW x \in Posting,
           NEW i \in DOMAIN events'[x], i \notin DOMAIN events[x]
    PROVE  /\ events'[x][i].run = loc[c].run /\ pc[c] # "idle" /\ i = Len(events[x]) + 1
           /\ Appends(c, x) /\ (SightsIt(c, x) \/ MissesIt(c, x))
<1>1. SightsIt(c, x) => pc[c] # "idle"
  BY DEF SightsIt
<1>2. MissesIt(c, x) => pc[c] # "idle"
  BY DEF MissesIt, RecordAbsences
<1> QED BY <1>1, <1>2, EventsStay

\* Outside of its return a collector keeps its run.
LEMMA StayInRun ==
    ASSUME TypeOK, NEW c \in Collector, Collect(c) \/ Crash(c),
           ~\E wanted \in SUBSET Posting : Start(c, wanted)
    PROVE  pc[c] # "idle" /\ (pc'[c] # "idle" => loc'[c].run = loc[c].run)
<1>1. pc \in [Collector -> Label] /\ loc \in [Collector -> Local]
  BY DEF TypeOK
<1>2. CASE Return(c) /\ pc[c] # "idle"
  BY <1>1, <1>2 DEF Return, Goto
<1>3. CASE loc' = loc /\ pc[c] # "idle"
  BY <1>3
<1>4. CASE (\E listed \in SUBSET Posting : FetchListing(c, listed)) \/ DetailsDone(c)
  <2>1. CASE DetailsDone(c)
    BY <1>1, <2>1 DEF DetailsDone, Local
  <2>2. CASE \E listed \in SUBSET Posting : FetchListing(c, listed)
    <3>1. pc[c] = "listing" /\ \E S : loc' = [loc EXCEPT ![c].scoped = S, ![c].left = S]
      BY <2>2 DEF FetchListing
    <3> QED BY <1>1, <3>1 DEF Local
  <2> QED BY <1>4, <2>1, <2>2
<1>5. CASE \E x \in Posting : BeginDetail(c, x)
  BY <1>1, <1>5 DEF BeginDetail, Local
<1> QED BY <1>2, <1>3, <1>4, <1>5 DEF Collect, Crash, ListingFails, DetailFails,
           RecordActive, MissPosting, CreatePosting, RecordAbsences, AbsencesFail, Finish, Fail

LEMMA StartRun ==
    ASSUME TypeOK, NEW c \in Collector, NEW wanted \in SUBSET Posting, Start(c, wanted)
    PROVE  /\ pc[c] = "idle" /\ pc'[c] = "listing" /\ loc'[c].run = Len(runs) + 1
           /\ Len(runs) + 1 \notin DOMAIN runs /\ Len(runs) + 1 \in DOMAIN runs'
           /\ DOMAIN runs' = DOMAIN runs \cup {Len(runs) + 1}
           /\ ThisRun(c)'.status = "RUNNING" /\ ~ThisRun(c)'.complete
           /\ events' = events
<1> DEFINE run == [full |-> wanted = {}, status |-> "RUNNING", health |-> "UNKNOWN",
                   complete |-> FALSE, listing |-> {}, listedAt |-> Never]
           n == Len(runs) + 1
<1>1. runs' = Append(runs, run) /\ run.status = "RUNNING" /\ ~run.complete
  BY DEF Start
<1>2. runs \in Seq(Run) /\ Len(runs) \in Nat
  BY DEF TypeOK
<1>3. /\ n \notin DOMAIN runs /\ n \in DOMAIN runs' /\ runs'[n] = run
      /\ DOMAIN runs' = DOMAIN runs \cup {n}
  <2> HIDE DEF run
  <2> QED BY <1>1, <1>2
<1>4. loc'[c].run = n
  <2> DEFINE l == [NoLocal EXCEPT !.run = n, !.wanted = wanted]
  <2>1. l.run = n
    BY DEF NoLocal
  <2>2. loc' = [loc EXCEPT ![c] = l]
    BY DEF Start
  <2> HIDE DEF l, n
  <2> QED BY <2>1, <2>2 DEF TypeOK
<1>5. ThisRun(c)' = run
  BY <1>3, <1>4 DEF ThisRun
<1> HIDE DEF run
<1>6. pc[c] = "idle" /\ pc'[c] = "listing" /\ events' = events
  BY DEF Start, Goto, TypeOK
<1> QED BY <1>1, <1>3, <1>4, <1>5, <1>6

LEMMA OwnStep ==
    ASSUME TypeOK, TypeOK', OwnRuns, NEW c \in Collector, Collect(c) \/ Crash(c)
    PROVE  OwnRuns'
<1>1. ASSUME NEW d \in Collector \ {c}, pc'[d] # "idle", pc'[c] # "idle"
      PROVE  loc'[d].run # loc'[c].run
  <2>1. pc[d] # "idle" /\ loc'[d].run = loc[d].run /\ loc[d].run \in DOMAIN runs
    BY <1>1, CollectorStep DEF TypeOK
  <2>2. CASE \E wanted \in SUBSET Posting : Start(c, wanted)
    BY <2>1, <2>2, StartRun
  <2>3. CASE ~\E wanted \in SUBSET Posting : Start(c, wanted)
    BY <1>1, <2>1, <2>3, StayInRun DEF OwnRuns
  <2> QED BY <2>2, <2>3
<1>2. ASSUME NEW d \in Collector \ {c}, NEW e \in Collector \ {c}, d # e,
             pc'[d] # "idle", pc'[e] # "idle"
      PROVE  loc'[d].run # loc'[e].run
  BY <1>2, CollectorStep DEF OwnRuns
<1> QED BY <1>1, <1>2 DEF OwnRuns

LEMMA KnownStep ==
    ASSUME TypeOK, TypeOK', RunKnown, NEW c \in Collector, Collect(c) \/ Crash(c)
    PROVE  RunKnown'
<1>1. SUFFICES ASSUME NEW x \in Posting, NEW i \in DOMAIN events'[x]
               PROVE  events'[x][i].run \in DOMAIN runs'
  BY DEF RunKnown
<1>2. CASE i \in DOMAIN events[x]
  <2>1. events'[x][i] = events[x][i] /\ events[x][i].run \in DOMAIN runs
    BY <1>2, EventsStay DEF RunKnown
  <2> QED BY <2>1, CollectorStep
<1>3. CASE i \notin DOMAIN events[x]
  <2>1. events'[x][i].run = loc[c].run /\ pc[c] # "idle"
    BY <1>3, NewEvent
  <2> QED BY <2>1, ThisRunTyped, CollectorStep
<1> QED BY <1>2, <1>3

\* The other collectors do not see a step in the rows of their runs.
LEMMA OthersStep ==
    ASSUME TypeOK, TypeOK', CollectInv, NEW c \in Collector, Collect(c) \/ Crash(c),
           NEW d \in Collector \ {c}
    PROVE  RunTrue(d)' /\ Sighted(d)' /\ Unmissed(d)'
<1>1. pc'[d] = pc[d] /\ loc'[d] = loc[d]
  BY CollectorStep
<1>2. SUFFICES ASSUME pc[d] # "idle" PROVE RunTrue(d)' /\ Sighted(d)' /\ Unmissed(d)'
  BY <1>1 DEF RunTrue, Sighted, Unmissed, Mid
<1>3. loc[d].run \in DOMAIN runs /\ (pc[c] # "idle" => loc[c].run # loc[d].run)
  BY <1>2, ThisRunTyped DEF CollectInv, OwnRuns
<1>4. ThisRun(d)' = ThisRun(d) /\ Full(d)' = Full(d)
  BY <1>1, <1>3, CollectorStep DEF ThisRun, Full
<1>5. RunTrue(d)'
  BY <1>1, <1>4 DEF CollectInv, RunTrue
<1>6. Sighted(d)'
  <2>1. SUFFICES ASSUME pc[d] \in Mid, NEW x \in loc[d].scoped \ loc[d].left
                 PROVE  \/ pc[d] \in {"detail", "create"} /\ x = loc[d].id
                        \/ \E i \in DOMAIN events'[x] : events'[x][i].run = loc[d].run
    BY <1>1 DEF Sighted
  <2>2. x \in Posting
    BY DEF TypeOK, Local
  <2> QED BY <2>1, <2>2, EventsStay DEF CollectInv, Sighted
<1>7. Unmissed(d)'
  <2>1. SUFFICES ASSUME pc[d] \notin {"idle", "final"}, NEW x \in Posting,
                        NEW i \in DOMAIN events'[x], events'[x][i].run = loc[d].run
                 PROVE  events'[x][i].type \notin Absent
    BY <1>1 DEF Unmissed
  <2>2. i \in DOMAIN events[x]
    <3>1. SUFFICES ASSUME i \notin DOMAIN events[x] PROVE FALSE
      OBVIOUS
    <3>2. events'[x][i].run = loc[c].run /\ pc[c] # "idle"
      BY <2>1, <3>1, NewEvent
    <3> QED BY <1>3, <2>1, <3>2
  <2>3. events'[x][i] = events[x][i]
    BY <2>1, <2>2, EventsStay
  <2> QED BY <2>1, <2>2, <2>3 DEF CollectInv, Unmissed
<1> QED BY <1>5, <1>6, <1>7

\* The run of a collector that goes on without recording absences is still without any.
LEMMA UnmissedStep ==
    ASSUME TypeOK, TypeOK', NEW c \in Collector, Unmissed(c), Collect(c),
           pc[c] \notin {"idle", "final"}, loc'[c].run = loc[c].run, ~RecordAbsences(c)
    PROVE  Unmissed(c)'
<1>1. SUFFICES ASSUME NEW x \in Posting, NEW i \in DOMAIN events'[x],
                      events'[x][i].run = loc[c].run
               PROVE  events'[x][i].type \notin Absent
  BY DEF Unmissed
<1>2. CASE i \in DOMAIN events[x]
  <2>1. events'[x][i] = events[x][i]
    BY <1>2, EventsStay
  <2> QED BY <1>1, <1>2, <2>1 DEF Unmissed
<1>3. CASE i \notin DOMAIN events[x]
  <2>1. SightsIt(c, x) /\ i = Len(events[x]) + 1
    BY <1>3, NewEvent DEF MissesIt
  <2> QED BY <2>1 DEF SightsIt, Absent
<1> QED BY <1>2, <1>3

\* What has its event keeps it.
LEMMA EventKept ==
    ASSUME TypeOK, TypeOK', NEW c \in Collector, Collect(c), NEW x \in Posting, NEW n,
           \E i \in DOMAIN events[x] : events[x][i].run = n
    PROVE  \E i \in DOMAIN events'[x] : events'[x][i].run = n
<1>1. PICK i \in DOMAIN events[x] : events[x][i].run = n
  OBVIOUS
<1>2. i \in DOMAIN events'[x] /\ events'[x][i].run = n
  BY <1>1, EventsStay
<1> QED BY <1>2

LEMMA ReturnsTrue ==
    ASSUME NEW c \in Collector, pc'[c] = "idle"
    PROVE  RunTrue(c)' /\ Sighted(c)' /\ Unmissed(c)'
BY DEF RunTrue, Sighted, Unmissed, Mid

LEMMA StartTrue ==
    ASSUME TypeOK, TypeOK', RunKnown, NEW c \in Collector,
           NEW wanted \in SUBSET Posting, Start(c, wanted)
    PROVE  RunTrue(c)' /\ Sighted(c)' /\ Unmissed(c)'
<1>1. /\ pc'[c] = "listing" /\ loc'[c].run = Len(runs) + 1 /\ Len(runs) + 1 \notin DOMAIN runs
      /\ ThisRun(c)'.status = "RUNNING" /\ ~ThisRun(c)'.complete /\ events' = events
  BY StartRun
<1>2. RunTrue(c)' /\ Sighted(c)'
  BY <1>1 DEF RunTrue, Sighted, Mid
<1>3. Unmissed(c)'
  BY <1>1 DEF Unmissed, RunKnown
<1> QED BY <1>2, <1>3

LEMMA ListingTrue ==
    ASSUME TypeOK, TypeOK', NEW c \in Collector, RunTrue(c), Unmissed(c),
           NEW listed \in SUBSET Posting, FetchListing(c, listed)
    PROVE  RunTrue(c)' /\ Sighted(c)' /\ Unmissed(c)'
<1> DEFINE scoped == IF Full(c) THEN listed ELSE loc[c].wanted
           run == [ThisRun(c) EXCEPT !.listing = listed, !.listedAt = clock]
<1>1. pc[c] = "listing" /\ pc'[c] = "details" /\ events' = events
  BY DEF FetchListing, Goto, TypeOK
<1>2. loc'[c].run = loc[c].run /\ loc'[c].scoped = scoped /\ loc'[c].left = scoped
  <2> HIDE DEF scoped
  <2>1. loc' = [loc EXCEPT ![c].scoped = scoped, ![c].left = scoped]
    BY DEF FetchListing, scoped
  <2> QED BY <2>1 DEF TypeOK, Local
<1>3. runs' = [runs EXCEPT ![loc[c].run] = run]
  BY <1>1, ThisRunTyped DEF FetchListing, ThisRun, Run
<1>4. /\ run.status = ThisRun(c).status /\ run.complete = ThisRun(c).complete
      /\ run.full = Full(c) /\ run.listing = listed
  BY <1>1, ThisRunTyped DEF Run, Full
<1>5. ThisRun(c)' = run
  <2> HIDE DEF run
  <2> QED BY <1>1, <1>2, <1>3, ThisRunTyped DEF ThisRun
<1>6. RunTrue(c)'
  <2> HIDE DEF run
  <2> QED BY <1>1, <1>2, <1>4, <1>5 DEF RunTrue, Full
<1>7. Sighted(c)'
  BY <1>2 DEF Sighted
<1>8. Unmissed(c)'
  BY <1>1, <1>2 DEF Unmissed
<1> QED BY <1>6, <1>7, <1>8

LEMMA DetailTrue ==
    ASSUME TypeOK, TypeOK', NEW c \in Collector, RunTrue(c), Sighted(c), Unmissed(c),
           NEW x \in Posting, BeginDetail(c, x)
    PROVE  RunTrue(c)' /\ Sighted(c)' /\ Unmissed(c)'
<1>1. /\ pc[c] = "details" /\ pc'[c] = "detail" /\ events' = events /\ runs' = runs
      /\ loc'[c].run = loc[c].run /\ loc'[c].scoped = loc[c].scoped /\ loc'[c].id = x
      /\ loc'[c].left = loc[c].left \ {x}
  BY DEF BeginDetail, Goto, TypeOK, Local
<1>2. ThisRun(c)' = ThisRun(c) /\ Full(c)' = Full(c)
  BY <1>1 DEF ThisRun, Full
<1>3. RunTrue(c)'
  BY <1>1, <1>2 DEF RunTrue, Mid
<1>4. Sighted(c)'
  BY <1>1 DEF Sighted, Mid
<1>5. Unmissed(c)'
  BY <1>1 DEF Unmissed
<1> QED BY <1>3, <1>4, <1>5

LEMMA RecordTrue ==
    ASSUME TypeOK, TypeOK', NEW c \in Collector, RunTrue(c), Sighted(c), Unmissed(c),
           RecordActive(c) \/ CreatePosting(c)
    PROVE  RunTrue(c)' /\ Sighted(c)' /\ Unmissed(c)'
<1>1. CASE Fail(c, "DEGRADED")
  BY <1>1, ReturnsTrue DEF Fail, Return, Goto, TypeOK
<1>2. CASE ~Fail(c, "DEGRADED")
  <2> DEFINE x == loc[c].id
  <2>1. /\ pc[c] \in {"detail", "create"} /\ pc'[c] = "details" /\ runs' = runs /\ loc' = loc
        /\ x \in Posting /\ \E type : Commit(x, c, type, loc[c].at)
    BY <1>2 DEF RecordActive, CreatePosting, Goto, TypeOK
  <2>2. ThisRun(c)' = ThisRun(c) /\ Full(c)' = Full(c)
    BY <2>1 DEF ThisRun, Full
  <2>3. RunTrue(c)'
    BY <2>1, <2>2 DEF RunTrue, Mid
  <2>4. \E i \in DOMAIN events'[x] : events'[x][i].run = loc[c].run
    <3>1. PICK type : Commit(x, c, type, loc[c].at)
      BY <2>1
    <3> DEFINE e == [run |-> loc[c].run, type |-> type, at |-> loc[c].at]
    <3>2. events' = [events EXCEPT ![x] = Append(@, e)] /\ e.run = loc[c].run
      BY <3>1 DEF Commit
    <3>3. events[x] \in Seq(Event) /\ events \in [Posting -> Seq(Event)]
      BY <2>1 DEF TypeOK
    <3> HIDE DEF e, x
    <3>4. events'[x] = Append(events[x], e)
      BY <2>1, <3>2, <3>3
    <3>5. Len(events[x]) + 1 \in DOMAIN events'[x] /\ events'[x][Len(events[x]) + 1] = e
      BY <3>3, <3>4
    <3> QED BY <3>2, <3>5
  <2>5. Sighted(c)'
    <3>1. SUFFICES ASSUME NEW y \in loc[c].scoped \ loc[c].left
                   PROVE  \E i \in DOMAIN events'[y] : events'[y][i].run = loc[c].run
      BY <2>1 DEF Sighted
    <3>2. CASE y = x
      BY <2>4, <3>2
    <3>3. CASE y # x
      <4>1. y \in Posting /\ \E i \in DOMAIN events[y] : events[y][i].run = loc[c].run
        BY <2>1, <3>3 DEF Sighted, Mid, TypeOK, Local
      <4> QED BY <4>1, EventKept DEF Collect
    <3> QED BY <3>2, <3>3
  <2>6. Unmissed(c)'
    BY <2>1, UnmissedStep DEF Collect, RecordAbsences
  <2> QED BY <2>3, <2>5, <2>6
<1> QED BY <1>1, <1>2

LEMMA DoneTrue ==
    ASSUME TypeOK, TypeOK', NEW c \in Collector, RunTrue(c), Sighted(c), Unmissed(c),
           MissPosting(c) \/ DetailsDone(c)
    PROVE  RunTrue(c)' /\ Sighted(c)' /\ Unmissed(c)'
<1>1. /\ events' = events /\ runs' = runs /\ pc[c] \in {"detail", "details"}
      /\ loc'[c].run = loc[c].run /\ loc'[c].scoped = loc[c].scoped
      /\ loc'[c].left = loc[c].left /\ loc'[c].id = loc[c].id
  BY DEF MissPosting, DetailsDone, TypeOK, Local
<1>2. \/ pc[c] = "detail" /\ pc'[c] = "create"
      \/ pc[c] = "details" /\ loc[c].left = {} /\ pc'[c] = "lifecycle" /\ Full(c)
      \/ pc[c] = "details" /\ loc[c].left = {} /\ pc'[c] = "final"
  BY DEF MissPosting, DetailsDone, Goto, TypeOK
<1>3. ThisRun(c)' = ThisRun(c) /\ Full(c)' = Full(c)
  BY <1>1 DEF ThisRun, Full
<1>4. RunTrue(c)'
  BY <1>1, <1>2, <1>3 DEF RunTrue, Mid
<1>5. Sighted(c)'
  BY <1>1, <1>2 DEF Sighted, Mid
<1>6. Unmissed(c)'
  BY <1>1 DEF Unmissed
<1> QED BY <1>4, <1>5, <1>6

\* The row of the run after its absences.
LEMMA AbsencesRow ==
    ASSUME TypeOK, NEW c \in Collector, RecordAbsences(c)
    PROVE  /\ pc[c] = "lifecycle" /\ pc'[c] = "final" /\ loc' = loc
           /\ ThisRun(c)'.status = ThisRun(c).status
           /\ ThisRun(c)'.complete = ThisRun(c).complete
           /\ Full(c)' = Full(c) /\ ThisRun(c)'.listing = ThisRun(c).listing
           /\ ThisRun(c)'.health = "HEALTHY"
<1> DEFINE run == [ThisRun(c) EXCEPT !.health = "HEALTHY"]
<1>1. pc[c] = "lifecycle" /\ pc'[c] = "final" /\ loc' = loc
  BY DEF RecordAbsences, Goto, TypeOK
<1>2. runs' = [runs EXCEPT ![loc[c].run] = run]
  BY <1>1, ThisRunTyped DEF RecordAbsences, ThisRun, Run
<1>3. /\ run.status = ThisRun(c).status /\ run.complete = ThisRun(c).complete
      /\ run.full = Full(c) /\ run.listing = ThisRun(c).listing /\ run.health = "HEALTHY"
  BY <1>1, ThisRunTyped DEF Run, Full
<1> HIDE DEF run
<1>4. ThisRun(c)' = run
  BY <1>1, <1>2, ThisRunTyped DEF ThisRun
<1> QED BY <1>1, <1>3, <1>4 DEF Full

LEMMA AbsencesTrue ==
    ASSUME TypeOK, TypeOK', NEW c \in Collector, RunTrue(c), Sighted(c), RecordAbsences(c)
    PROVE  RunTrue(c)' /\ Sighted(c)' /\ Unmissed(c)'
<1>1. RunTrue(c)'
  BY AbsencesRow DEF RunTrue, Mid
<1>2. Sighted(c)'
  <2>1. SUFFICES ASSUME NEW y \in loc[c].scoped \ loc[c].left
                 PROVE  \E i \in DOMAIN events'[y] : events'[y][i].run = loc[c].run
    BY AbsencesRow DEF Sighted
  <2>2. y \in Posting /\ \E i \in DOMAIN events[y] : events[y][i].run = loc[c].run
    BY <2>1, AbsencesRow DEF Sighted, Mid, TypeOK, Local
  <2> QED BY <2>2, EventKept DEF Collect
<1>3. Unmissed(c)'
  BY AbsencesRow DEF Unmissed
<1> QED BY <1>1, <1>2, <1>3

LEMMA OneselfStep ==
    ASSUME TypeOK, TypeOK', CollectInv, NEW c \in Collector, Collect(c) \/ Crash(c)
    PROVE  RunTrue(c)' /\ Sighted(c)' /\ Unmissed(c)'
<1>1. RunTrue(c) /\ Sighted(c) /\ Unmissed(c) /\ RunKnown
  BY DEF CollectInv
<1>2. CASE ListingFails(c) \/ DetailFails(c) \/ AbsencesFail(c) \/ Finish(c) \/ Crash(c)
  BY <1>2, ReturnsTrue DEF ListingFails, DetailFails, AbsencesFail, Finish, Crash, Fail,
     Return, Goto, TypeOK
<1> QED BY <1>1, <1>2, StartTrue, ListingTrue, DetailTrue, RecordTrue, DoneTrue,
           AbsencesTrue DEF Collect

\* The row of the run after its last save.
LEMMA FinishRow ==
    ASSUME TypeOK, NEW c \in Collector, Finish(c)
    PROVE  /\ pc[c] = "final" /\ events' = events
           /\ runs'[loc[c].run].status = "SUCCEEDED" /\ runs'[loc[c].run].health = "HEALTHY"
           /\ runs'[loc[c].run].complete = Full(c) /\ runs'[loc[c].run].full = Full(c)
           /\ runs'[loc[c].run].listing = ThisRun(c).listing
<1> DEFINE run == [ThisRun(c) EXCEPT !.status = "SUCCEEDED", !.health = "HEALTHY",
                                     !.complete = Full(c)]
<1>1. pc[c] = "final" /\ events' = events
  BY DEF Finish
<1>2. runs' = [runs EXCEPT ![loc[c].run] = run]
  BY <1>1, ThisRunTyped DEF Finish, ThisRun, Run
<1>3. /\ run.status = "SUCCEEDED" /\ run.complete = Full(c) /\ run.health = "HEALTHY"
      /\ run.full = Full(c) /\ run.listing = ThisRun(c).listing
  BY <1>1, ThisRunTyped DEF Run, Full
<1> HIDE DEF run
<1>4. runs'[loc[c].run] = run
  BY <1>1, <1>2, ThisRunTyped
<1> QED BY <1>1, <1>3, <1>4

\* The row of a run that fails, or goes on before its absences, promises nothing.
LEMMA Incomplete ==
    ASSUME TypeOK, NEW c \in Collector, RunTrue(c), Collect(c) \/ Crash(c), ~Finish(c),
           NEW n \in DOMAIN runs', runs'[n].complete
    PROVE  n \in DOMAIN runs /\ runs'[n] = runs[n]
<1>1. CASE \E wanted \in SUBSET Posting : Start(c, wanted)
  <2>1. PICK wanted \in SUBSET Posting : Start(c, wanted)
    BY <1>1
  <2>2. n # Len(runs) + 1
    BY <2>1, StartRun DEF ThisRun
  <2>3. n \in DOMAIN runs
    BY <2>1, <2>2, StartRun
  <2> QED BY <2>1, <2>3, StartRun, CollectorStep
<1>2. CASE ~\E wanted \in SUBSET Posting : Start(c, wanted)
  <2>1. pc[c] # "idle" /\ runs \in Seq(Run)
    BY <1>2, StayInRun DEF TypeOK
  <2>2. ~ThisRun(c).complete
    BY <2>1 DEF RunTrue
  <2>3. CASE \E listed \in SUBSET Posting : FetchListing(c, listed)
    <3>1. PICK listed \in SUBSET Posting : FetchListing(c, listed)
      BY <2>3
    <3> DEFINE run == [ThisRun(c) EXCEPT !.listing = listed, !.listedAt = clock]
    <3>2. runs' = [runs EXCEPT ![loc[c].run] = run] /\ ~run.complete
      BY <2>1, <2>2, <3>1, ThisRunTyped DEF FetchListing, ThisRun, Run
    <3> HIDE DEF run
    <3> QED BY <2>1, <3>2, ThisRunTyped
  <2>4. CASE RecordAbsences(c)
    <3> DEFINE run == [ThisRun(c) EXCEPT !.health = "HEALTHY"]
    <3>1. runs' = [runs EXCEPT ![loc[c].run] = run] /\ ~run.complete
      BY <2>1, <2>2, <2>4, ThisRunTyped DEF RecordAbsences, ThisRun, Run
    <3> HIDE DEF run
    <3> QED BY <2>1, <3>1, ThisRunTyped
  <2>5. ASSUME NEW health, Fail(c, health)
        PROVE  n \in DOMAIN runs /\ runs'[n] = runs[n]
    <3> DEFINE run == [ThisRun(c) EXCEPT !.status = "FAILED", !.complete = FALSE,
                                         !.health = health]
    <3>1. runs' = [runs EXCEPT ![loc[c].run] = run] /\ ~run.complete
      BY <2>1, <2>5, ThisRunTyped DEF Fail, ThisRun, Run
    <3> HIDE DEF run
    <3> QED BY <2>1, <3>1, ThisRunTyped
  <2>6. CASE runs' = runs
    BY <2>6
  <2> QED BY <1>2, <2>3, <2>4, <2>5, <2>6 DEF Collect, Crash, ListingFails, BeginDetail,
             DetailFails, RecordActive, MissPosting, CreatePosting, DetailsDone, AbsencesFail
<1> QED BY <1>1, <1>2

LEMMA AbsenceStep ==
    ASSUME TypeOK, TypeOK', CollectInv, NEW c \in Collector, Collect(c) \/ Crash(c)
    PROVE  AbsenceFromHealthyListing'
<1> DEFINE Sound(run, x) ==
        run.full /\ run.health = "HEALTHY" /\ run.status # "FAILED" /\ x \notin run.listing
<1>1. SUFFICES ASSUME NEW x \in Posting, NEW i \in DOMAIN events'[x],
                      events'[x][i].type \in Absent
               PROVE  Sound(runs'[events'[x][i].run], x)
  BY DEF AbsenceFromHealthyListing
<1>2. RunTrue(c) /\ Unmissed(c)
  BY DEF CollectInv
<1>3. CASE i \in DOMAIN events[x]
  <2> DEFINE n == events[x][i].run
  <2>1. events'[x][i] = events[x][i] /\ n \in DOMAIN runs
    BY <1>3, EventsStay DEF CollectInv, RunKnown
  <2>2. Sound(runs[n], x)
    BY <1>1, <1>3, <2>1 DEF CollectInv, AbsenceFromHealthyListing
  <2>3. CASE runs'[n] = runs[n]
    BY <2>1, <2>2, <2>3
  <2>4. CASE runs'[n] # runs[n]
    <3>1. pc[c] # "idle" /\ n = loc[c].run
      BY <2>1, <2>4, CollectorStep
    <3>2. pc[c] = "final"
      BY <1>1, <1>2, <1>3, <2>1, <3>1 DEF Unmissed
    <3>3. Finish(c)
      BY <2>4, <3>2 DEF Collect, Crash, Start, FetchListing, ListingFails, BeginDetail,
         DetailFails, RecordActive, MissPosting, CreatePosting, DetailsDone, RecordAbsences,
         AbsencesFail
    <3>4. /\ runs'[n].status = "SUCCEEDED" /\ runs'[n].health = "HEALTHY"
          /\ runs'[n].full = runs[n].full /\ runs'[n].listing = runs[n].listing
      BY <3>1, <3>3, FinishRow DEF ThisRun, Full
    <3> HIDE DEF n
    <3> QED BY <2>1, <2>2, <3>4 DEF n
  <2> QED BY <2>3, <2>4
<1>4. CASE i \notin DOMAIN events[x]
  <2>1. events'[x][i].run = loc[c].run /\ RecordAbsences(c) /\ x \in Candidates(c)
    <3>1. /\ events'[x][i].run = loc[c].run /\ i = Len(events[x]) + 1
          /\ SightsIt(c, x) \/ MissesIt(c, x)
      BY <1>4, NewEvent
    <3>2. SightsIt(c, x) => events'[x][i].type \notin Absent
      BY <3>1 DEF SightsIt, Absent
    <3> QED BY <1>1, <3>1, <3>2 DEF MissesIt
  <2>2. /\ pc[c] = "lifecycle" /\ Full(c) /\ loc[c].scoped = ThisRun(c).listing
        /\ ThisRun(c).status = "RUNNING"
    BY <1>2, <2>1, AbsencesRow DEF RunTrue, Mid
  <2>3. x \notin loc[c].scoped
    BY <2>1 DEF Candidates
  <2>4. ThisRun(c)' = runs'[loc[c].run] /\ Full(c)' = runs'[loc[c].run].full
    BY <2>1, AbsencesRow DEF ThisRun, Full
  <2> QED BY <2>1, <2>2, <2>3, <2>4, AbsencesRow
<1> QED BY <1>3, <1>4

LEMMA ListingsTyped ==
    ASSUME TypeOK'
    PROVE  \A n \in DOMAIN runs' : runs'[n].listing \subseteq Posting
<1>1. runs' \in Seq(Run)
  BY DEF TypeOK
<1>2. \A n \in DOMAIN runs' : runs'[n] \in Run
  BY <1>1
<1> QED BY <1>2 DEF Run

LEMMA SnapshotStep ==
    ASSUME TypeOK, TypeOK', CollectInv, AbsenceFromHealthyListing',
           NEW c \in Collector, Collect(c) \/ Crash(c)
    PROVE  SnapshotAccounted'
<1>1. SUFFICES ASSUME NEW n \in DOMAIN runs', runs'[n].complete,
                      NEW x \in runs'[n].listing
               PROVE  \E i \in DOMAIN events'[x] : events'[x][i].run = n
  <2>1. \A n \in DOMAIN runs' : runs'[n].listing \subseteq Posting
    BY ListingsTyped
  <2>2. ASSUME NEW n \in DOMAIN runs', NEW x \in runs'[n].listing, NEW i \in DOMAIN events'[x],
               events'[x][i].run = n
        PROVE  events'[x][i].type \notin Absent
    BY <2>1, <2>2 DEF AbsenceFromHealthyListing
  <2> QED BY <2>2 DEF SnapshotAccounted
<1>2. x \in Posting
  BY <1>1, ListingsTyped
<1>3. RunTrue(c) /\ Sighted(c)
  BY DEF CollectInv
<1>4. ASSUME \E i \in DOMAIN events[x] : events[x][i].run = n
      PROVE  \E i \in DOMAIN events'[x] : events'[x][i].run = n
  <2>1. PICK i \in DOMAIN events[x] : events[x][i].run = n
    BY <1>4
  <2>2. i \in DOMAIN events'[x] /\ events'[x][i].run = n
    BY <1>2, <2>1, EventsStay
  <2> QED BY <2>2
<1>5. CASE n \in DOMAIN runs /\ runs'[n] = runs[n]
  BY <1>1, <1>4, <1>5 DEF CollectInv, SnapshotAccounted
<1>6. CASE ~(n \in DOMAIN runs /\ runs'[n] = runs[n])
  <2>1. Finish(c)
    BY <1>1, <1>3, <1>6, Incomplete
  <2>2. n = loc[c].run
    <3>1. DOMAIN runs' = DOMAIN runs
      BY <2>1 DEF Finish
    <3> QED BY <1>6, <3>1, CollectorStep
  <2>3. Full(c) /\ x \in ThisRun(c).listing
    BY <1>1, <2>1, <2>2, FinishRow
  <2>4. pc[c] = "final" /\ loc[c].scoped = ThisRun(c).listing /\ loc[c].left = {}
    BY <1>3, <2>1, <2>3, FinishRow DEF RunTrue, Mid
  <2>5. \E i \in DOMAIN events[x] : events[x][i].run = n
    BY <1>3, <2>2, <2>3, <2>4 DEF Sighted, Mid
  <2> QED BY <1>4, <2>5
<1> QED BY <1>5, <1>6

\* Every step keeps what is known of the runs.
LEMMA CollectStep ==
    ASSUME TypeOK, TypeOK', CollectInv, [LifecycleNext]_lifecycleVars
    PROVE  CollectInv'
<1>1. ASSUME NEW c \in Collector, Collect(c) \/ Crash(c) PROVE CollectInv'
  <2>1. OwnRuns' /\ RunKnown'
    BY <1>1, OwnStep, KnownStep DEF CollectInv
  <2>2. \A d \in Collector : RunTrue(d)' /\ Sighted(d)' /\ Unmissed(d)'
    BY <1>1, OthersStep, OneselfStep
  <2>3. AbsenceFromHealthyListing'
    BY <1>1, AbsenceStep
  <2>4. SnapshotAccounted'
    BY <1>1, <2>3, SnapshotStep
  <2> QED BY <2>1, <2>2, <2>3, <2>4 DEF CollectInv
<1>2. CASE Tick \/ UNCHANGED lifecycleVars
  <2>1. UNCHANGED <<runs, events, pc, loc>>
    BY <1>2 DEF Tick, lifecycleVars
  <2> QED BY <2>1 DEF CollectInv, OwnRuns, RunKnown, RunTrue, Sighted, Unmissed, ThisRun, Full,
             AbsenceFromHealthyListing, SnapshotAccounted
<1> QED BY <1>1, <1>2 DEF LifecycleNext

\* The inductive invariant of the runs, behind the two theorems below.
THEOREM CollectionSound == LifecycleSpec => []CollectInv
<1>1. LifecycleInit => CollectInv
  BY DEF LifecycleInit, CollectInv, OwnRuns, RunKnown, RunTrue, Sighted, Unmissed, Mid,
     AbsenceFromHealthyListing, SnapshotAccounted
<1>2. TypeOK /\ TypeOK' /\ CollectInv /\ [LifecycleNext]_lifecycleVars => CollectInv'
  BY CollectStep
<1> QED BY <1>1, <1>2, LifecycleTyped, PTL DEF LifecycleSpec

\* Contract section 6, for any collectors: only a full run that was healthy to its end says
\* that a posting is absent, and only of one that its own listing lacks.
THEOREM AbsencesAreListed == LifecycleSpec => []AbsenceFromHealthyListing
<1>1. CollectInv => AbsenceFromHealthyListing
  BY DEF CollectInv
<1> QED BY <1>1, CollectionSound, PTL

\* README GATE-004, for any collectors: a complete snapshot has an event of every posting
\* of its listing, and none of them is an absence.
THEOREM SnapshotsAccounted == LifecycleSpec => []SnapshotAccounted
<1>1. CollectInv => SnapshotAccounted
  BY DEF CollectInv
<1> QED BY <1>1, CollectionSound, PTL

-----------------------------------------------------------------------------
(* Rows and their events.  The negatives of a row are the length of the    *)
(* suffix of absences of its events: what they are counted and dated by.   *)

NewType(x) == events'[x][Len(events[x]) + 1].type

Unknown(x) == posting[x].status = "UNKNOWN"

Projects(r, es) ==
    LET n == Len(es)
        k == r.negatives
    IN  /\ k < n
        /\ r.status = es[n].type /\ r.first = es[1].at
        /\ es[n - k].type \notin Absent
        /\ \A i \in (n - k + 1)..n : es[i].type \in Absent
        /\ \A i \in (n - k + 1)..(n - 1) : es[i].type = "DISAPPEARED_PENDING"
        /\ k = 0 => r.last = es[n].at /\ r.firstNegative = Never
        /\ k > 0 => r.firstNegative = es[n - k + 1].at /\ r.lastNegative = es[n].at

RowTrue(x) == IF Len(events[x]) = 0 THEN posting[x] = NoPosting ELSE Projects(posting[x], events[x])

RowInv == (\A x \in Posting : RowTrue(x)) /\ ClosureEvidence

LEMMA CommitEvent ==
    ASSUME TypeOK, NEW c \in Collector, loc[c].id \in Posting, NEW type,
           Commit(loc[c].id, c, type, loc[c].at)
    PROVE  Appends(c, loc[c].id) /\ NewType(loc[c].id) = type
<1> DEFINE e == [run |-> loc[c].run, type |-> type, at |-> loc[c].at]
           x == loc[c].id
<1>1. e.run = loc[c].run /\ e.type = type /\ e.at = loc[c].at
  OBVIOUS
<1>2. events[x] \in Seq(Event) /\ events \in [Posting -> Seq(Event)]
  BY DEF TypeOK
<1>3. events' = [events EXCEPT ![x] = Append(@, e)]
  BY DEF Commit
<1> HIDE DEF e, x
<1>4. x \in Posting /\ events'[x] = Append(events[x], e)
  BY <1>2, <1>3 DEF x
<1>5. events'[x][Len(events[x]) + 1] = e
  BY <1>2, <1>4
<1>6. /\ Len(events'[x]) = Len(events[x]) + 1
      /\ \A i \in 1..Len(events[x]) : events'[x][i] = events[x][i]
  BY <1>2, <1>4
<1>7. Appends(c, x) /\ NewType(x) = type
  BY <1>1, <1>5, <1>6 DEF Appends, NewType
<1> QED BY <1>7 DEF x

\* The four things a step does to a row and its events.
Recorded(c, x) ==
    /\ Appends(c, x) /\ NewType(x) = "STILL_ACTIVE" /\ ~Unknown(x)
    /\ posting'[x] = Seen(posting[x], loc[c].at)

Created(c, x) ==
    /\ Appends(c, x) /\ NewType(x) = "NEW" /\ Unknown(x)
    /\ posting'[x] = [NoPosting EXCEPT !.status = "NEW", !.first = loc[c].at,
                                      !.last = loc[c].at]

MissedIn(c, x) ==
    /\ Appends(c, x) /\ RecordAbsences(c) /\ x \in Candidates(c)
    /\ NewType(x) = Missed(posting[x], loc[c].at).status
    /\ posting'[x] = Missed(posting[x], loc[c].at)

LEMMA RowStep ==
    ASSUME TypeOK, NEW c \in Collector, Collect(c) \/ Crash(c), NEW x \in Posting
    PROVE  \/ events'[x] = events[x] /\ posting'[x] = posting[x]
           \/ Recorded(c, x) \/ Created(c, x) \/ MissedIn(c, x)
<1>1. CASE RecordActive(c) /\ ~Fail(c, "DEGRADED")
  <2>1. /\ loc[c].id \in Posting /\ posting \in [Posting -> PostingRow]
        /\ posting' = [posting EXCEPT ![loc[c].id] = Seen(@, loc[c].at)]
        /\ Commit(loc[c].id, c, "STILL_ACTIVE", loc[c].at) /\ ~Unknown(loc[c].id)
    BY <1>1 DEF RecordActive, TypeOK, Unknown
  <2>2. CASE x = loc[c].id
    <3>1. Appends(c, loc[c].id) /\ NewType(loc[c].id) = "STILL_ACTIVE"
      BY <2>1, CommitEvent
    <3>2. posting'[x] = Seen(posting[x], loc[c].at)
      BY <2>1, <2>2
    <3> QED BY <2>1, <2>2, <3>1, <3>2 DEF Recorded
  <2>3. CASE x # loc[c].id
    BY <2>1, <2>3 DEF Commit, TypeOK
  <2> QED BY <2>2, <2>3
<1>2. CASE CreatePosting(c) /\ ~Fail(c, "DEGRADED")
  <2> DEFINE r == [NoPosting EXCEPT !.status = "NEW", !.first = loc[c].at, !.last = loc[c].at]
  <2>1. /\ loc[c].id \in Posting /\ posting \in [Posting -> PostingRow]
        /\ posting' = [posting EXCEPT ![loc[c].id] = r]
        /\ Commit(loc[c].id, c, "NEW", loc[c].at) /\ Unknown(loc[c].id)
    BY <1>2 DEF CreatePosting, TypeOK, Unknown
  <2>2. CASE x = loc[c].id
    <3>1. Appends(c, loc[c].id) /\ NewType(loc[c].id) = "NEW"
      BY <2>1, CommitEvent
    <3>2. posting'[x] = r
      <4> HIDE DEF r
      <4> QED BY <2>1, <2>2
    <3> QED BY <2>1, <2>2, <3>1, <3>2 DEF Created
  <2>3. CASE x # loc[c].id
    <3> HIDE DEF r
    <3> QED BY <2>1, <2>3 DEF Commit, TypeOK
  <2> QED BY <2>2, <2>3
<1>3. CASE RecordAbsences(c)
  <2> DEFINE missed == [y \in Candidates(c) |-> Missed(posting[y], loc[c].at)]
  <2>1. posting' = [y \in Posting |-> IF y \in Candidates(c) THEN missed[y] ELSE posting[y]]
    BY <1>3 DEF RecordAbsences
  <2>2. CASE x \in Candidates(c)
    <3>1. events'[x] # events[x] /\ (events'[x] # events[x] => Appends(c, x) /\ MissesIt(c, x))
      <4>1. pc[c] = "lifecycle"
        BY <1>3 DEF RecordAbsences
      <4>2. ~SightsIt(c, x)
        BY <4>1 DEF SightsIt
      <4> DEFINE e == [run |-> loc[c].run, type |-> missed[x].status, at |-> loc[c].at]
      <4>3. events'[x] = Append(events[x], e)
        BY <1>3, <2>2 DEF RecordAbsences
      <4>4. events[x] \in Seq(Event)
        BY DEF TypeOK
      <4> HIDE DEF e, missed
      <4>5. events'[x] # events[x]
        <5>1. Len(events'[x]) = Len(events[x]) + 1 /\ Len(events[x]) \in Nat
          BY <4>3, <4>4
        <5> QED BY <5>1
      <4> QED BY <4>2, <4>5, EventStep
    <3>2. posting'[x] = Missed(posting[x], loc[c].at)
      BY <2>1, <2>2
    <3> QED BY <1>3, <2>2, <3>1, <3>2 DEF MissedIn, MissesIt, NewType
  <2>3. CASE x \notin Candidates(c)
    BY <1>3, <2>1, <2>3 DEF RecordAbsences
  <2> QED BY <2>2, <2>3
<1>4. CASE Fail(c, "DEGRADED")
  BY <1>4 DEF Fail
<1>5. CASE ~RecordActive(c) /\ ~CreatePosting(c) /\ ~RecordAbsences(c)
  <2>1. UNCHANGED <<posting, events>>
    BY <1>5 DEF Collect, Crash, Start, FetchListing, ListingFails, BeginDetail, DetailFails,
       MissPosting, DetailsDone, AbsencesFail, Finish, Fail
  <2> QED BY <2>1
<1> QED BY <1>1, <1>2, <1>3, <1>4, <1>5

\* A row with one more event: a sighting, the first one, an absence.
LEMMA SeenProjects ==
    ASSUME NEW r \in PostingRow, NEW es \in Seq(Event), NEW fs \in Seq(Event), NEW at \in Nat,
           Len(es) > 0, Projects(r, es), Len(fs) = Len(es) + 1,
           \A i \in 1..Len(es) : fs[i] = es[i],
           fs[Len(es) + 1].type = "STILL_ACTIVE", fs[Len(es) + 1].at = at
    PROVE  Projects(Seen(r, at), fs)
<1> DEFINE s == Seen(r, at)
<1>1. /\ s.status = "STILL_ACTIVE" /\ s.negatives = 0 /\ s.first = r.first /\ s.last = at
      /\ s.firstNegative = Never
  BY DEF Seen, PostingRow
<1>2. Len(es) \in Nat /\ r.first = fs[1].at
  BY DEF Projects
<1> HIDE DEF s
<1>3. Projects(s, fs)
  BY <1>1, <1>2 DEF Projects, Absent
<1> QED BY <1>3 DEF s

LEMMA NewProjects ==
    ASSUME NEW fs \in Seq(Event), NEW at \in Nat, Len(fs) = 1, fs[1].type = "NEW",
           fs[1].at = at
    PROVE  Projects([NoPosting EXCEPT !.status = "NEW", !.first = at, !.last = at], fs)
<1> DEFINE s == [NoPosting EXCEPT !.status = "NEW", !.first = at, !.last = at]
<1>1. /\ s.status = "NEW" /\ s.negatives = 0 /\ s.first = at /\ s.last = at
      /\ s.firstNegative = Never
  BY DEF NoPosting
<1> HIDE DEF s
<1>2. Projects(s, fs)
  BY <1>1 DEF Projects, Absent
<1> QED BY <1>2 DEF s

LEMMA MissedProjects ==
    ASSUME NEW r \in PostingRow, NEW es \in Seq(Event), NEW fs \in Seq(Event), NEW at \in Nat,
           Len(es) > 0, Projects(r, es), r.status # "CLOSED_OBSERVED", Len(fs) = Len(es) + 1,
           \A i \in 1..Len(es) : fs[i] = es[i],
           fs[Len(es) + 1].type = Missed(r, at).status, fs[Len(es) + 1].at = at
    PROVE  /\ Projects(Missed(r, at), fs)
           /\ fs[Len(es) + 1].type = "CLOSED_OBSERVED" =>
                  \E j \in 1..Len(es) :
                      /\ at - fs[j].at >= ConfirmationDelay /\ es[j].type \in Absent
                      /\ \A i \in j..Len(es) : fs[i].type = "DISAPPEARED_PENDING"
<1> DEFINE s == Missed(r, at)
           n == Len(es)
           k == r.negatives
<1>1. n \in Nat /\ k \in Nat /\ k < n /\ k >= 0 /\ Len(fs) = n + 1 /\ n > 0
  BY DEF Projects, PostingRow
<1>2. /\ \A i \in 1..n : /\ fs[i] = es[i] /\ fs[i].at \in Nat
                          /\ fs[i].type \in LifecycleStatus
      /\ fs[n + 1].at = at
  <2>1. \A i \in 1..n : es[i] \in Event
    BY <1>1
  <2> QED BY <2>1 DEF Event
<1>3. /\ s.status = IF Closes(r, at) THEN "CLOSED_OBSERVED" ELSE "DISAPPEARED_PENDING"
      /\ s.first = r.first /\ s.lastNegative = at /\ s.negatives = k + 1
      /\ s.firstNegative = IF r.firstNegative = Never THEN at ELSE r.firstNegative
  BY DEF Missed, PostingRow
<1>4. /\ fs[n].type = r.status /\ r.first = fs[1].at
      /\ fs[n - k].type \notin Absent
      /\ \A i \in (n - k + 1)..n : fs[i].type \in Absent
      /\ \A i \in (n - k + 1)..(n - 1) : fs[i].type = "DISAPPEARED_PENDING"
      /\ k = 0 => r.firstNegative = Never
      /\ k > 0 => r.firstNegative = fs[n - k + 1].at
  <2>1. /\ es[n].type = r.status /\ r.first = es[1].at
        /\ es[n - k].type \notin Absent
        /\ \A i \in (n - k + 1)..n : es[i].type \in Absent
        /\ \A i \in (n - k + 1)..(n - 1) : es[i].type = "DISAPPEARED_PENDING"
        /\ k = 0 => r.firstNegative = Never
        /\ k > 0 => r.firstNegative = es[n - k + 1].at
    BY DEF Projects
  <2>2. /\ 1 \in 1..n /\ n \in 1..n /\ n - k \in 1..n /\ (k > 0 => n - k + 1 \in 1..n)
        /\ \A i \in (n - k + 1)..n : i \in 1..n
        /\ \A i \in (n - k + 1)..(n - 1) : i \in 1..n
    BY <1>1
  <2> HIDE DEF n, k
  <2> QED BY <1>2, <2>1, <2>2
<1>5. \A i \in (n - k + 1)..n : fs[i].type = "DISAPPEARED_PENDING"
  <2>1. k > 0 => fs[n].type = "DISAPPEARED_PENDING"
    BY <1>1, <1>4 DEF Absent
  <2> QED BY <1>1, <1>4, <2>1
<1>6. s.firstNegative = fs[n + 1 - (k + 1) + 1].at
  <2>1. CASE k = 0
    BY <1>1, <1>2, <1>3, <1>4, <2>1
  <2>2. CASE k > 0
    <3>1. n - k + 1 \in 1..n /\ n + 1 - (k + 1) + 1 = n - k + 1
      BY <1>1, <2>2
    <3>2. r.firstNegative # Never
      BY <1>2, <1>4, <2>2, <3>1 DEF Never
    <3> QED BY <1>3, <1>4, <2>2, <3>1, <3>2
  <2> QED BY <1>1, <2>1, <2>2
<1>7. fs[n + 1].type = s.status /\ s.status \in Absent
  BY <1>3 DEF Absent
<1> HIDE DEF s, n, k
<1>8. Projects(s, fs)
  <2>1. s.negatives = k + 1 /\ k + 1 < n + 1 /\ n + 1 - (k + 1) = n - k
    BY <1>1, <1>3
  <2>2. \A i \in (n - k + 1)..(n + 1) : fs[i].type \in Absent
    BY <1>1, <1>4, <1>7
  <2> QED BY <1>1, <1>2, <1>3, <1>4, <1>5, <1>6, <1>7, <2>1, <2>2 DEF Projects
<1>9. ASSUME s.status = "CLOSED_OBSERVED"
      PROVE  \E j \in 1..n : /\ at - fs[j].at >= ConfirmationDelay /\ es[j].type \in Absent
                             /\ \A i \in j..n : fs[i].type = "DISAPPEARED_PENDING"
  <2>1. k >= 1 /\ at - r.firstNegative >= ConfirmationDelay
    BY <1>3, <1>9 DEF Closes, k
  <2>2. n - k + 1 \in 1..n
    BY <1>1, <2>1
  <2>3. r.firstNegative = fs[n - k + 1].at
    BY <1>1, <1>4, <2>1
  <2>4. es[n - k + 1].type \in Absent
    BY <1>2, <1>5, <2>2 DEF Absent
  <2> QED BY <1>5, <2>1, <2>2, <2>3, <2>4
<1> QED BY <1>7, <1>8, <1>9 DEF s, n

LEMMA RowsStep ==
    ASSUME TypeOK, TypeOK', CollectInv, RowInv, NEW c \in Collector, Collect(c) \/ Crash(c)
    PROVE  RowInv'
<1> SUFFICES ASSUME NEW x \in Posting
             PROVE  /\ RowTrue(x)'
                    /\ \A i \in DOMAIN events'[x] : events'[x][i].type = "CLOSED_OBSERVED" =>
                           \E j \in 1..(i - 1) :
                               /\ events'[x][i].at - events'[x][j].at >= ConfirmationDelay
                               /\ events'[x][i].run # events'[x][j].run
                               /\ \A k \in j..(i - 1) :
                                      events'[x][k].type = "DISAPPEARED_PENDING"
  BY DEF RowInv, ClosureEvidence
<1> DEFINE es == events[x]
           fs == events'[x]
           n == Len(es)
           Evidence(gs, i) ==
               \E j \in 1..(i - 1) : /\ gs[i].at - gs[j].at >= ConfirmationDelay
                                     /\ gs[i].run # gs[j].run
                                     /\ \A k \in j..(i - 1) : gs[k].type = "DISAPPEARED_PENDING"
<1>1. /\ es \in Seq(Event) /\ fs \in Seq(Event) /\ n \in Nat /\ posting[x] \in PostingRow
      /\ RowTrue(x)
      /\ \A i \in DOMAIN es : es[i].type = "CLOSED_OBSERVED" => Evidence(es, i)
  BY DEF TypeOK, RowInv, ClosureEvidence
<1>2. CASE fs = es /\ posting'[x] = posting[x]
  BY <1>1, <1>2 DEF RowTrue
<1>3. ASSUME Appends(c, x)
      PROVE  /\ Len(fs) = n + 1 /\ Len(fs) # 0 /\ DOMAIN fs = 1..(n + 1)
             /\ \A i \in 1..n : fs[i] = es[i]
             /\ fs[n + 1].run = loc[c].run /\ fs[n + 1].at = loc[c].at
             /\ \A i \in 1..n : fs[i].type = "CLOSED_OBSERVED" => Evidence(fs, i)
  <2>1. /\ Len(fs) = n + 1 /\ Len(fs) # 0 /\ DOMAIN fs = 1..(n + 1)
        /\ \A i \in 1..n : fs[i] = es[i]
        /\ fs[n + 1].run = loc[c].run /\ fs[n + 1].at = loc[c].at
    BY <1>1, <1>3 DEF Appends
  <2>2. ASSUME NEW i \in 1..n, fs[i].type = "CLOSED_OBSERVED" PROVE Evidence(fs, i)
    <3> HIDE DEF es, fs
    <3>1. Evidence(es, i)
      <4>1. es[i].type = "CLOSED_OBSERVED" /\ i \in DOMAIN es
        BY <1>1, <2>1, <2>2
      <4> HIDE DEF Evidence
      <4> QED BY <1>1, <4>1
    <3>2. PICK j \in 1..(i - 1) :
              /\ es[i].at - es[j].at >= ConfirmationDelay /\ es[i].run # es[j].run
              /\ \A k \in j..(i - 1) : es[k].type = "DISAPPEARED_PENDING"
      BY <3>1
    <3>3. fs[i] = es[i] /\ fs[j] = es[j] /\ \A k \in j..(i - 1) : fs[k] = es[k]
      <4>1. j \in 1..n /\ \A k \in j..(i - 1) : k \in 1..n
        BY <1>1
      <4> QED BY <2>1, <4>1
    <3> QED BY <3>2, <3>3
  <2> QED BY <2>1, <2>2
<1>4. Unknown(x) <=> n = 0
  <2>1. n = 0 => Unknown(x)
    BY <1>1 DEF RowTrue, Unknown, NoPosting
  <2>2. n # 0 => posting[x].status = es[n].type /\ es[n] \in Event
    BY <1>1 DEF RowTrue, Projects
  <2> QED BY <2>1, <2>2 DEF Event, Unknown
<1>5. CASE Recorded(c, x)
  <2>1. /\ fs[n + 1].type = "STILL_ACTIVE" /\ posting'[x] = Seen(posting[x], loc[c].at)
        /\ n # 0 /\ Appends(c, x)
    BY <1>4, <1>5 DEF Recorded, NewType
  <2>2. loc[c].at \in Nat
    <3>1. fs[n + 1] \in Event
      BY <1>1, <1>3, <1>5 DEF Recorded
    <3> QED BY <1>3, <1>5, <3>1 DEF Recorded, Event
  <2>3. Projects(posting[x], es)
    BY <1>1, <2>1 DEF RowTrue
  <2>4. Projects(posting'[x], fs)
    <3>1. n > 0
      BY <1>1, <2>1
    <3> HIDE DEF es, fs, Evidence
    <3> QED BY <1>1, <1>3, <2>1, <2>2, <2>3, <3>1, SeenProjects
  <2>5. RowTrue(x)'
    BY <1>3, <1>5, <2>4 DEF RowTrue, Recorded
  <2>6. \A i \in DOMAIN fs : fs[i].type = "CLOSED_OBSERVED" => Evidence(fs, i)
    <3> HIDE DEF es, fs, Evidence
    <3> QED BY <1>1, <1>3, <1>5, <2>1 DEF Recorded
  <2> QED BY <2>5, <2>6
<1>6. CASE Created(c, x)
  <2> DEFINE r == [NoPosting EXCEPT !.status = "NEW", !.first = loc[c].at, !.last = loc[c].at]
  <2>1. fs[n + 1].type = "NEW" /\ posting'[x] = r /\ n = 0 /\ Appends(c, x)
    BY <1>4, <1>6 DEF Created, NewType
  <2>2. loc[c].at \in Nat
    <3>1. fs[n + 1] \in Event
      BY <1>1, <1>3, <1>6 DEF Created
    <3> QED BY <1>3, <1>6, <3>1 DEF Created, Event
  <2>3. Projects(r, fs)
    <3>1. fs[1].type = "NEW" /\ fs[1].at = loc[c].at /\ Len(fs) = 1
      BY <1>3, <2>1
    <3> HIDE DEF es, fs, Evidence
    <3> QED BY <1>1, <2>2, <3>1, NewProjects
  <2>4. RowTrue(x)'
    <3> HIDE DEF r
    <3> QED BY <1>3, <1>6, <2>1, <2>3 DEF RowTrue, Created
  <2>5. \A i \in DOMAIN fs : fs[i].type = "CLOSED_OBSERVED" => Evidence(fs, i)
    <3> HIDE DEF es, fs, Evidence
    <3> QED BY <1>1, <1>3, <1>6, <2>1 DEF Created
  <2> QED BY <2>4, <2>5
<1>7. CASE MissedIn(c, x)
  <2>1. /\ Appends(c, x) /\ fs[n + 1].type = Missed(posting[x], loc[c].at).status
        /\ posting'[x] = Missed(posting[x], loc[c].at)
        /\ x \in Candidates(c) /\ pc[c] = "lifecycle"
    BY <1>7 DEF MissedIn, NewType, RecordAbsences
  <2>2. /\ loc[c].at \in Nat /\ posting[x].status # "CLOSED_OBSERVED" /\ n # 0
        /\ ConfirmationDelay \in Nat
    BY <1>4, <2>1, LifecycleAssumption DEF TypeOK, Candidates, Unknown
  <2>3. Projects(posting[x], es)
    BY <1>1, <2>2 DEF RowTrue
  <2>4. /\ Projects(posting'[x], fs)
        /\ fs[n + 1].type = "CLOSED_OBSERVED" =>
               \E j \in 1..n :
                   /\ loc[c].at - fs[j].at >= ConfirmationDelay /\ es[j].type \in Absent
                   /\ \A i \in j..n : fs[i].type = "DISAPPEARED_PENDING"
    <3> HIDE DEF es, fs
    <3> QED BY <1>1, <1>3, <2>1, <2>2, <2>3, MissedProjects
  <2>5. RowTrue(x)'
    BY <1>3, <2>1, <2>4 DEF RowTrue
  <2>6. \A j \in 1..n : es[j].type \in Absent => es[j].run # loc[c].run
    BY <1>1, <2>1 DEF CollectInv, Unmissed
  <2>7. fs[n + 1].type = "CLOSED_OBSERVED" => Evidence(fs, n + 1)
    <3> HIDE DEF es, fs
    <3>1. n + 1 - 1 = n
      BY <1>1
    <3> QED BY <1>3, <2>1, <2>4, <2>6, <3>1
  <2>8. \A i \in DOMAIN fs : fs[i].type = "CLOSED_OBSERVED" => Evidence(fs, i)
    <3> HIDE DEF es, fs, Evidence
    <3> QED BY <1>1, <1>3, <2>1, <2>7
  <2> QED BY <2>5, <2>8
<1> QED BY <1>2, <1>5, <1>6, <1>7, RowStep

\* What is counted and dated by the suffix is what RowProjectsEvents says.
LEMMA RowsProject ==
    ASSUME TypeOK, NEW x \in Posting, RowTrue(x), Len(events[x]) # 0
    PROVE  LET n == Len(events[x])
               k == posting[x].negatives
           IN  /\ Projects(posting[x], events[x])
               /\ k \in Nat /\ k < n /\ n \in Nat
               /\ Trailing(x) = (n - k + 1)..n /\ Cardinality(Trailing(x)) = k
<1> DEFINE es == events[x]
           n == Len(es)
           k == posting[x].negatives
<1>1. Projects(posting[x], es) /\ k \in Nat /\ n \in Nat /\ DOMAIN es = 1..n
  BY DEF RowTrue, TypeOK, PostingRow
<1>2. /\ k < n /\ es[n - k].type \notin Absent
      /\ \A i \in (n - k + 1)..n : es[i].type \in Absent
  BY <1>1 DEF Projects
<1>3. ASSUME NEW i \in 1..n
      PROVE  (\A j \in i..n : es[j].type \in Absent) <=> i \in (n - k + 1)..n
  <2>1. CASE i <= n - k
    <3>1. n - k \in i..n
      BY <1>1, <1>2, <2>1
    <3>2. i \notin (n - k + 1)..n
      BY <1>1, <2>1
    <3> QED BY <1>2, <3>1, <3>2
  <2>2. CASE ~(i <= n - k)
    <3>1. i \in (n - k + 1)..n /\ \A j \in i..n : j \in (n - k + 1)..n
      BY <1>1, <2>2
    <3> QED BY <1>2, <3>1
  <2> QED BY <2>1, <2>2
<1>4. Trailing(x) = (n - k + 1)..n
  <2>1. \A i \in (n - k + 1)..n : i \in 1..n
    BY <1>1, <1>2
  <2>2. Trailing(x) = {i \in 1..n : \A j \in i..n : es[j].type \in Absent}
    BY <1>1 DEF Trailing
  <2> HIDE DEF es, n, k
  <2> QED BY <1>3, <2>1, <2>2
<1>5. Cardinality(Trailing(x)) = k
  <2>1. n - k + 1 \in Int /\ n \in Int
    BY <1>1
  <2>2. Cardinality((n - k + 1)..n) = IF n - k + 1 > n THEN 0 ELSE n - (n - k + 1) + 1
    BY <2>1, FS_Interval
  <2>3. (IF n - k + 1 > n THEN 0 ELSE n - (n - k + 1) + 1) = k
    BY <1>1
  <2> QED BY <1>4, <2>2, <2>3
<1> QED BY <1>1, <1>2, <1>4, <1>5

LEMMA ProjectionHolds ==
    ASSUME TypeOK, \A x \in Posting : RowTrue(x)
    PROVE  RowProjectsEvents
<1> SUFFICES ASSUME NEW x \in Posting
             PROVE  LET n == Len(events[x])
                        first == n - Cardinality(Trailing(x)) + 1
                    IN  IF n = 0 THEN posting[x] = NoPosting
                        ELSE /\ posting[x].status = events[x][n].type
                             /\ posting[x].first = events[x][1].at
                             /\ posting[x].negatives = Cardinality(Trailing(x))
                             /\ IF Trailing(x) = {}
                                  THEN /\ posting[x].last = events[x][n].at
                                       /\ posting[x].firstNegative = Never
                                  ELSE /\ posting[x].firstNegative = events[x][first].at
                                       /\ posting[x].lastNegative = events[x][n].at
  BY DEF RowProjectsEvents
<1>1. CASE Len(events[x]) = 0
  BY <1>1 DEF RowTrue
<1>2. CASE Len(events[x]) # 0
  <2> DEFINE n == Len(events[x])
             k == posting[x].negatives
  <2>1. /\ Projects(posting[x], events[x]) /\ k \in Nat /\ k < n /\ n \in Nat
        /\ Trailing(x) = (n - k + 1)..n /\ Cardinality(Trailing(x)) = k
    BY <1>2, RowsProject
  <2>2. Trailing(x) = {} <=> k = 0
    <3>1. k > 0 => n \in (n - k + 1)..n
      BY <2>1
    <3>2. k = 0 => (n - k + 1)..n = {}
      BY <2>1
    <3> HIDE DEF n, k
    <3> QED BY <2>1, <3>1, <3>2
  <2> QED BY <1>2, <2>1, <2>2 DEF Projects
<1> QED BY <1>1, <1>2

\* The inductive invariant of the rows, behind the two theorems below.
THEOREM RowsAreTrue == LifecycleSpec => []RowInv
<1>1. LifecycleInit => RowInv
  BY DEF LifecycleInit, RowInv, RowTrue, ClosureEvidence
<1>2. TypeOK /\ TypeOK' /\ CollectInv /\ RowInv /\ [LifecycleNext]_lifecycleVars => RowInv'
  <2> SUFFICES ASSUME TypeOK, TypeOK', CollectInv, RowInv, [LifecycleNext]_lifecycleVars PROVE RowInv'
    OBVIOUS
  <2>1. ASSUME NEW c \in Collector, Collect(c) \/ Crash(c) PROVE RowInv'
    BY <2>1, RowsStep
  <2>2. CASE Tick \/ UNCHANGED lifecycleVars
    <3>1. UNCHANGED <<posting, events>>
      BY <2>2 DEF Tick, lifecycleVars
    <3> QED BY <3>1 DEF RowInv, RowTrue, ClosureEvidence
  <2> QED BY <2>1, <2>2 DEF LifecycleNext
<1> QED BY <1>1, <1>2, LifecycleTyped, CollectionSound, PTL DEF LifecycleSpec

\* README GATE-005, for any collectors: the mutable row of a posting is a function of its
\* append-only events.
THEOREM RowsProjectEvents == LifecycleSpec => []RowProjectsEvents
<1>1. TypeOK /\ RowInv => RowProjectsEvents
  BY ProjectionHolds DEF RowInv
<1> QED BY <1>1, LifecycleTyped, RowsAreTrue, PTL

\* README GATE-005, for any collectors: a closure rests on two negatives of two runs, the
\* confirmation delay apart, and on no sighting between them.
THEOREM ClosuresRest == LifecycleSpec => []ClosureEvidence
<1>1. RowInv => ClosureEvidence
  BY DEF RowInv
<1> QED BY <1>1, RowsAreTrue, PTL

=============================================================================
