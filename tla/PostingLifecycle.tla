---------------------------- MODULE PostingLifecycle ----------------------------
(***************************************************************************)
(* The collection of one source and the lifecycle of its postings:         *)
(* collectors/pipeline.py collect and observations/lifecycle.py.  Several  *)
(* processes may collect one source at a time: a daily cycle excludes the  *)
(* other cycles, and the command collect_source takes no lock.  A listing  *)
(* is read first and the details after it, each in a transaction of its    *)
(* own; the absences of a whole run are one more transaction.  The site    *)
(* publishes and withdraws postings meanwhile.                             *)
(***************************************************************************)
EXTENDS Integers, Sequences, FiniteSets, Absent

CONSTANTS
    Posting,             \* the native identifiers of the source
    Collector,           \* processes, each of which runs one collection at a time
    ConfirmationDelay,   \* CLOSURE_CONFIRMATION_DELAY
    MaxClock,            \* bound: the last tick of the clock
    MaxRuns              \* bound: collection runs started

ASSUME LifecycleAssumption ==
    /\ None \notin Posting
    /\ {ConfirmationDelay, MaxClock, MaxRuns} \subseteq Nat

VARIABLES
    clock,
    runs,      \* the collection_run table, oldest first, with its RAW listing
    posting,   \* the posting table
    events,    \* the observations and lifecycle events of a posting, as committed
    pc,        \* the statement a collector executes next
    loc        \* its local variables

lifecycleVars == <<clock, runs, posting, events, pc, loc>>

-----------------------------------------------------------------------------
(* Types.                                                                  *)

Never == -1
Stamp == Nat \cup {Never}

LifecycleStatus == {"UNKNOWN", "NEW", "STILL_ACTIVE", "DISAPPEARED_PENDING", "CLOSED_OBSERVED"}
Absent == {"DISAPPEARED_PENDING", "CLOSED_OBSERVED"}

\* An identifier without a row has the status UNKNOWN.
PostingRow == [status: LifecycleStatus, first: Stamp, last: Stamp, firstNegative: Stamp,
               lastNegative: Stamp, closed: Stamp, negatives: Nat]

\* snapshot_complete, source_health_status, and the listing with the time it was read.
Run == [full: BOOLEAN, status: {"RUNNING", "SUCCEEDED", "FAILED"},
        health: {"UNKNOWN", "HEALTHY", "DEGRADED", "OUTAGE"}, complete: BOOLEAN,
        listing: SUBSET Posting, listedAt: Stamp]

Label == {"idle", "listing", "details", "detail", "create", "lifecycle", "final"}

Event == [run: Nat, type: LifecycleStatus \ {"UNKNOWN"}, at: Nat]

\* The run, the postings asked for, scoped_ids, the entries left to fetch, the entry at
\* hand and its observed_at.
Local == [run: Nat, wanted: SUBSET Posting, scoped: SUBSET Posting, left: SUBSET Posting,
          id: Posting \cup {None}, at: Stamp]

NoPosting == [status |-> "UNKNOWN", first |-> Never, last |-> Never, firstNegative |-> Never,
              lastNegative |-> Never, closed |-> Never, negatives |-> 0]

NoLocal == [run |-> 0, wanted |-> {}, scoped |-> {}, left |-> {}, id |-> None, at |-> Never]

-----------------------------------------------------------------------------
(* Helpers.                                                                *)

ThisRun(c) == runs[loc[c].run]

Full(c) == ThisRun(c).full

Goto(c, label) == pc' = [pc EXCEPT ![c] = label]

\* The collector returns or raises; its memory is gone.
Return(c) == Goto(c, "idle") /\ loc' = [loc EXCEPT ![c] = NoLocal]

Commit(x, c, type, at) ==
    events' = [events EXCEPT ![x] = Append(@, [run |-> loc[c].run, type |-> type, at |-> at])]

\* The handler of every exception: the run is FAILED, the site out or the data degraded.
Fail(c, health) ==
    /\ runs' = [runs EXCEPT ![loc[c].run].status = "FAILED",
                            ![loc[c].run].complete = FALSE,
                            ![loc[c].run].health = health]
    /\ Return(c)
    /\ UNCHANGED <<clock, posting, events>>

-----------------------------------------------------------------------------
(* The clock.                                                              *)

Tick ==
    /\ clock < MaxClock
    /\ clock' = clock + 1
    /\ UNCHANGED <<runs, posting, events, pc, loc>>

-----------------------------------------------------------------------------
(* The listing.                                                            *)

\* A full snapshot names no postings, a targeted run names some.
Start(c, wanted) ==
    /\ pc[c] = "idle"
    /\ Len(runs) < MaxRuns
    /\ runs' = Append(runs, [full |-> wanted = {}, status |-> "RUNNING", health |-> "UNKNOWN",
                             complete |-> FALSE, listing |-> {}, listedAt |-> Never])
    /\ loc' = [loc EXCEPT ![c] = [NoLocal EXCEPT !.run = Len(runs) + 1, !.wanted = wanted]]
    /\ Goto(c, "listing")
    /\ UNCHANGED <<clock, posting, events>>

\* Defect: a limit cuts the entries of a full snapshot, too.
FetchLimited(c, listed) ==
    /\ pc[c] = "listing"
    /\ loc[c].wanted \subseteq listed
    /\ runs' = [runs EXCEPT ![loc[c].run].listing = listed, ![loc[c].run].listedAt = clock]
    /\ \E scoped \in SUBSET listed :
           loc' = [loc EXCEPT ![c].scoped = scoped, ![c].left = scoped]
    /\ Goto(c, "details")
    /\ UNCHANGED <<clock, posting, events>>

\* The whole listing, with its completeness proved: the site publishes and withdraws as it
\* likes, so it may list anything.  A limit is a smaller request here.
FetchListing(c, listed) ==
    /\ pc[c] = "listing"
    /\ loc[c].wanted \subseteq listed
    /\ runs' = [runs EXCEPT ![loc[c].run].listing = listed, ![loc[c].run].listedAt = clock]
    /\ LET scoped == IF Full(c) THEN listed ELSE loc[c].wanted
       IN  loc' = [loc EXCEPT ![c].scoped = scoped, ![c].left = scoped]
    /\ Goto(c, "details")
    /\ UNCHANGED <<clock, posting, events>>

\* A request fails, completeness is not proved, or a posting asked for is not listed.
ListingFails(c) == pc[c] = "listing" /\ Fail(c, "OUTAGE")

-----------------------------------------------------------------------------
(* The details: one transaction each.                                      *)

\* observed_at is taken before the request is sent.
BeginDetail(c, x) ==
    /\ pc[c] = "details"
    /\ x \in loc[c].left
    /\ loc' = [loc EXCEPT ![c].id = x, ![c].at = clock, ![c].left = @ \ {x}]
    /\ Goto(c, "detail")
    /\ UNCHANGED <<clock, runs, posting, events>>

\* The request, the parser, the contract or the classifier raises.
DetailFails(c) == pc[c] = "detail" /\ Fail(c, "DEGRADED")

\* Defect: a sighting leaves the negative evidence in place.
SeenKeepsNegatives(r, at) == [r EXCEPT !.last = at, !.status = "STILL_ACTIVE"]

\* record_active of a posting that has a row.
Seen(r, at) ==
    [r EXCEPT !.last = at, !.status = "STILL_ACTIVE", !.firstNegative = Never,
              !.lastNegative = Never, !.closed = Never, !.negatives = 0]

\* get_or_create_posting finds the row, locks it, and record_active updates it.  An
\* observation before first_seen_at breaks posting_seen_dates_ordered.
RecordActive(c) ==
    /\ pc[c] = "detail"
    /\ posting[loc[c].id].status # "UNKNOWN"
    /\ IF loc[c].at < posting[loc[c].id].first
         THEN Fail(c, "DEGRADED")
         ELSE /\ posting' = [posting EXCEPT ![loc[c].id] = Seen(@, loc[c].at)]
              /\ Commit(loc[c].id, c, "STILL_ACTIVE", loc[c].at)
              /\ Goto(c, "details")
              /\ UNCHANGED <<clock, runs, loc>>

\* get_or_create_posting finds no row.
MissPosting(c) ==
    /\ pc[c] = "detail"
    /\ posting[loc[c].id].status = "UNKNOWN"
    /\ Goto(c, "create")
    /\ UNCHANGED <<clock, runs, posting, events, loc>>

\* posting_source_native_id_unique lets one creation through.
CreatePosting(c) ==
    /\ pc[c] = "create"
    /\ IF posting[loc[c].id].status # "UNKNOWN"
         THEN Fail(c, "DEGRADED")
         ELSE /\ posting' = [posting EXCEPT ![loc[c].id] =
                     [NoPosting EXCEPT !.status = "NEW", !.first = loc[c].at,
                                       !.last = loc[c].at]]
              /\ Commit(loc[c].id, c, "NEW", loc[c].at)
              /\ Goto(c, "details")
              /\ UNCHANGED <<clock, runs, loc>>

-----------------------------------------------------------------------------
(* The absences and the end of a run.                                      *)

\* Defect: a targeted run records absences as well.
AbsencesOfAnyRun(c) ==
    /\ pc[c] = "details"
    /\ loc[c].left = {}
    /\ loc' = [loc EXCEPT ![c].at = clock]
    /\ Goto(c, "lifecycle")
    /\ UNCHANGED <<clock, runs, posting, events>>

\* Every entry is recorded; a full snapshot takes the time of its absences.
DetailsDone(c) ==
    /\ pc[c] = "details"
    /\ loc[c].left = {}
    /\ loc' = [loc EXCEPT ![c].at = clock]
    /\ Goto(c, IF Full(c) THEN "lifecycle" ELSE "final")
    /\ UNCHANGED <<clock, runs, posting, events>>

\* Defect: the second negative closes, whenever it comes.
ClosesOnSecond(r, at) == r.negatives >= 1

\* Defect: the two negatives need not be apart from each other, only from the sighting.
ClosesSinceSeen(r, at) == r.negatives >= 1 /\ at - r.last >= ConfirmationDelay

Closes(r, at) ==
    /\ r.negatives >= 1
    /\ at - r.firstNegative >= ConfirmationDelay

\* A posting that a healthy full listing lacks.
Missed(r, at) ==
    [r EXCEPT !.status = IF Closes(r, at) THEN "CLOSED_OBSERVED" ELSE "DISAPPEARED_PENDING",
              !.firstNegative = IF @ = Never THEN at ELSE @,
              !.lastNegative = at,
              !.closed = IF Closes(r, at) THEN at ELSE Never,
              !.negatives = @ + 1]

\* The rows that record_healthy_absences locks.
Candidates(c) ==
    {x \in Posting \ loc[c].scoped : posting[x].status \notin {"UNKNOWN", "CLOSED_OBSERVED"}}

\* record_healthy_absences with the first save of the run, one transaction; it needs
\* posting_closed_after_last_seen.
RecordAbsences(c) ==
    /\ pc[c] = "lifecycle"
    /\ runs' = [runs EXCEPT ![loc[c].run].health = "HEALTHY"]
    /\ LET missed == [x \in Candidates(c) |-> Missed(posting[x], loc[c].at)]
           event(x) == [run |-> loc[c].run, type |-> missed[x].status, at |-> loc[c].at]
       IN  /\ \A x \in Candidates(c) :
                  missed[x].closed # Never => missed[x].closed >= missed[x].last
           /\ posting' = [x \in Posting |-> IF x \in Candidates(c) THEN missed[x]
                                            ELSE posting[x]]
           /\ events' = [x \in Posting |-> IF x \in Candidates(c)
                                           THEN Append(events[x], event(x)) ELSE events[x]]
    /\ Goto(c, "final")
    /\ UNCHANGED <<clock, loc>>

\* Any exception rolls the transaction of the absences back.
AbsencesFail(c) == pc[c] = "lifecycle" /\ Fail(c, "DEGRADED")

\* The last save; a failure of it is a crash.
Finish(c) ==
    /\ pc[c] = "final"
    /\ runs' = [runs EXCEPT ![loc[c].run].status = "SUCCEEDED",
                            ![loc[c].run].health = "HEALTHY",
                            ![loc[c].run].complete = Full(c)]
    /\ Return(c)
    /\ UNCHANGED <<clock, posting, events>>

\* The process is gone: nothing uncommitted stays, and its run is RUNNING for ever.
Crash(c) ==
    /\ pc[c] # "idle"
    /\ Return(c)
    /\ UNCHANGED <<clock, runs, posting, events>>

-----------------------------------------------------------------------------
(* The specification.                                                      *)

LifecycleInit ==
    /\ clock = 0
    /\ runs = <<>>
    /\ posting = [x \in Posting |-> NoPosting]
    /\ events = [x \in Posting |-> <<>>]
    /\ pc = [c \in Collector |-> "idle"]
    /\ loc = [c \in Collector |-> NoLocal]

Collect(c) ==
    \/ \E wanted \in SUBSET Posting : Start(c, wanted)
    \/ \E listed \in SUBSET Posting : FetchListing(c, listed)
    \/ ListingFails(c)
    \/ \E x \in Posting : BeginDetail(c, x)
    \/ DetailFails(c) \/ RecordActive(c) \/ MissPosting(c) \/ CreatePosting(c)
    \/ DetailsDone(c) \/ RecordAbsences(c) \/ AbsencesFail(c) \/ Finish(c)

LifecycleNext ==
    \/ \E c \in Collector : Collect(c) \/ Crash(c)
    \/ Tick

LifecycleSpec == LifecycleInit /\ [][LifecycleNext]_lifecycleVars

-----------------------------------------------------------------------------
(* Properties.                                                             *)

\* Every row, event and local variable stays in its domain.
TypeOK ==
    /\ clock \in Nat
    /\ runs \in Seq(Run)
    /\ posting \in [Posting -> PostingRow]
    /\ events \in [Posting -> Seq(Event)]
    /\ pc \in [Collector -> Label]
    /\ loc \in [Collector -> Local]
    /\ \A c \in Collector :
           /\ pc[c] # "idle" => loc[c].run \in DOMAIN runs
           /\ pc[c] \in {"detail", "create"} => loc[c].id \in Posting
           /\ pc[c] \in {"detail", "create", "lifecycle"} => loc[c].at \in Nat

\* The negative events after the last sighting of x.
Trailing(x) ==
    {i \in DOMAIN events[x] : \A j \in i..Len(events[x]) : events[x][j].type \in Absent}

\* README GATE-005: the mutable row is a projection of the append-only events.  It has
\* the type of the last one committed, and its negative evidence is what trails the last
\* sighting, whatever collectors committed in between.
RowProjectsEvents ==
    \A x \in Posting :
        LET n == Len(events[x])
            first == n - Cardinality(Trailing(x)) + 1
        IN  IF n = 0 THEN posting[x] = NoPosting
            ELSE /\ posting[x].status = events[x][n].type
                 /\ posting[x].first = events[x][1].at
                 /\ posting[x].negatives = Cardinality(Trailing(x))
                 /\ IF Trailing(x) = {}
                      THEN posting[x].last = events[x][n].at /\ posting[x].firstNegative = Never
                      ELSE /\ posting[x].firstNegative = events[x][first].at
                           /\ posting[x].lastNegative = events[x][n].at

\* README GATE-005: what closes a posting are two negatives of different runs, at least
\* the confirmation delay apart, with no sighting between them.
ClosureEvidence ==
    \A x \in Posting : \A i \in DOMAIN events[x] :
        events[x][i].type = "CLOSED_OBSERVED" =>
            \E j \in 1..(i - 1) :
                /\ events[x][i].at - events[x][j].at >= ConfirmationDelay
                /\ events[x][i].run # events[x][j].run
                /\ \A k \in j..(i - 1) : events[x][k].type = "DISAPPEARED_PENDING"

\* A posting is NEW once, in its first event, however many runs discover it together.
NewOnce ==
    \A x \in Posting : \A i \in DOMAIN events[x] : events[x][i].type = "NEW" <=> i = 1

\* Contract section 6: outages, degraded and targeted runs imply no absence.  A negative is
\* of a full run whose health is saved with it and whose own RAW listing lacks the posting.
AbsenceFromHealthyListing ==
    \A x \in Posting : \A i \in DOMAIN events[x] : events[x][i].type \in Absent =>
        LET run == runs[events[x][i].run]
        IN  run.full /\ run.health = "HEALTHY" /\ run.status # "FAILED" /\ x \notin run.listing

\* README GATE-004: a complete snapshot has a sighting of every posting of its listing, and
\* a posting it lists is not missed by it.
SnapshotAccounted ==
    \A n \in DOMAIN runs : runs[n].complete =>
        \A x \in runs[n].listing :
            /\ \E i \in DOMAIN events[x] : events[x][i].run = n
            /\ \A i \in DOMAIN events[x] : events[x][i].run = n => events[x][i].type \notin Absent

\* The lifecycle under concurrent collectors implements the promise made for one posting.
Promised == INSTANCE PostingPromise WITH
    state <- [x \in Posting |-> posting[x].status],
    since <- [x \in Posting |-> IF posting[x].firstNegative = Never THEN 0
                                ELSE posting[x].firstNegative],
    now <- clock
KeepsPromise == Promised!Promise

\* Contract section 1: "Operational automation must never manufacture a human decision,
\* absence, closure".  No run misses a posting that was sighted after it read its listing.
NoManufacturedAbsence ==
    \A x \in Posting : \A i, j \in DOMAIN events[x] :
        i < j /\ events[x][i].type \notin Absent /\ events[x][j].type \in Absent =>
            events[x][i].at <= runs[events[x][j].run].listedAt

=============================================================================
