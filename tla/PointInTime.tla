------------------------------ MODULE PointInTime ------------------------------
(***************************************************************************)
(* One cutoff, read by every stage: observations/pit_selection.py under    *)
(* run_deduplication, run_classification and build_dashboard_snapshot.     *)
(* Rows carry the instant at which they were made, which is before the one *)
(* at which their transaction makes them visible.                          *)
(***************************************************************************)
EXTENDS Integers, FiniteSets, Absent

CONSTANTS
    Listed,           \* the postings whose adverts a cutoff selects
    Cutoff,           \* the values of as_of
    LastInstant,      \* bound: the wall clock
    MaxRows,          \* bound: rows written
    Written           \* what an advert may be: <<green result, names a private estate>>

ASSUME PointInTimeAssumption ==
    /\ Cutoff \subseteq Nat /\ {LastInstant, MaxRows} \subseteq Nat
    /\ Written \subseteq {"GREEN_CONFIRMED", "REVIEW", "NOT_GREEN"} \X BOOLEAN

VARIABLES
    instant,
    open,             \* rows made in transactions that are still open
    rows,             \* the rows everyone sees
    dedup, premium,   \* DedupRun with its assignments, PremiumSegmentRun with its assessments
    snapshots         \* DashboardSnapshot with its records

pitVars == <<instant, open, rows, dedup, premium, snapshots>>

Of(kind) == {r \in rows : r.kind = kind}

Put(row) ==
    /\ Cardinality(rows) + Cardinality(open) < MaxRows
    /\ open' = open \cup {row}
    /\ UNCHANGED <<instant, rows, dedup, premium, snapshots>>

Elapse == instant < LastInstant /\ instant' = instant + 1 /\ UNCHANGED <<open, rows, dedup, premium, snapshots>>

-----------------------------------------------------------------------------
(* The rows.                                                               *)

\* A detail: observed_at is read before the page is fetched.
Observe(p, w) ==
    /\ \A r \in rows \cup open : r.kind = "OBSERVATION" => r.posting # p \/ r.at # instant
    /\ Put([kind |-> "OBSERVATION", posting |-> p, at |-> instant, written |-> w])

\* Its observation and the assessment of it are made later, in one transaction.
SaveObservation(r) ==
    /\ r \in open /\ r.kind = "OBSERVATION"
    /\ open' = open \ {r}
    /\ rows' = rows \cup {[kind |-> "OBSERVATION", posting |-> r.posting, at |-> r.at,
                          written |-> r.written, assessed |-> instant]}
    /\ UNCHANGED <<instant, dedup, premium, snapshots>>

\* A person answers a REVIEW; the instant of the answer may be an earlier one than the row's.
Decide(o, green, reviewed) ==
    /\ o \in Of("OBSERVATION") /\ o.written[1] = "REVIEW" /\ o.assessed <= reviewed
    /\ Put([kind |-> "DECISION", on |-> o, green |-> green, reviewed |-> reviewed, at |-> instant])

\* Evidence about an employer, available since an instant that its author states.
AddProfile(p, available) ==
    Put([kind |-> "PROFILE", posting |-> p, available |-> available, at |-> instant])

DatedAtCutoff(q) == q.asOf   \* mutant: the resolution is dated by the run it was made for

DatedAt(q) == instant

\* A batch resolves the confirmed assessments of a premium run, each in its context once.
Locate(q, a) ==
    /\ q \in premium /\ a \in q.assessed /\ a.green = "GREEN_CONFIRMED"
    /\ \A r \in rows \cup open :
           r.kind = "LOCATION" => r.on # a.observation \/ r.protected # a.protected
    /\ Put([kind |-> "LOCATION", on |-> a.observation, protected |-> a.protected, at |-> DatedAt(q)])

Save(r) ==
    /\ r \in open /\ r.kind # "OBSERVATION"
    /\ open' = open \ {r} /\ rows' = rows \cup {r}
    /\ UNCHANGED <<instant, dedup, premium, snapshots>>

-----------------------------------------------------------------------------
(* What a cutoff selects.                                                  *)

\* select_posting_states: the newest active observation of each posting.
Select(c) ==
    {o \in Of("OBSERVATION") :
        /\ o.at <= c
        /\ \A n \in Of("OBSERVATION") : n.posting = o.posting /\ n.at <= c => n.at <= o.at}

AnsweredByReview(o, c) ==   \* mutant: an answer counts from the instant it states
    {d \in Of("DECISION") : d.on = o /\ d.reviewed <= c}

\* The answers that were given and saved by the cutoff.
Answered(o, c) == {d \in Of("DECISION") : d.on = o /\ d.reviewed <= c /\ d.at <= c}

\* order_by("-reviewed_at", "-created_at").first()
Latest(D) ==
    {d \in D : \A e \in D : \/ e.reviewed < d.reviewed
                           \/ (e.reviewed = d.reviewed /\ e.at <= d.at)}

EffectiveAt(o, c) ==
    CASE o.assessed > c -> "MISSING"
      [] o.assessed <= c /\ o.written[1] # "REVIEW" -> o.written[1]
      [] OTHER -> IF Answered(o, c) = {} THEN "REVIEW"
                  ELSE (CHOOSE d \in Latest(Answered(o, c)) : TRUE).green

\* A confirmed advert is protected by its own words or by what is known of its employer.
Private(o, c) ==
    /\ EffectiveAt(o, c) = "GREEN_CONFIRMED"
    /\ o.written[2] \/ \E r \in Of("PROFILE") : r.posting = o.posting /\ r.available <= c

AssessedAt(c) ==
    {[observation |-> o, green |-> EffectiveAt(o, c), protected |-> Private(o, c)] : o \in Select(c)}

\* No row that belongs to the cutoff is still to come.
CutoffSettled(c) == instant > c /\ \A r \in open : r.at > c

-----------------------------------------------------------------------------
(* The stages.  A run whose inputs are those of an earlier one is that run.*)

RunDeduplication(c) ==
    /\ Select(c) # {}
    /\ ~\E d \in dedup : d.asOf = c /\ d.chosen = Select(c)
    /\ dedup' = dedup \cup {[asOf |-> c, chosen |-> Select(c)]}
    /\ UNCHANGED <<instant, open, rows, premium, snapshots>>

RunClassification(c) ==
    /\ Select(c) # {}
    /\ ~\E q \in premium : q.asOf = c /\ q.assessed = AssessedAt(c)
    /\ premium' = premium \cup {[asOf |-> c, assessed |-> AssessedAt(c), settled |-> CutoffSettled(c)]}
    /\ UNCHANGED <<instant, open, rows, dedup, snapshots>>

\* _validate_runs: the universe of the deduplication is selected anew.
Universe(d) ==
    {o \in Select(d.asOf) : o.posting \in {x.posting : x \in d.chosen}}

Location(a, c) ==
    {r \in Of("LOCATION") : r.on = a.observation /\ r.protected = a.protected /\ r.at <= c}

Visible(a) == a.green = "GREEN_CONFIRMED"

\* One record for each vacancy, here each posting; a protected resolution is HIDDEN.
Record(a, c) ==
    [observation |-> a.observation, visible |-> Visible(a), location |-> Location(a, c),
     mapped |-> Visible(a) /\ ~a.protected /\ Location(a, c) # {}]

BuildSnapshot(d, q) ==
    /\ d \in dedup /\ q \in premium /\ d.asOf = q.asOf
    /\ Universe(d) = {a.observation : a \in q.assessed}
    /\ snapshots' = snapshots \cup
           {[dedup |-> d, premium |-> q, records |-> {Record(a, d.asOf) : a \in q.assessed},
             settled |-> CutoffSettled(d.asOf)]}
    /\ UNCHANGED <<instant, open, rows, dedup, premium>>

-----------------------------------------------------------------------------

PitInit ==
    /\ instant = 1
    /\ open = {} /\ rows = {} /\ dedup = {} /\ premium = {} /\ snapshots = {}

PitNext ==
    \/ Elapse
    \/ \E p \in Listed, w \in Written : Observe(p, w)
    \/ \E r \in open : SaveObservation(r) \/ Save(r)
    \/ \E o \in rows, green \in {"GREEN_CONFIRMED", "NOT_GREEN", "REVIEW"}, t \in 1..instant :
           Decide(o, green, t)
    \/ \E p \in Listed, t \in 1..instant : AddProfile(p, t)
    \/ \E q \in premium : \E a \in q.assessed : Locate(q, a)
    \/ \E c \in Cutoff : RunDeduplication(c) \/ RunClassification(c)
    \/ \E d \in dedup, q \in premium : BuildSnapshot(d, q)

PitSpec == PitInit /\ [][PitNext]_pitVars

-----------------------------------------------------------------------------
(* Properties.                                                             *)

\* What was known at a cutoff stays what was known at it: a premium run made when no
\* transaction could still add to the cutoff selected the observations, with the effective
\* green results, that are selected ever after, whatever is observed or answered later.
KnowledgeStands ==
    \A q \in premium : q.settled =>
        {<<a.observation, a.green>> : a \in q.assessed}
            = {<<o, EffectiveAt(o, q.asOf)>> : o \in Select(q.asOf)}

\* ADR 0006, "Rebuilding a historical snapshot cannot consume a later resolution": two
\* snapshots of the same runs, built when the cutoff was settled, have the same records.
RebuildsAgree ==
    \A s, t \in snapshots :
        /\ s.settled /\ t.settled
        /\ s.dedup = t.dedup /\ s.premium = t.premium
        => s.records = t.records

\* _validate_runs, "dedup and premium evidence universes are incompatible": a snapshot is
\* made of the observations that its deduplication run compared.
OneEvidence ==
    \A s \in snapshots : {r.observation : r \in s.records} \subseteq s.dedup.chosen

=============================================================================
