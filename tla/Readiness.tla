------------------------------- MODULE Readiness -------------------------------
(***************************************************************************)
(* day0/services.py: at a cutoff, the required sources, the open reviews   *)
(* and the accepted policy decide whether the market state is AUTHORIZED.  *)
(* The required sources are those of the frozen universe, in three strata. *)
(***************************************************************************)
EXTENDS Integers, FiniteSets, Absent

CONSTANTS
    Federal, City, Canton,   \* the required sources by stratum
    Blocked,                 \* FINAL_BLOCKED_REQUIRED_SOURCES
    MinFederal, MinCity,     \* REQUIRED_STRATUM_MINIMA
    Minimum,                 \* MINIMUM_REQUIRED_SOURCE_COUNT: the count the ratio 0.80 asks for
    MaxAge,                  \* MAX_FULL_SOURCE_AGE_HOURS
    Day0Cutoff,
    PolicyEffective,         \* POLICY_AUTHORITY_EFFECTIVE_AT
    Review,                  \* reviews that runs may have
    ReviewSource,            \* the source of each
    Lasting,                 \* reviews that nothing resolves: all kinds but the duplicates
    LastHour, MaxFinished,   \* bounds: the clock, collection runs
    MaxAssessments           \* bound

Required == Federal \cup City \cup Canton

ASSUME ReadinessAssumption ==
    /\ IsFiniteSet(Federal) /\ IsFiniteSet(City) /\ IsFiniteSet(Canton)
    /\ Federal \cap City = {} /\ Federal \cap Canton = {} /\ City \cap Canton = {}
    /\ Blocked \subseteq Required
    /\ {MinFederal, MinCity, Minimum, MaxAge, LastHour, MaxFinished, MaxAssessments}
           \subseteq Nat
    /\ Day0Cutoff \subseteq Nat /\ PolicyEffective \in Nat
    /\ ReviewSource \in [Review -> Required] /\ Lasting \subseteq Review

\* The count is the least one that reaches 0.80 of the required sources.
ASSUME RatioAssumption ==
    \A n \in 0..Cardinality(Required) :
        (n >= Minimum) <=> (10 * n >= 8 * Cardinality(Required))

VARIABLES
    hour,
    finishing,        \* collection runs with their finished_at, before the row is saved
    finished,         \* collection runs with a finished_at
    aligned,          \* dedup run, premium run and snapshot of one cutoff, with their reviews
    pending,          \* reviews that are PENDING
    assessments       \* day0_readiness_assessment with its source evidence

readinessVars == <<hour, finishing, finished, aligned, pending, assessments>>

\* A complete healthy full run, another healthy one, and one that failed or is not healthy.
RunKind == {"FULL", "DIAGNOSTIC", "UNHEALTHY"}

SourceRun == [source: Required, kind: RunKind, at: Nat]

Status == {"BLOCKED_QUALITY", "NOT_READY", "AUTHORIZED"}

Blocker == {"FINAL_BLOCKED_REQUIRED_SOURCES", "ACQUISITION_COVERAGE_BELOW_THRESHOLD",
            "STRUCTURAL_COVERAGE_BELOW_MINIMUM", "CRITICAL_REVIEWS"}

Completion == {"NO_ELIGIBLE_RUN", "UNHEALTHY", "COMPLETE_HEALTHY", "INCOMPLETE"}

-----------------------------------------------------------------------------
(* The evidence of a source.                                               *)

RunsBy(s, c) == {r \in finished : r.source = s /\ r.at <= c}

Newest(R) == {r \in R : \A q \in R : q.at <= r.at}

CurrentlyHealthy(s, c) ==
    /\ RunsBy(s, c) # {}
    /\ \A r \in Newest(RunsBy(s, c)) : r.kind # "UNHEALTHY"

LatestFull(s, c) == Newest({r \in RunsBy(s, c) : r.kind = "FULL"})

FreshNow(s, c) ==   \* mutant: the age is taken at the assessment, not at its cutoff
    \E r \in LatestFull(s, c) : hour - r.at <= MaxAge

Fresh(s, c) == \E r \in LatestFull(s, c) : c - r.at <= MaxAge

\* A blocked source counts in the denominator only.
Eligible(c) == {s \in Required \ Blocked : CurrentlyHealthy(s, c) /\ Fresh(s, c)}

-----------------------------------------------------------------------------
(* The decision.                                                           *)

CriticalOfAll(t, E) ==   \* mutant: the pending duplicates of every run
    {v \in Review : ReviewSource[v] \in E /\ \/ v \in t.reviews \cap Lasting
                                             \/ v \in pending}

\* A review whose answer could change a number of the market state.
Critical(t, E) ==
    {v \in t.reviews : ReviewSource[v] \in E /\ (v \in Lasting \/ v \in pending)}

CoveredByStrata(E) ==   \* mutant: the ratio is not asked for
    /\ Cardinality(E \cap Federal) >= MinFederal
    /\ Cardinality(E \cap City) >= MinCity

Covered(E) ==
    /\ 10 * Cardinality(E) >= 8 * Cardinality(Required)
    /\ Cardinality(E \cap Federal) >= MinFederal
    /\ Cardinality(E \cap City) >= MinCity

Decided(E, critical) ==
    CASE critical # {} -> "BLOCKED_QUALITY"
      [] critical = {} /\ ~Covered(E) -> "NOT_READY"
      [] OTHER -> "AUTHORIZED"

\* What is stored with the assessment: a line for each source, and what stood in the way.
CompletionStatus(s, c) ==
    CASE s \in Blocked \/ LatestFull(s, c) = {} -> "NO_ELIGIBLE_RUN"
      [] s \notin Blocked /\ LatestFull(s, c) # {} /\ ~CurrentlyHealthy(s, c) -> "UNHEALTHY"
      [] s \notin Blocked /\ CurrentlyHealthy(s, c) /\ Fresh(s, c) -> "COMPLETE_HEALTHY"
      [] OTHER -> "INCOMPLETE"

Blockers(E, critical) ==
    LET When(condition, b) == IF condition THEN {b} ELSE {}
    IN  When(Blocked # {}, "FINAL_BLOCKED_REQUIRED_SOURCES")
        \cup When(10 * Cardinality(E) < 8 * Cardinality(Required),
                  "ACQUISITION_COVERAGE_BELOW_THRESHOLD")
        \cup When(Cardinality(E \cap Federal) < MinFederal \/ Cardinality(E \cap City) < MinCity,
                  "STRUCTURAL_COVERAGE_BELOW_MINIMUM")
        \cup When(critical # {}, "CRITICAL_REVIEWS")

RunsSettled(c) == hour > c /\ \A r \in finishing : r.at > c

-----------------------------------------------------------------------------
(* Actions.                                                                *)

AdvanceHour ==
    /\ hour < LastHour /\ hour' = hour + 1
    /\ UNCHANGED <<finishing, finished, aligned, pending, assessments>>

\* collect: finished_at is read, and the row is saved some time later.
FinishRun(s, kind) ==
    /\ Cardinality(finishing) + Cardinality(finished) < MaxFinished
    /\ s \in Blocked => kind # "FULL"
    /\ \A r \in finishing \cup finished : r.source = s => r.at < hour
    /\ finishing' = finishing \cup {[source |-> s, kind |-> kind, at |-> hour]}
    /\ UNCHANGED <<hour, finished, aligned, pending, assessments>>

SaveRun(r) ==
    /\ r \in finishing
    /\ finishing' = finishing \ {r} /\ finished' = finished \cup {r}
    /\ UNCHANGED <<hour, aligned, pending, assessments>>

\* The runs of a cutoff succeed, and leave reviews that no run has had.
Align(c, reviews) ==
    /\ \A t \in aligned : t.asOf # c /\ t.reviews \cap reviews = {}
    /\ aligned' = aligned \cup {[asOf |-> c, reviews |-> reviews]}
    /\ pending' = pending \cup reviews
    /\ UNCHANGED <<hour, finishing, finished, assessments>>

\* resolve_review: of duplicates only.
ResolveReview(v) ==
    /\ v \in pending \ Lasting
    /\ pending' = pending \ {v}
    /\ UNCHANGED <<hour, finishing, finished, aligned, assessments>>

\* assess_day0_readiness: the same inputs are the same assessment.  A cutoff before the policy
\* was in force is refused.
AssessReadiness(t) ==
    /\ t \in aligned /\ Cardinality(assessments) < MaxAssessments
    /\ PolicyEffective <= t.asOf
    /\ LET E == Eligible(t.asOf)
           critical == Critical(t, E)
       IN  assessments' = assessments \cup
               {[of |-> t, eligible |-> E, critical |-> critical, status |-> Decided(E, critical),
                 evidence |-> [s \in Required |-> CompletionStatus(s, t.asOf)],
                 blockers |-> Blockers(E, critical),
                 settled |-> RunsSettled(t.asOf)]}
    /\ UNCHANGED <<hour, finishing, finished, aligned, pending>>

ReadinessInit ==
    /\ hour = 0
    /\ finishing = {} /\ finished = {} /\ aligned = {} /\ pending = {} /\ assessments = {}

ReadinessNext ==
    \/ AdvanceHour
    \/ \E s \in Required, kind \in RunKind : FinishRun(s, kind)
    \/ \E r \in finishing : SaveRun(r)
    \/ \E c \in Day0Cutoff, reviews \in SUBSET Review : Align(c, reviews)
    \/ \E v \in Review : ResolveReview(v)
    \/ \E t \in aligned : AssessReadiness(t)

ReadinessSpec == ReadinessInit /\ [][ReadinessNext]_readinessVars

-----------------------------------------------------------------------------
(* Properties.                                                             *)

ReadinessTypeOK ==
    /\ hour \in Nat
    /\ finishing \subseteq SourceRun /\ finished \subseteq SourceRun
    /\ aligned \subseteq [asOf: Day0Cutoff, reviews: SUBSET Review]
    /\ pending \subseteq Review
    /\ assessments \subseteq [of: aligned, eligible: SUBSET (Required \ Blocked),
                              critical: SUBSET Review, status: Status,
                              evidence: [Required -> Completion], blockers: SUBSET Blocker,
                              settled: BOOLEAN]

\* Freshness policy: "future runs cannot repair the past".  Assessments of one cutoff, made
\* when its runs were settled, have the same eligible sources, whatever ran in between.
FutureCannotRepair ==
    \A a, b \in assessments :
        a.settled /\ b.settled /\ a.of.asOf = b.of.asOf => a.eligible = b.eligible

\* A replay of an assessment never finds a critical review that the first did not have:
\* reviews of later runs do not veto it.
ReplayOnlyClears ==
    [][\A a \in assessments' \ assessments, b \in assessments :
           a.of = b.of /\ a.settled /\ b.settled => a.critical \subseteq b.critical]_readinessVars

\* What is stored with an assessment explains its status, although each part is computed for
\* itself.  The market is authorized exactly if nothing stood in the way but the sources that
\* are blocked for good, the sources that counted are those whose line says so, and, coverage
\* policy, the floor of the cantons follows from the total and the other strata.
AuthorizationExplained ==
    \A a \in assessments :
        /\ a.status = "AUTHORIZED" <=> a.blockers \subseteq {"FINAL_BLOCKED_REQUIRED_SOURCES"}
        /\ a.eligible = {s \in Required : a.evidence[s] = "COMPLETE_HEALTHY"}
        /\ a.status = "AUTHORIZED" =>
               Cardinality(a.eligible \cap Canton)
                   >= Minimum - Cardinality(Federal) - Cardinality(City)

=============================================================================
