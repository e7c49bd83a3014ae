---------------------------- MODULE Cutoff_proofs -----------------------------
(***************************************************************************)
(* Proofs about PointInTime and Readiness: what a settled cutoff selects,  *)
(* and what is decided on it, for all sets of postings and sources, all    *)
(* cutoffs, thresholds and reviews, and any number of rows and runs.       *)
(***************************************************************************)
EXTENDS Readiness, PointInTime, FiniteSetTheorems, TLAPS

-----------------------------------------------------------------------------
(* The point-in-time stages.                                               *)

\* The clock, the dates of rows and the cutoffs of runs are natural numbers.
DatedRows ==
    /\ instant \in Nat
    /\ \A r \in rows \cup open : r.at \in Nat
    /\ \A d \in dedup \cup premium : d.asOf \in Nat
    /\ \A s \in snapshots : s.dedup.asOf \in Nat

\* Nothing belongs to the cutoff any more that is not visible: the clock has passed it and
\* the transactions that are open began after it.
PastCutoff(c) == c < instant /\ \A r \in open : c < r.at

\* What was settled when a run or a snapshot was made stays so.
SettledRemain ==
    /\ \A q \in premium : q.settled => PastCutoff(q.asOf)
    /\ \A s \in snapshots : s.settled => PastCutoff(s.dedup.asOf)

\* The records of a settled snapshot are those that would be built of its runs now.
RecordsStand ==
    \A s \in snapshots : s.settled =>
        s.records = {Record(a, s.dedup.asOf) : a \in s.premium.assessed}

CutoffInv == DatedRows /\ SettledRemain /\ KnowledgeStands /\ RecordsStand

\* Where every row that becomes visible is later than c, a cutoff c selects what it selected:
\* observations, effective answers and locations.
LEMMA LaterRowsUnseen ==
    ASSUME NEW c \in Nat, rows \subseteq rows',
           \A r \in rows' \ rows : r.at \in Nat /\ c < r.at
    PROVE  /\ Select(c)' = Select(c)
           /\ \A o : EffectiveAt(o, c)' = EffectiveAt(o, c)
           /\ \A a : Record(a, c)' = Record(a, c)
<1>1. \A r \in rows' \ rows : ~(r.at <= c)
  OBVIOUS
<1>2. Select(c)' = Select(c)
  BY <1>1 DEF Select, Of
<1>3. ASSUME NEW o PROVE EffectiveAt(o, c)' = EffectiveAt(o, c)
  <2>1. Answered(o, c)' = Answered(o, c)
    BY <1>1 DEF Answered, Of
  <2>2. Latest(Answered(o, c))' = Latest(Answered(o, c))
    BY <2>1 DEF Latest
  <2> QED
    BY <2>1, <2>2 DEF EffectiveAt
<1>4. ASSUME NEW a PROVE Record(a, c)' = Record(a, c)
  <2>1. Location(a, c)' = Location(a, c)
    BY <1>1 DEF Location, Of
  <2> QED
    BY <2>1 DEF Record, Visible
<1> QED
  BY <1>2, <1>3, <1>4

\* A row that is put is dated by the clock; a row that is saved keeps its date.
LEMMA RowsMove ==
    ASSUME DatedRows, PitNext
    PROVE  \/ /\ UNCHANGED <<rows, open>> /\ instant' \in Nat /\ instant <= instant'
           \/ \E x : /\ x.at = instant /\ open' = open \cup {x}
                     /\ UNCHANGED <<instant, rows, dedup, premium, snapshots>>
           \/ \E r \in open : \E x : /\ x.at = r.at /\ open' = open \ {r} /\ rows' = rows \cup {x}
                                 /\ UNCHANGED <<instant, dedup, premium, snapshots>>
<1> USE DEF DatedRows
<1>1. CASE Elapse
  BY <1>1 DEF Elapse
<1>2. ASSUME NEW p \in Listed, NEW w \in Written, Observe(p, w)
      PROVE  \E x : /\ x.at = instant /\ open' = open \cup {x}
                    /\ UNCHANGED <<instant, rows, dedup, premium, snapshots>>
  BY <1>2 DEF Observe, Put
<1>3. ASSUME NEW r \in open, SaveObservation(r)
      PROVE  \E x : /\ x.at = r.at /\ open' = open \ {r} /\ rows' = rows \cup {x}
                    /\ UNCHANGED <<instant, dedup, premium, snapshots>>
  BY <1>3 DEF SaveObservation
<1>4. ASSUME NEW r \in open, Save(r)
      PROVE  \E x : /\ x.at = r.at /\ open' = open \ {r} /\ rows' = rows \cup {x}
                    /\ UNCHANGED <<instant, dedup, premium, snapshots>>
  BY <1>4 DEF Save
<1>5. ASSUME NEW o \in rows, NEW green, NEW t, Decide(o, green, t)
      PROVE  \E x : /\ x.at = instant /\ open' = open \cup {x}
                    /\ UNCHANGED <<instant, rows, dedup, premium, snapshots>>
  BY <1>5 DEF Decide, Put
<1>6. ASSUME NEW p \in Listed, NEW t, AddProfile(p, t)
      PROVE  \E x : /\ x.at = instant /\ open' = open \cup {x}
                    /\ UNCHANGED <<instant, rows, dedup, premium, snapshots>>
  BY <1>6 DEF AddProfile, Put
<1>7. ASSUME NEW q \in premium, NEW a \in q.assessed, Locate(q, a)
      PROVE  \E x : /\ x.at = instant /\ open' = open \cup {x}
                    /\ UNCHANGED <<instant, rows, dedup, premium, snapshots>>
  BY <1>7 DEF Locate, Put, DatedAt
<1>8. ASSUME NEW c \in Cutoff, RunDeduplication(c) \/ RunClassification(c)
      PROVE  UNCHANGED <<rows, open, instant>>
  BY <1>8 DEF RunDeduplication, RunClassification
<1>9. ASSUME NEW d \in dedup, NEW q \in premium, BuildSnapshot(d, q)
      PROVE  UNCHANGED <<rows, open, instant>>
  BY <1>9 DEF BuildSnapshot
<1> QED
  BY <1>1, <1>2, <1>3, <1>4, <1>5, <1>6, <1>7, <1>8, <1>9 DEF PitNext

\* A cutoff that nothing is open for is never opened again, and from then on it selects the
\* same observations, effective answers and locations.
LEMMA PastCutoffStands ==
    ASSUME NEW c \in Nat, DatedRows, PastCutoff(c), PitNext
    PROVE  /\ PastCutoff(c)'
           /\ Select(c)' = Select(c)
           /\ \A o : EffectiveAt(o, c)' = EffectiveAt(o, c)
           /\ \A a : Record(a, c)' = Record(a, c)
<1>1. \/ UNCHANGED <<rows, open>> /\ instant' \in Nat /\ instant <= instant'
      \/ \E x : x.at = instant /\ open' = open \cup {x} /\ UNCHANGED <<instant, rows>>
      \/ \E r \in open : \E x : /\ x.at = r.at /\ open' = open \ {r} /\ rows' = rows \cup {x}
                            /\ UNCHANGED instant
  BY RowsMove
<1>2. PastCutoff(c)'
  BY <1>1 DEF PastCutoff, DatedRows
<1>3. rows \subseteq rows' /\ \A r \in rows' \ rows : r.at \in Nat /\ c < r.at
  BY <1>1 DEF PastCutoff, DatedRows
<1> QED
  BY <1>2, <1>3, LaterRowsUnseen

\* A premium run made now selects what its cutoff selects now.
LEMMA AssessedPairs ==
    ASSUME NEW c
    PROVE  {<<a.observation, a.green>> : a \in AssessedAt(c)}
               = {<<o, EffectiveAt(o, c)>> : o \in Select(c)}
<1> DEFINE Assessment(o) ==
        [observation |-> o, green |-> EffectiveAt(o, c), protected |-> Private(o, c)]
<1>1. \A o : Assessment(o).observation = o /\ Assessment(o).green = EffectiveAt(o, c)
  OBVIOUS
<1>2. AssessedAt(c) = {Assessment(o) : o \in Select(c)}
  BY DEF AssessedAt
<1> HIDE DEF Assessment
<1> QED
  BY <1>1, <1>2

\* A step keeps what was settled as it was.
LEMMA CutoffInvStep == CutoffInv /\ [PitNext]_pitVars => CutoffInv'
<1> SUFFICES ASSUME CutoffInv, [PitNext]_pitVars PROVE CutoffInv'
  OBVIOUS
<1>1. CASE UNCHANGED pitVars
  <2>1. UNCHANGED <<instant, open, rows, dedup, premium, snapshots>>
    BY <1>1 DEF pitVars
  <2>2. \A c \in Nat : /\ Select(c)' = Select(c)
                       /\ \A o : EffectiveAt(o, c)' = EffectiveAt(o, c)
                       /\ \A a : Record(a, c)' = Record(a, c)
    BY <2>1, LaterRowsUnseen
  <2>3. DatedRows' /\ SettledRemain'
    BY <2>1 DEF CutoffInv, DatedRows, SettledRemain, PastCutoff
  <2>4. KnowledgeStands'
    BY <2>1, <2>2 DEF CutoffInv, DatedRows, KnowledgeStands
  <2>5. RecordsStand'
    BY <2>1, <2>2 DEF CutoffInv, DatedRows, RecordsStand
  <2> QED
    BY <2>3, <2>4, <2>5 DEF CutoffInv
<1>2. CASE PitNext
  <2>1. DatedRows'
    <3>1. DatedRows
      BY DEF CutoffInv
    <3>2. CASE \E c \in Cutoff : RunDeduplication(c) \/ RunClassification(c)
      BY <3>1, <3>2, PointInTimeAssumption DEF DatedRows, RunDeduplication, RunClassification
    <3>3. CASE \E d \in dedup, q \in premium : BuildSnapshot(d, q)
      BY <3>1, <3>3 DEF DatedRows, BuildSnapshot
    <3>4. CASE UNCHANGED <<dedup, premium, snapshots>>
      BY <1>2, <3>1, <3>4, RowsMove DEF DatedRows
    <3> QED
      BY <1>2, <3>2, <3>3, <3>4 DEF PitNext, Elapse, Observe, Put, SaveObservation, Save, Decide,
             AddProfile, Locate
  <2>2. \A c \in Nat : PastCutoff(c) =>
           /\ PastCutoff(c)'
           /\ Select(c)' = Select(c)
           /\ \A o : EffectiveAt(o, c)' = EffectiveAt(o, c)
           /\ \A a : Record(a, c)' = Record(a, c)
    BY <1>2, PastCutoffStands DEF CutoffInv
  <2>3. ASSUME NEW q \in premium', q.settled
        PROVE  /\ PastCutoff(q.asOf)'
               /\ ({<<a.observation, a.green>> : a \in q.assessed}
                     = {<<o, EffectiveAt(o, q.asOf)>> : o \in Select(q.asOf)})'
    <3>1. CASE q \in premium
      <4>1. q.asOf \in Nat /\ PastCutoff(q.asOf)
        BY <2>3, <3>1 DEF CutoffInv, DatedRows, SettledRemain
      <4>2. {<<a.observation, a.green>> : a \in q.assessed}
                = {<<o, EffectiveAt(o, q.asOf)>> : o \in Select(q.asOf)}
        BY <2>3, <3>1 DEF CutoffInv, KnowledgeStands
      <4> QED
        BY <2>2, <4>1, <4>2
    <3>2. CASE q \notin premium
      <4>1. PICK c \in Cutoff : RunClassification(c)
        <5>1. premium' # premium
          BY <2>3, <3>2
        <5> QED
          BY <1>2, <5>1 DEF PitNext, Elapse, Observe, Put, SaveObservation, Save, Decide,
                AddProfile, Locate, RunDeduplication, BuildSnapshot
      <4>2. /\ q = [asOf |-> c, assessed |-> AssessedAt(c), settled |-> CutoffSettled(c)]
            /\ UNCHANGED <<instant, open, rows>>
        BY <2>3, <3>2, <4>1 DEF RunClassification
      <4>3. q.asOf = c /\ q.assessed = AssessedAt(c) /\ q.settled = CutoffSettled(c) /\ c \in Nat
        BY <4>2, PointInTimeAssumption
      <4>4. PastCutoff(c)
        BY <2>3, <4>3 DEF CutoffSettled, PastCutoff, CutoffInv, DatedRows
      <4>5. {<<a.observation, a.green>> : a \in AssessedAt(c)}
                = {<<o, EffectiveAt(o, c)>> : o \in Select(c)}
        BY AssessedPairs
      <4> QED
        BY <2>2, <4>3, <4>4, <4>5
    <3> QED
      BY <3>1, <3>2
  <2>4. ASSUME NEW s \in snapshots', s.settled
        PROVE  /\ PastCutoff(s.dedup.asOf)'
               /\ s.records = {Record(a, s.dedup.asOf)' : a \in s.premium.assessed}
    <3>1. CASE s \in snapshots
      <4>1. s.dedup.asOf \in Nat /\ PastCutoff(s.dedup.asOf)
        BY <2>4, <3>1 DEF CutoffInv, DatedRows, SettledRemain
      <4>2. s.records = {Record(a, s.dedup.asOf) : a \in s.premium.assessed}
        BY <2>4, <3>1 DEF CutoffInv, RecordsStand
      <4> QED
        BY <2>2, <4>1, <4>2
    <3>2. CASE s \notin snapshots
      <4>1. PICK d \in dedup, q \in premium : BuildSnapshot(d, q)
        <5>1. snapshots' # snapshots
          BY <2>4, <3>2
        <5> QED
          BY <1>2, <5>1 DEF PitNext, Elapse, Observe, Put, SaveObservation, Save, Decide,
                AddProfile, Locate, RunDeduplication, RunClassification
      <4>2. s = [dedup |-> d, premium |-> q, records |-> {Record(a, d.asOf) : a \in q.assessed},
                 settled |-> CutoffSettled(d.asOf)]
        BY <2>4, <3>2, <4>1 DEF BuildSnapshot
      <4>3. /\ s.dedup = d /\ s.premium = q /\ s.settled = CutoffSettled(d.asOf)
            /\ s.records = {Record(a, d.asOf) : a \in q.assessed}
            /\ d.asOf \in Nat
        BY <4>2 DEF CutoffInv, DatedRows
      <4>4. PastCutoff(d.asOf)
        BY <2>4, <4>3 DEF CutoffSettled, PastCutoff, CutoffInv, DatedRows
      <4> QED
        BY <2>2, <4>3, <4>4
    <3> QED
      BY <3>1, <3>2
  <2>5. SettledRemain'
    BY <2>3, <2>4 DEF SettledRemain
  <2>6. KnowledgeStands'
    BY <2>3 DEF KnowledgeStands
  <2>7. RecordsStand'
    BY <2>4 DEF RecordsStand
  <2> QED
    BY <2>1, <2>5, <2>6, <2>7 DEF CutoffInv
<1> QED
  BY <1>1, <1>2

\* Runs and snapshots that were settled when they were made are what they would be now.
THEOREM CutoffsInvariant == PitSpec => []CutoffInv
<1>1. PitInit => CutoffInv
  BY DEF PitInit, CutoffInv, DatedRows, SettledRemain, KnowledgeStands, RecordsStand
<1> QED
  BY <1>1, CutoffInvStep, PTL DEF PitSpec

\* What was known at a settled cutoff stays what was known at it, whatever is observed,
\* answered or learnt later.
THEOREM KnowledgeAlwaysStands == PitSpec => []KnowledgeStands
BY CutoffsInvariant, PTL DEF CutoffInv

\* Rebuilding a historical snapshot gives the snapshot: two of the same runs, built when the
\* cutoff was settled, have the same records.
THEOREM RebuildsAlwaysAgree == PitSpec => []RebuildsAgree
<1>1. CutoffInv => RebuildsAgree
  <2> SUFFICES ASSUME RecordsStand, NEW s \in snapshots, NEW t \in snapshots,
                      s.settled, t.settled, s.dedup = t.dedup, s.premium = t.premium
               PROVE  s.records = t.records
    BY DEF CutoffInv, RebuildsAgree
  <2> QED
    BY DEF RecordsStand
<1> QED
  BY <1>1, CutoffsInvariant, PTL

-----------------------------------------------------------------------------
(* The readiness.                                                          *)

USE ReadinessAssumption

-----------------------------------------------------------------------------
(* Types.                                                                  *)

LEMMA EligibleTyped == ASSUME NEW c PROVE Eligible(c) \in SUBSET (Required \ Blocked)
BY DEF Eligible

LEMMA CompletionTyped == ASSUME NEW s, NEW c PROVE CompletionStatus(s, c) \in Completion
BY DEF CompletionStatus, Completion

LEMMA DecidedTyped == ASSUME NEW E, NEW critical PROVE Decided(E, critical) \in Status
BY DEF Decided, Status

\* The state of the readiness stays well typed.
THEOREM ReadinessTyped == ReadinessSpec => []ReadinessTypeOK
<1>1. ReadinessInit => ReadinessTypeOK
  BY DEF ReadinessInit, ReadinessTypeOK
<1>2. ReadinessTypeOK /\ [ReadinessNext]_readinessVars => ReadinessTypeOK'
  <2> SUFFICES ASSUME ReadinessTypeOK, [ReadinessNext]_readinessVars
               PROVE  ReadinessTypeOK'
    OBVIOUS
  <2> USE DEF ReadinessTypeOK
  <2>1. CASE AdvanceHour
    BY <2>1 DEF AdvanceHour
  <2>2. ASSUME NEW s \in Required, NEW kind \in RunKind, FinishRun(s, kind)
        PROVE  ReadinessTypeOK'
    BY <2>2 DEF FinishRun, SourceRun
  <2>3. ASSUME NEW r \in finishing, SaveRun(r)
        PROVE  ReadinessTypeOK'
    BY <2>3 DEF SaveRun
  <2>4. ASSUME NEW c \in Day0Cutoff, NEW reviews \in SUBSET Review, Align(c, reviews)
        PROVE  ReadinessTypeOK'
    <3>1. aligned' \subseteq [asOf: Day0Cutoff, reviews: SUBSET Review] /\ aligned \subseteq aligned'
      BY <2>4 DEF Align
    <3>2. pending' \subseteq Review
      BY <2>4 DEF Align
    <3> QED
      BY <2>4, <3>1, <3>2 DEF Align
  <2>5. ASSUME NEW v \in Review, ResolveReview(v)
        PROVE  ReadinessTypeOK'
    BY <2>5 DEF ResolveReview
  <2>6. ASSUME NEW t \in aligned, AssessReadiness(t)
        PROVE  ReadinessTypeOK'
    <3> DEFINE E == Eligible(t.asOf)
               evidence == [s \in Required |-> CompletionStatus(s, t.asOf)]
               a == [of |-> t, eligible |-> E, critical |-> Critical(t, E),
                     status |-> Decided(E, Critical(t, E)), evidence |-> evidence,
                     blockers |-> Blockers(E, Critical(t, E)), settled |-> RunsSettled(t.asOf)]
    <3>1. assessments' = assessments \cup {a}
      BY <2>6 DEF AssessReadiness
    <3>2. E \in SUBSET (Required \ Blocked)
      BY EligibleTyped
    <3>3. Critical(t, E) \in SUBSET Review
      BY DEF Critical
    <3>4. Decided(E, Critical(t, E)) \in Status
      BY DecidedTyped
    <3>5. evidence \in [Required -> Completion]
      BY CompletionTyped
    <3>6. Blockers(E, Critical(t, E)) \in SUBSET Blocker
      BY DEF Blockers, Blocker
    <3>7. RunsSettled(t.asOf) \in BOOLEAN
      BY DEF RunsSettled
    <3> HIDE DEF E, evidence
    <3>8. a \in [of: aligned, eligible: SUBSET (Required \ Blocked), critical: SUBSET Review,
                 status: Status, evidence: [Required -> Completion],
                 blockers: SUBSET Blocker, settled: BOOLEAN]
      BY <3>2, <3>3, <3>4, <3>5, <3>6, <3>7
    <3> HIDE DEF a
    <3> QED
      BY <2>6, <3>1, <3>8 DEF AssessReadiness
  <2>7. CASE UNCHANGED readinessVars
    BY <2>7 DEF readinessVars
  <2> QED
    BY <2>1, <2>2, <2>3, <2>4, <2>5, <2>6, <2>7 DEF ReadinessNext
<1> QED
  BY <1>1, <1>2, PTL DEF ReadinessSpec

-----------------------------------------------------------------------------
(* What is stored with an assessment explains its status.                  *)

\* The three strata are disjoint: of a set of required sources, those that are not federal or of
\* a city are of a canton.
LEMMA CantonsRemain ==
    ASSUME NEW E \in SUBSET Required
    PROVE  /\ Cardinality(E) \in Nat
           /\ Cardinality(E) <= Cardinality(Required)
           /\ Cardinality(E \cap Canton) \in Nat
           /\ Cardinality(E) - Cardinality(Federal) - Cardinality(City)
                  <= Cardinality(E \cap Canton)
<1>1. IsFiniteSet(Federal \cup City) /\ IsFiniteSet(Required)
  BY FS_Union DEF Required
<1>2. IsFiniteSet(E) /\ Cardinality(E) <= Cardinality(Required)
  BY <1>1, FS_Subset
<1> DEFINE F == E \cap (Federal \cup City)
           C == E \cap Canton
<1>3. IsFiniteSet(F) /\ Cardinality(F) <= Cardinality(Federal \cup City)
  BY <1>1, FS_Subset
<1>4. IsFiniteSet(C)
  BY <1>2, FS_Subset
<1>5. Federal \cap City = {} /\ F \cap C = {} /\ F \cup C = E
  BY DEF Required
<1>6. Cardinality(Federal \cup City) = Cardinality(Federal) + Cardinality(City)
  <2>1. Cardinality(Federal \cup City)
            = Cardinality(Federal) + Cardinality(City) - Cardinality(Federal \cap City)
    BY FS_Union
  <2>2. Cardinality(Federal \cap City) = 0
    BY <1>5, FS_EmptySet
  <2>3. Cardinality(Federal) \in Nat /\ Cardinality(City) \in Nat
    BY FS_CardinalityType
  <2> QED
    BY <2>1, <2>2, <2>3
<1>7. Cardinality(E) = Cardinality(F) + Cardinality(C)
  <2>1. Cardinality(F \cup C) = Cardinality(F) + Cardinality(C) - Cardinality(F \cap C)
    BY <1>3, <1>4, FS_Union
  <2>2. Cardinality(F \cap C) = 0
    BY <1>5, FS_EmptySet
  <2>3. Cardinality(F) \in Nat /\ Cardinality(C) \in Nat
    BY <1>3, <1>4, FS_CardinalityType
  <2>4. Cardinality(E) = Cardinality(F \cup C)
    BY <1>5
  <2> HIDE DEF F, C
  <2> QED
    BY <2>1, <2>2, <2>3, <2>4
<1>8. /\ Cardinality(E) \in Nat /\ Cardinality(F) \in Nat /\ Cardinality(C) \in Nat
      /\ Cardinality(Federal) \in Nat /\ Cardinality(City) \in Nat
  BY <1>2, <1>3, <1>4, FS_CardinalityType
<1> HIDE DEF F
<1> QED
  BY <1>2, <1>3, <1>6, <1>7, <1>8

\* A source counts exactly if its line says COMPLETE_HEALTHY.
LEMMA LinesSayWhoCounts ==
    ASSUME NEW c
    PROVE  Eligible(c) = {s \in Required : CompletionStatus(s, c) = "COMPLETE_HEALTHY"}
<1>1. ASSUME NEW s \in Required
      PROVE  s \in Eligible(c) <=> CompletionStatus(s, c) = "COMPLETE_HEALTHY"
  <2>1. Fresh(s, c) => LatestFull(s, c) # {}
    BY DEF Fresh
  <2> QED
    BY <2>1 DEF CompletionStatus, Eligible
<1> QED
  BY <1>1 DEF Eligible

\* The decision agrees with the blockers, and an authorized market has its cantons.
LEMMA DecisionExplained ==
    ASSUME NEW E \in SUBSET (Required \ Blocked), NEW critical
    PROVE  /\ Decided(E, critical) = "AUTHORIZED"
                  <=> Blockers(E, critical) \subseteq {"FINAL_BLOCKED_REQUIRED_SOURCES"}
           /\ Decided(E, critical) = "AUTHORIZED" =>
                  Cardinality(E \cap Canton)
                      >= Minimum - Cardinality(Federal) - Cardinality(City)
<1> DEFINE n == Cardinality(E)
           R == Cardinality(Required)
           f == Cardinality(E \cap Federal)
           k == Cardinality(E \cap City)
<1>1. /\ n \in Nat /\ n <= R /\ R \in Nat /\ f \in Nat /\ k \in Nat
      /\ n - Cardinality(Federal) - Cardinality(City) <= Cardinality(E \cap Canton)
      /\ Cardinality(Federal) \in Nat /\ Cardinality(City) \in Nat
      /\ Cardinality(E \cap Canton) \in Nat
  <2>1. IsFiniteSet(Required)
    BY FS_Union DEF Required
  <2>2. IsFiniteSet(E \cap Federal) /\ IsFiniteSet(E \cap City)
    BY FS_Subset
  <2> QED
    BY <2>1, <2>2, CantonsRemain, FS_CardinalityType
<1>2. Decided(E, critical) = "AUTHORIZED"
          <=> critical = {} /\ 10 * n >= 8 * R /\ f >= MinFederal /\ k >= MinCity
  BY DEF Decided, Covered
<1>3. Blockers(E, critical) \subseteq {"FINAL_BLOCKED_REQUIRED_SOURCES"}
          <=> critical = {} /\ ~(10 * n < 8 * R) /\ ~(f < MinFederal \/ k < MinCity)
  BY DEF Blockers
<1>4. 10 * n >= 8 * R => n >= Minimum
  BY <1>1, RatioAssumption
<1> HIDE DEF n, R, f, k
<1> QED
  BY <1>1, <1>2, <1>3, <1>4

\* The stored evidence of every assessment explains its status: AUTHORIZED means that only the
\* blocked sources stood in the way, the lines name the sources that counted, and the cantons
\* reach the floor that follows from the total and the other strata.
THEOREM AssessmentsExplained == ReadinessSpec => []AuthorizationExplained
<1>1. ReadinessInit => AuthorizationExplained
  BY DEF ReadinessInit, AuthorizationExplained
<1>2. AuthorizationExplained /\ [ReadinessNext]_readinessVars => AuthorizationExplained'
  <2> SUFFICES ASSUME AuthorizationExplained, [ReadinessNext]_readinessVars
               PROVE  AuthorizationExplained'
    OBVIOUS
  <2>1. CASE UNCHANGED assessments
    BY <2>1 DEF AuthorizationExplained
  <2>2. ASSUME NEW t \in aligned, AssessReadiness(t)
        PROVE  AuthorizationExplained'
    <3> DEFINE E == Eligible(t.asOf)
               a == [of |-> t, eligible |-> E, critical |-> Critical(t, E),
                     status |-> Decided(E, Critical(t, E)),
                     evidence |-> [s \in Required |-> CompletionStatus(s, t.asOf)],
                     blockers |-> Blockers(E, Critical(t, E)), settled |-> RunsSettled(t.asOf)]
    <3>1. assessments' = assessments \cup {a}
      BY <2>2 DEF AssessReadiness
    <3>2. a.status = "AUTHORIZED" <=> a.blockers \subseteq {"FINAL_BLOCKED_REQUIRED_SOURCES"}
      BY EligibleTyped, DecisionExplained
    <3>3. a.eligible = {s \in Required : a.evidence[s] = "COMPLETE_HEALTHY"}
      BY LinesSayWhoCounts
    <3>4. a.status = "AUTHORIZED" =>
              Cardinality(a.eligible \cap Canton)
                  >= Minimum - Cardinality(Federal) - Cardinality(City)
      BY EligibleTyped, DecisionExplained
    <3> HIDE DEF a
    <3> QED
      BY <3>1, <3>2, <3>3, <3>4 DEF AuthorizationExplained
  <2> QED
    BY <2>1, <2>2 DEF ReadinessNext, AdvanceHour, FinishRun, SaveRun, Align, ResolveReview,
                      readinessVars
<1> QED
  BY <1>1, <1>2, PTL DEF ReadinessSpec

-----------------------------------------------------------------------------
(* A settled cutoff: no run that could be selected at it is still to come. *)

\* What the first assessment of a settled cutoff found is what is found ever after.
SettledStands ==
    \A a \in assessments : a.settled =>
        /\ RunsSettled(a.of.asOf)
        /\ a.eligible = Eligible(a.of.asOf)
        /\ a.of \in aligned
        /\ Critical(a.of, a.eligible) \subseteq a.critical

\* No step changes the runs that a settled cutoff selects, nor unsettles it.
LEMMA SettledEvidence ==
    ASSUME ReadinessTypeOK, [ReadinessNext]_readinessVars,
           NEW c \in Nat, RunsSettled(c)
    PROVE  RunsSettled(c)' /\ Eligible(c)' = Eligible(c)
<1>1. /\ hour \in Nat /\ hour' >= hour /\ hour' \in Nat
      /\ \A r \in finishing : r.at > c
  <2>1. hour \in Nat /\ \A r \in finishing : r.at > c
    BY DEF ReadinessTypeOK, RunsSettled
  <2> QED
    BY <2>1 DEF ReadinessNext, AdvanceHour, FinishRun, SaveRun, Align, ResolveReview,
                AssessReadiness, readinessVars
<1>2. \A r \in finishing' : r \in finishing \/ r.at = hour
  BY DEF ReadinessNext, AdvanceHour, FinishRun, SaveRun, Align, ResolveReview,
         AssessReadiness, readinessVars
<1>3. RunsSettled(c)'
  BY <1>1, <1>2 DEF RunsSettled
<1>4. \A r : (r \in finished' /\ r \notin finished) => r \in finishing
  BY DEF ReadinessNext, AdvanceHour, FinishRun, SaveRun, Align, ResolveReview,
         AssessReadiness, readinessVars
<1>5. finished \subseteq finished'
  BY DEF ReadinessNext, AdvanceHour, FinishRun, SaveRun, Align, ResolveReview,
         AssessReadiness, readinessVars
<1>6. ASSUME NEW r \in finished', r \notin finished
      PROVE  ~(r.at <= c)
  <2>1. r \in finishing
    BY <1>4, <1>6
  <2>2. r.at \in Nat
    BY <2>1 DEF ReadinessTypeOK, SourceRun
  <2> QED
    BY <1>1, <2>1, <2>2
<1>7. ASSUME NEW s PROVE RunsBy(s, c)' = RunsBy(s, c)
  BY <1>5, <1>6 DEF RunsBy
<1>8. ASSUME NEW s PROVE /\ CurrentlyHealthy(s, c)' <=> CurrentlyHealthy(s, c)
                         /\ LatestFull(s, c)' = LatestFull(s, c)
  BY <1>7 DEF CurrentlyHealthy, LatestFull, Newest
<1>9. ASSUME NEW s PROVE Fresh(s, c)' <=> Fresh(s, c)
  BY <1>8 DEF Fresh
<1> QED
  BY <1>3, <1>8, <1>9 DEF Eligible

\* An answered review stays answered, and a run gets no further reviews.
LEMMA ReviewsOnlyClear ==
    ASSUME ReadinessTypeOK, [ReadinessNext]_readinessVars, NEW t \in aligned, NEW E
    PROVE  t \in aligned' /\ Critical(t, E)' \subseteq Critical(t, E)
<1>1. CASE UNCHANGED <<aligned, pending>>
  BY <1>1 DEF Critical
<1>2. ASSUME NEW c \in Day0Cutoff, NEW reviews \in SUBSET Review, Align(c, reviews)
      PROVE  t \in aligned' /\ Critical(t, E)' \subseteq Critical(t, E)
  <2>1. t.reviews \cap reviews = {} /\ pending' = pending \cup reviews
    BY <1>2 DEF Align
  <2>2. t \in aligned'
    BY <1>2 DEF Align
  <2> QED
    BY <2>1, <2>2 DEF Critical
<1>3. ASSUME NEW v \in Review, ResolveReview(v)
      PROVE  t \in aligned' /\ Critical(t, E)' \subseteq Critical(t, E)
  BY <1>3 DEF ResolveReview, Critical
<1> QED
  BY <1>1, <1>2, <1>3 DEF ReadinessNext, AdvanceHour, FinishRun, SaveRun, AssessReadiness,
                          readinessVars

LEMMA SettledStandsStep ==
    ASSUME ReadinessTypeOK, SettledStands, [ReadinessNext]_readinessVars
    PROVE  SettledStands'
<1>1. ASSUME NEW a \in assessments, a.settled
      PROVE  /\ RunsSettled(a.of.asOf)'
             /\ a.eligible = Eligible(a.of.asOf)'
             /\ a.of \in aligned'
             /\ Critical(a.of, a.eligible)' \subseteq a.critical
  <2>1. /\ RunsSettled(a.of.asOf) /\ a.eligible = Eligible(a.of.asOf) /\ a.of \in aligned
        /\ Critical(a.of, a.eligible) \subseteq a.critical
    BY <1>1 DEF SettledStands
  <2>2. a.of.asOf \in Nat
    BY <2>1 DEF ReadinessTypeOK
  <2>3. RunsSettled(a.of.asOf)' /\ Eligible(a.of.asOf)' = Eligible(a.of.asOf)
    BY <2>1, <2>2, SettledEvidence
  <2>4. a.of \in aligned' /\ Critical(a.of, a.eligible)' \subseteq Critical(a.of, a.eligible)
    BY <2>1, ReviewsOnlyClear
  <2> QED
    BY <2>1, <2>3, <2>4
<1>2. CASE UNCHANGED assessments
  BY <1>1, <1>2 DEF SettledStands
<1>3. ASSUME NEW t \in aligned, AssessReadiness(t)
      PROVE  SettledStands'
  <2> DEFINE E == Eligible(t.asOf)
             a == [of |-> t, eligible |-> E, critical |-> Critical(t, E),
                   status |-> Decided(E, Critical(t, E)),
                   evidence |-> [s \in Required |-> CompletionStatus(s, t.asOf)],
                   blockers |-> Blockers(E, Critical(t, E)), settled |-> RunsSettled(t.asOf)]
  <2>1. /\ assessments' = assessments \cup {a}
        /\ UNCHANGED <<hour, finishing, finished, aligned, pending>>
    BY <1>3 DEF AssessReadiness
  <2>2. a.of = t /\ a.eligible = E /\ a.critical = Critical(t, E) /\ a.settled = RunsSettled(t.asOf)
    OBVIOUS
  <2>3. /\ RunsSettled(t.asOf)' = RunsSettled(t.asOf)
        /\ Eligible(t.asOf)' = E
        /\ \A e : Critical(t, e)' = Critical(t, e)
    BY <2>1 DEF RunsSettled, Eligible, CurrentlyHealthy, Fresh, LatestFull, Newest, RunsBy, Critical
  <2> HIDE DEF a, E
  <2>4. ASSUME NEW b \in assessments', b.settled
        PROVE  /\ RunsSettled(b.of.asOf)'
               /\ b.eligible = Eligible(b.of.asOf)'
               /\ b.of \in aligned'
               /\ Critical(b.of, b.eligible)' \subseteq b.critical
    <3>1. CASE b \in assessments
      BY <1>1, <2>4, <3>1
    <3>2. CASE b = a
      <4>1. b.of = t /\ b.eligible = E /\ b.critical = Critical(t, E) /\ RunsSettled(t.asOf)
        BY <2>2, <2>4, <3>2
      <4>2. b.critical = Critical(b.of, b.eligible)
        BY <4>1
      <4>3. Critical(b.of, b.eligible)' = Critical(b.of, b.eligible)
        BY <2>3, <4>1
      <4> QED
        BY <2>1, <2>3, <4>1, <4>2, <4>3
    <3> QED
      BY <2>1, <3>1, <3>2
  <2> QED
    BY <2>4 DEF SettledStands
<1> QED
  BY <1>2, <1>3 DEF ReadinessNext, AdvanceHour, FinishRun, SaveRun, Align, ResolveReview,
                    readinessVars

THEOREM SettledAlwaysStands == ReadinessSpec => []SettledStands
<1>1. ReadinessInit => SettledStands
  BY DEF ReadinessInit, SettledStands
<1>2. ReadinessTypeOK /\ SettledStands /\ [ReadinessNext]_readinessVars => SettledStands'
  BY SettledStandsStep
<1> QED
  BY <1>1, <1>2, ReadinessTyped, PTL DEF ReadinessSpec

\* Freshness policy: assessments of one settled cutoff have the same eligible sources, however
\* many runs finish between them.
THEOREM PastIsNotRepaired == ReadinessSpec => []FutureCannotRepair
<1>1. SettledStands => FutureCannotRepair
  BY DEF SettledStands, FutureCannotRepair
<1> QED
  BY <1>1, SettledAlwaysStands, PTL

\* A replay of an assessment of a settled cutoff finds no critical review that it did not have.
THEOREM ReplaysOnlyClear == ReadinessSpec => ReplayOnlyClears
<1> DEFINE Clears == \A a \in assessments' \ assessments, b \in assessments :
                         a.of = b.of /\ a.settled /\ b.settled => a.critical \subseteq b.critical
<1>1. SettledStands /\ [ReadinessNext]_readinessVars => [Clears]_readinessVars
  <2> SUFFICES ASSUME SettledStands, ReadinessNext,
                      NEW a \in assessments' \ assessments, NEW b \in assessments,
                      a.of = b.of, a.settled, b.settled
               PROVE  a.critical \subseteq b.critical
    OBVIOUS
  <2>1. PICK t \in aligned : AssessReadiness(t)
    BY DEF ReadinessNext, AdvanceHour, FinishRun, SaveRun, Align, ResolveReview
  <2>2. a.of = t /\ a.critical = Critical(t, Eligible(t.asOf))
    BY <2>1 DEF AssessReadiness
  <2>3. b.eligible = Eligible(t.asOf) /\ Critical(t, b.eligible) \subseteq b.critical
    BY <2>2 DEF SettledStands
  <2> QED
    BY <2>2, <2>3
<1> QED
  BY <1>1, SettledAlwaysStands, PTL DEF ReadinessSpec, ReplayOnlyClears

=============================================================================
