---------------------------- MODULE VacancyIdentity ----------------------------
(***************************************************************************)
(* Deduplication: vacancies/engine.py run_deduplication, snapshots.py      *)
(* RunClusters, review.py resolve_review and review_continuity.py.  A run  *)
(* looks at the evidence of one cutoff, pair by pair, clusters the         *)
(* postings for itself and, unless a later cutoff was applied before,      *)
(* merges the vacancies of the current projection as it goes.  Pairs it    *)
(* leaves to people become review items, and what people decided about the *)
(* same material before is reused.                                         *)
(*                                                                         *)
(* A run is one transaction.  Those of two cutoffs exclude each other: by  *)
(* the lock on the watermark row or, as long as there is none, by the      *)
(* unique membership of a posting.  Resolutions run beside them.           *)
(***************************************************************************)
EXTENDS Integers, FiniteSets, Absent

CONSTANTS
    Posting,          \* primary keys, in their order
    Cutoff,           \* the values of as_of
    Apart,            \* evidence that keeps a pair apart: "BARRIER", or "SEPARATE" for a low
                      \* score and for pairs that are no candidates
    ReviewMaterial,   \* evidence about a pair with a score between the two thresholds
    MaxClock,         \* bound: the last tick of the clock
    MaxDecisions      \* bound: human decisions

ASSUME IdentityAssumption ==
    /\ Posting \subseteq Nat
    /\ Cutoff \subseteq Nat
    /\ None \notin Nat \cup {"AUTO_MERGE"} \cup Apart \cup ReviewMaterial
    /\ "AUTO_MERGE" \notin Apart \cup ReviewMaterial
    /\ Apart \cap ReviewMaterial = {}
    /\ {MaxClock, MaxDecisions} \subseteq Nat

VARIABLES
    clock,
    firstSeen,      \* the first sighting of each posting, the age of the vacancy it founds
    facts,          \* what the evidence of a cutoff says about a pair, drawn when first read
    graph,          \* the projection: memberships and merged vacancies
    watermark,      \* the cutoff of the applied run
    result,         \* the committed runs and their snapshots
    review,         \* the review items of the committed runs
    human,          \* the committed human decisions
    open,           \* human decisions of transactions that have not committed
    applications,   \* human decisions applied to another run's pair
    run             \* the transaction of a run

vars == <<clock, firstSeen, facts, graph, watermark, result, review, human, open,
          applications, run>>

-----------------------------------------------------------------------------
(* Types.                                                                  *)

Never == -1

Pair == {pr \in Posting \X Posting : pr[1] < pr[2]}

\* Material with the outcome REVIEW is told apart, as people may have decided about it.
Material == {"AUTO_MERGE"} \cup Apart \cup ReviewMaterial

\* A vacancy is named after the posting that founded it.
Graph == [vacancyOf: [Posting -> Posting \cup {None}], mergedInto: [Posting -> Posting \cup {None}]]

Decision == [run: Cutoff, pair: Pair, material: ReviewMaterial,
             outcome: {"MERGE", "KEEP_SEPARATE"}, at: Nat]

Application == [run: Cutoff, pair: Pair, source: Decision]

\* root and merged: RunClusters and the pairs it united; known: the human decisions
\* committed before the run began.
Result == [root: [Posting -> Posting], merged: SUBSET Pair, known: SUBSET Decision,
           done: BOOLEAN]

\* todo: the pairs ahead; held: the vacancy in the membership objects in memory.
Run == [cutoff: Cutoff \cup {Never}, apply: BOOLEAN, todo: SUBSET Pair,
        root: [Posting -> Posting], merged: SUBSET Pair, known: SUBSET Decision,
        held: [Posting -> Posting \cup {None}], graph: Graph,
        pending: SUBSET Pair, applied: SUBSET Application]

Status == {"NONE", "PENDING", "MERGED", "KEPT_SEPARATE"}

EmptyGraph == [vacancyOf |-> [p \in Posting |-> None], mergedInto |-> [p \in Posting |-> None]]

NoResult == [root |-> [p \in Posting |-> p], merged |-> {}, known |-> {}, done |-> FALSE]

NoRun == [cutoff |-> Never, apply |-> FALSE, todo |-> {}, root |-> [p \in Posting |-> p],
          merged |-> {}, known |-> {}, held |-> [p \in Posting |-> None],
          graph |-> EmptyGraph, pending |-> {}, applied |-> {}]

-----------------------------------------------------------------------------
(* Clusters and vacancies.                                                 *)

\* select_posting_evidence: the postings sighted by the cutoff.
Selected(c) == {p \in Posting : firstSeen[p] <= c}

\* Defect: the posting is attached, and not its root.
UnionOfPostings(root, pr) == [root EXCEPT ![pr[2]] = root[pr[1]]]

\* RunClusters.union with the root find() returns for each posting.
Union(root, pr) ==
    LET a == root[pr[1]]
        b == root[pr[2]]
        winner == IF a < b THEN a ELSE b
        loser == IF a < b THEN b ELSE a
    IN  [p \in Posting |-> IF root[p] = loser THEN winner ELSE root[p]]

\* _create_initial_membership for every selected posting.
Link(g, selected) ==
    [g EXCEPT !.vacancyOf = [p \in Posting |->
        IF p \in selected /\ g.vacancyOf[p] = None THEN p ELSE g.vacancyOf[p]]]

\* Defect: only the posting that founded the younger vacancy moves.
MergeFounder(g, v, w) ==
    LET winner == IF firstSeen[v] < firstSeen[w] THEN v ELSE w
        loser == IF firstSeen[v] < firstSeen[w] THEN w ELSE v
    IN  [g EXCEPT !.vacancyOf[loser] = winner]

\* merge_vacancies: the members of the younger vacancy move to the older one.
Merge(g, v, w) ==
    IF v = w THEN g
    ELSE LET winner == IF firstSeen[v] < firstSeen[w] THEN v ELSE w
             loser == IF firstSeen[v] < firstSeen[w] THEN w ELSE v
         IN  [vacancyOf |-> [p \in Posting |-> IF g.vacancyOf[p] = loser THEN winner
                                               ELSE g.vacancyOf[p]],
              mergedInto |-> [g.mergedInto EXCEPT ![loser] = winner]]

\* What uniting a pair does to a run.  Only the two memberships of the pair are read again.
Unite(r, pr) ==
    LET g == Merge(r.graph, r.held[pr[1]], r.held[pr[2]])
        clustered == [r EXCEPT !.root = Union(r.root, pr), !.merged = @ \cup {pr}]
    IN  IF ~r.apply THEN clustered
        ELSE [clustered EXCEPT !.graph = g,
                               !.held = [@ EXCEPT ![pr[1]] = g.vacancyOf[pr[1]],
                                                  ![pr[2]] = g.vacancyOf[pr[2]]]]

-----------------------------------------------------------------------------
(* The clock, and the transaction of a run.                                *)

Tick ==
    /\ clock < MaxClock
    /\ clock' = clock + 1
    /\ UNCHANGED <<firstSeen, facts, graph, watermark, result, review, human, open,
                   applications, run>>

\* A run of the same evidence is returned as it is.  A cutoff lies in the past.
Begin(c) ==
    /\ run = NoRun
    /\ c < clock
    /\ ~result[c].done
    /\ LET apply == c >= watermark
           g == IF apply THEN Link(graph, Selected(c)) ELSE graph
       IN  run' = [NoRun EXCEPT !.cutoff = c, !.apply = apply, !.known = human,
                                !.todo = {pr \in Pair : {pr[1], pr[2]} \subseteq Selected(c)},
                                !.graph = g, !.held = g.vacancyOf]
    /\ UNCHANGED <<clock, firstSeen, facts, graph, watermark, result, review, human, open,
                   applications>>

\* combinations() of the selected postings, which are sorted by primary key.
Precedes(pr, q) == pr[1] < q[1] \/ (pr[1] = q[1] /\ pr[2] <= q[2])

\* The next pair is assessed: the scores are those of the evidence at the cutoff.
Assesses(pr, m) ==
    /\ pr \in run.todo
    /\ \A q \in run.todo : Precedes(pr, q)
    /\ facts[run.cutoff][pr] \in {None, m}
    /\ facts' = [facts EXCEPT ![run.cutoff][pr] = m]

\* Defect: a MERGE is taken to last in the projection and is not looked for again.
PriorSeparation(pr, m) ==
    {h \in human : /\ h.pair = pr /\ h.material = m /\ h.at <= run.cutoff
                   /\ h.outcome = "KEEP_SEPARATE"}

\* _prior_human_decision: decisions about the same pair and material known at the cutoff.
PriorHuman(pr, m) == {h \in human : h.pair = pr /\ h.material = m /\ h.at <= run.cutoff}

\* The transaction is rolled back; the evidence stays what it is.
RollBack ==
    /\ run' = NoRun
    /\ UNCHANGED <<clock, firstSeen, graph, watermark, result, review, human, open,
                   applications>>

Proceed(r, pr) ==
    /\ run' = [r EXCEPT !.todo = @ \ {pr}]
    /\ UNCHANGED <<clock, firstSeen, graph, watermark, result, review, human, open,
                   applications>>

\* CONFLICTING_PRIOR_HUMAN_KNOWLEDGE.
PriorConflict(pr, m) ==
    /\ Assesses(pr, m)
    /\ Cardinality(PriorHuman(pr, m)) > 1
    /\ RollBack

\* The only prior decision is applied to the new pair.
Inherit(pr, m) ==
    /\ Assesses(pr, m)
    /\ \E h \in PriorHuman(pr, m) :
           /\ PriorHuman(pr, m) = {h}
           /\ LET r == [run EXCEPT !.applied = @ \cup
                            {[run |-> run.cutoff, pair |-> pr, source |-> h]}]
              IN  Proceed(IF h.outcome = "MERGE" THEN Unite(r, pr) ELSE r, pr)

\* Without a prior decision, the outcome of the algorithm is what counts.
Judge(pr, m) ==
    /\ Assesses(pr, m)
    /\ PriorHuman(pr, m) = {}
    /\ Proceed(CASE m = "AUTO_MERGE" -> Unite(run, pr)
                 [] m \in ReviewMaterial -> [run EXCEPT !.pending = @ \cup {pr}]
                 [] OTHER -> run, pr)

\* A REVIEW pair must reference distinct run-scoped vacancies.
ReviewsDistinct == \A pr \in run.pending : run.root[pr[1]] # run.root[pr[2]]

\* The snapshot, the review items, the run and the watermark are committed.
Commit ==
    /\ run.cutoff # Never
    /\ run.todo = {}
    /\ ReviewsDistinct
    /\ result' = [result EXCEPT ![run.cutoff] =
           [root |-> run.root, merged |-> run.merged, known |-> run.known, done |-> TRUE]]
    /\ review' = [review EXCEPT ![run.cutoff] =
           [pr \in Pair |-> IF pr \in run.pending THEN "PENDING" ELSE "NONE"]]
    /\ applications' = applications \cup run.applied
    /\ graph' = IF run.apply THEN run.graph ELSE graph
    /\ watermark' = IF run.apply THEN run.cutoff ELSE watermark
    /\ run' = NoRun
    /\ UNCHANGED <<clock, firstSeen, facts, human, open>>

\* The snapshot refuses the run, or the process or its session is gone.
RunFails ==
    /\ run.cutoff # Never
    /\ RollBack
    /\ UNCHANGED facts

-----------------------------------------------------------------------------
(* People: resolve_review and apply_dedup_review_continuity.               *)

Targets(set, c, pr) == {d \in set : d.run = c /\ d.pair = pr}

\* resolve_review holds the item, checks it and inserts the decision with its created_at.
OpenResolution(c, pr, outcome) ==
    /\ review[c][pr] = "PENDING"
    /\ Targets(applications, c, pr) = {}
    /\ Targets(open, c, pr) = {}
    /\ Cardinality(human \cup open) < MaxDecisions
    /\ open' = open \cup {[run |-> c, pair |-> pr, material |-> facts[c][pr],
                           outcome |-> outcome, at |-> clock]}
    /\ UNCHANGED <<clock, firstSeen, facts, graph, watermark, result, review, human,
                   applications, run>>

\* Defect: a decision about an older run merges in the projection of today.
OfAnyRun(h) == TRUE

\* The watermark still names the run of the item.
OfAppliedRun(h) == watermark = h.run

ResolvedStatus(outcome) == IF outcome = "MERGE" THEN "MERGED" ELSE "KEPT_SEPARATE"

\* The row of the watermark is locked and merged upon only while it names the run of the
\* item; a run under way has that lock.
CommitResolution(h) ==
    /\ h \in open
    /\ OfAppliedRun(h) => run = NoRun
    /\ open' = open \ {h}
    /\ human' = human \cup {h}
    /\ review' = [review EXCEPT ![h.run][h.pair] = ResolvedStatus(h.outcome)]
    /\ graph' = IF h.outcome = "MERGE" /\ OfAppliedRun(h)
                THEN Merge(graph, graph.vacancyOf[h.pair[1]], graph.vacancyOf[h.pair[2]])
                ELSE graph
    /\ UNCHANGED <<clock, firstSeen, facts, watermark, result, applications, run>>

ResolutionFails(h) ==
    /\ h \in open
    /\ open' = open \ {h}
    /\ UNCHANGED <<clock, firstSeen, facts, graph, watermark, result, review, human,
                   applications, run>>

\* The command applies a decision about the same material to an item without authority of
\* its own; it leaves the item as it is.
Apply(c, pr, h) ==
    /\ review[c][pr] # "NONE"
    /\ h \in human
    /\ h.pair = pr
    /\ h.material = facts[c][pr]
    /\ Targets(human, c, pr) = {}
    /\ Targets(applications, c, pr) = {}
    /\ applications' = applications \cup {[run |-> c, pair |-> pr, source |-> h]}
    /\ UNCHANGED <<clock, firstSeen, facts, graph, watermark, result, review, human, open,
                   run>>

-----------------------------------------------------------------------------
(* The specification.                                                      *)

\* Every posting is sighted by some cutoff, no two of them at the same instant.
Init ==
    /\ clock = 0
    /\ firstSeen \in {f \in [Posting -> 0..MaxClock] :
           /\ \A p \in Posting : \E c \in Cutoff : f[p] <= c
           /\ \A p, q \in Posting : f[p] = f[q] => p = q}
    /\ facts = [c \in Cutoff |-> [pr \in Pair |-> None]]
    /\ graph = EmptyGraph
    /\ watermark = Never
    /\ result = [c \in Cutoff |-> NoResult]
    /\ review = [c \in Cutoff |-> [pr \in Pair |-> "NONE"]]
    /\ human = {}
    /\ open = {}
    /\ applications = {}
    /\ run = NoRun

Deduplicate ==
    \/ \E c \in Cutoff : Begin(c)
    \/ \E pr \in Pair, m \in Material : PriorConflict(pr, m) \/ Inherit(pr, m) \/ Judge(pr, m)
    \/ Commit
    \/ RunFails

Resolve ==
    \/ \E c \in Cutoff, pr \in Pair, o \in {"MERGE", "KEEP_SEPARATE"} : OpenResolution(c, pr, o)
    \/ \E h \in open : CommitResolution(h) \/ ResolutionFails(h)
    \/ \E c \in Cutoff, pr \in Pair, h \in human : Apply(c, pr, h)

Next == Tick \/ Deduplicate \/ Resolve

Spec == Init /\ [][Next]_vars

-----------------------------------------------------------------------------
(* Properties.                                                             *)

\* Every variable stays in its domain, and a run under way or done knows its pairs' facts.
TypeOK ==
    /\ clock \in Nat
    /\ firstSeen \in [Posting -> Nat]
    /\ facts \in [Cutoff -> [Pair -> Material \cup {None}]]
    /\ graph \in Graph
    /\ watermark \in Cutoff \cup {Never}
    /\ result \in [Cutoff -> Result]
    /\ review \in [Cutoff -> [Pair -> Status]]
    /\ human \subseteq Decision
    /\ open \subseteq Decision
    /\ applications \subseteq Application
    /\ run \in Run

\* Every pair a run united shares a cluster, and no cluster reaches further: a set of
\* postings that no united pair leaves is a union of clusters.
Components(root, merged) ==
    /\ \A pr \in merged : root[pr[1]] = root[pr[2]]
    /\ \A S \in SUBSET Posting :
           (\A pr \in merged : pr[1] \in S <=> pr[2] \in S)
               => \A p, q \in Posting : root[p] = root[q] => (p \in S <=> q \in S)

\* RunClusters (snapshots.py) computes the connected components of the united pairs,
\* in whatever order they are united.
ClustersAreComponents == \A c \in Cutoff : Components(result[c].root, result[c].merged)

\* engine.py:612: "A REVIEW pair must reference distinct run-scoped vacancies", although
\* other pairs may unite its postings before or after it is judged.
ReviewsSeparate ==
    \A c \in Cutoff : \A pr \in Pair :
        review[c][pr] # "NONE" => result[c].root[pr[1]] # result[c].root[pr[2]]

\* Continuity contract: what people decided about the same pair and material by the cutoff
\* is not asked again, and a MERGE takes effect in every later run.
HumanRespected ==
    \A c \in Cutoff : \A h \in result[c].known :
        h.at <= c /\ h.material = facts[c][h.pair] =>
            /\ review[c][h.pair] = "NONE"
            /\ h.outcome = "MERGE" => result[c].root[h.pair[1]] = result[c].root[h.pair[2]]

\* The projection never separates postings that it has once united: neither a run whose
\* clusters are smaller nor a person who keeps the pair separate undoes a merge.
NeverSplit ==
    [][\A p, q \in Posting :
           graph.vacancyOf[p] # None /\ graph.vacancyOf[p] = graph.vacancyOf[q] =>
               graph'.vacancyOf[p] = graph'.vacancyOf[q]]_vars

\* ADR 0004: an older replay does not roll the projection back.  It changes by the run of a
\* later cutoff, or by a person who merges a pair of the applied run.
ProjectionOfNewest ==
    [][graph' # graph =>
           \/ watermark' > watermark
           \/ \E h \in human' \ human : h.run = watermark /\ h.outcome = "MERGE"]_vars

\* ADR 0004: the projection is that of the applied run: postings in one cluster of it have
\* one vacancy, which is not merged into another.
ProjectionFollowsRun ==
    watermark # Never => \A p, q \in Selected(watermark) :
        result[watermark].root[p] = result[watermark].root[q] =>
            /\ graph.vacancyOf[p] = graph.vacancyOf[q]
            /\ graph.mergedInto[graph.vacancyOf[p]] = None

=============================================================================
