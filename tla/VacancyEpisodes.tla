---------------------------- MODULE VacancyEpisodes ----------------------------
(***************************************************************************)
(* vacancies/engine.py, snapshots.py: what a vacancy is made of.  The      *)
(* mutable projection (canonical posting, episodes, status) is reconciled  *)
(* by each applied run and each human merge; a run also writes a state of  *)
(* its own for each of its clusters.  A run unites at most one pair here:  *)
(* chains of merges are VacancyIdentity's.                                 *)
(***************************************************************************)
EXTENDS Integers, Sequences, FiniteSets, FiniteSetsExt, Absent

CONSTANTS
    Advertised,       \* the postings, numbered as their keys are ordered
    Rank,             \* source_precedence_rank of the source of each
    Requisition,      \* and the requisition it states
    RepostWindow,     \* REPOST_WINDOW_DAYS
    LastDay, MaxHistory, MaxRuns   \* bounds

ASSUME EpisodesAssumption ==
    /\ Advertised \subseteq Nat /\ IsFiniteSet(Advertised) /\ Rank \in [Advertised -> Nat]
    /\ {RepostWindow, LastDay, MaxHistory, MaxRuns} \subseteq Nat
    /\ None \notin Nat

VARIABLES
    today,
    history,          \* posting_lifecycle_event in the order (observed_at, created_at)
    linked,           \* vacancy_posting_membership: the cutoff of the run that created it
    vacancyOf,        \* and the vacancy of each, named after its first posting
    vacancy,          \* vacancy with its episodes
    applied,          \* vacancy_projection_state: as_of, or -1, and the clusters of the applied run
    states            \* dedup_run_vacancy_state of every run

episodeVars == <<today, history, linked, vacancyOf, vacancy, applied, states>>

-----------------------------------------------------------------------------
(* Evidence of a cutoff, as positions in the chronology, which orders the  *)
(* events of one time too.                                                 *)

Sighting(e) == e.type \in {"NEW", "STILL_ACTIVE"}

Seen(P, c) == {i \in DOMAIN history : history[i].posting \in P /\ history[i].at <= c}

Sightings(P, c) == {i \in Seen(P, c) : Sighting(history[i])}

Closures(P, c) == {i \in Seen(P, c) : history[i].type = "CLOSED_OBSERVED"}

Chosen(c) == {p \in Advertised : Seen({p}, c) # {}}

FirstSeen(p) == history[Min(Seen({p}, today))].at

LastSeen(p, c) == history[Max(Sightings({p}, c))].at

\* _posting_closed_event: the newest closure, or 0.
Closure(p, c) == IF Closures({p}, c) = {} THEN 0 ELSE Max(Closures({p}, c))

\* _repost_window_barrier: a posting that appears after the other was closed is a repost if they
\* share the requisition, or if it came within the window and they match for sure (0.90).
RepostBarrier(p, q, c, sure) ==
    LET earlier == IF FirstSeen(p) <= FirstSeen(q) THEN p ELSE q
        later == IF earlier = p THEN q ELSE p
        gap == FirstSeen(later) - history[Closure(earlier, c)].at
    IN  /\ Closure(earlier, c) # 0 /\ gap > 0
        /\ Requisition[p] # Requisition[q]
        /\ ~(gap <= RepostWindow /\ sure)

-----------------------------------------------------------------------------
(* The graph: memberships and vacancies.                                   *)

Projection == [linked |-> linked, of |-> vacancyOf, vacancy |-> vacancy]

Members(g, v) == {p \in DOMAIN g.of : g.of[p] = v}

Effective(g) == {v \in DOMAIN g.vacancy : g.vacancy[v].merged = None}

\* _create_initial_membership.
Founded(p) ==
    [first |-> FirstSeen(p), last |-> LastSeen(p, today), canonical |-> p, merged |-> None,
     status |-> "ACTIVE", closed |-> None, episodes |-> <<>>]

LinkAll(g, c) ==
    LET new == Chosen(c) \ DOMAIN g.of
    IN  [linked |-> [p \in DOMAIN g.of \cup new |-> IF p \in new THEN c ELSE g.linked[p]],
         of |-> [p \in DOMAIN g.of \cup new |-> IF p \in new THEN p ELSE g.of[p]],
         vacancy |-> [p \in DOMAIN g.vacancy \cup new |->
                          IF p \in new THEN Founded(p) ELSE g.vacancy[p]]]

\* _canonicalize: by rank, then by the age of the membership; a run creates them by their keys.
Precedence(age, p, q) ==
    \/ Rank[p] < Rank[q]
    \/ Rank[p] = Rank[q] /\ age[p] < age[q]
    \/ Rank[p] = Rank[q] /\ age[p] = age[q] /\ p <= q

Foremost(age, P) == CHOOSE p \in P : \A q \in P : Precedence(age, p, q)

Canonical(g, v) == Foremost(g.linked, Members(g, v))

\* merge_vacancies: the older vacancy wins, at the same age any of the two (by a random key).
Winners(g, p, q) ==
    {v \in {g.of[p], g.of[q]} :
        \A w \in {g.of[p], g.of[q]} : g.vacancy[v].first <= g.vacancy[w].first}

\* Its members move to the winner; who is canonical there is settled by the reconciliation.
Moved(g, loser, winner) ==
    [linked |-> g.linked,
     of |-> [p \in DOMAIN g.of |-> IF g.of[p] = loser THEN winner ELSE g.of[p]],
     vacancy |-> [g.vacancy EXCEPT ![loser].merged = winner]]

Merged(g, p, q, winner) ==
    IF g.of[p] = g.of[q] THEN g
    ELSE Moved(g, IF winner = g.of[p] THEN g.of[q] ELSE g.of[p], winner)

-----------------------------------------------------------------------------
(* _sync_episode.                                                          *)

Episode(opened, last) ==
    [opened |-> opened, last |-> last, closed |-> None, status |-> "ACTIVE"]

ClosedAt(episode, at) == [episode EXCEPT !.status = "CLOSED_OBSERVED", !.closed = at]

ReopenAlways(episode, closed) == TRUE   \* mutant: the episode may have opened after the closure

MayReopen(episode, closed) == episode.opened <= closed

\* What a closure (a position, or 0) and the sightings after it make of the last episode.
SyncedEpisodes(known, closure, after, last) ==
    LET n == Len(known)
        closed == history[closure].at
        ended == IF known[n].closed = None THEN ClosedAt(known[n], closed) ELSE known[n]
    IN  IF closure # 0 /\ after # {} /\ MayReopen(known[n], closed)
          THEN Append([known EXCEPT ![n] = ended], Episode(history[Min(after)].at, last))
        ELSE IF closure # 0 /\ after = {} /\ known[n].status # "CLOSED_OBSERVED"
          THEN [known EXCEPT ![n] = ClosedAt(known[n], closed)]
        ELSE known

Synced(row, canonical, P, c) ==
    LET first == Min({FirstSeen(p) : p \in P \cap Chosen(c)})
        last == Max({LastSeen(p, c) : p \in P \cap Chosen(c)})
        known == IF row.episodes = <<>> THEN <<Episode(first, last)>> ELSE row.episodes
        closure == Closure(canonical, c)
        after == {i \in Sightings(P, c) : i > closure}
        dead == closure # 0 /\ after = {}
    IN  [first |-> first, last |-> last, canonical |-> canonical, merged |-> row.merged,
         status |-> IF dead THEN "CLOSED_OBSERVED" ELSE "ACTIVE",
         closed |-> IF dead THEN history[closure].at ELSE None,
         episodes |-> SyncedEpisodes(known, closure, after, last)]

\* reconcile_effective_vacancy: the row of a vacancy afterwards.
Reconciled(g, v, c) ==
    IF Members(g, v) \cap Chosen(c) = {}
      THEN [g.vacancy[v] EXCEPT !.canonical = Canonical(g, v)]
      ELSE Synced(g.vacancy[v], Canonical(g, v), Members(g, v), c)

\* Each of some vacancies, by itself.
Reconcile(g, W, c) ==
    [linked |-> g.linked, of |-> g.of,
     vacancy |-> [v \in DOMAIN g.vacancy |-> IF v \in W THEN Reconciled(g, v, c) ELSE g.vacancy[v]]]

ReconcileAll(g, c) == Reconcile(g, Effective(g), c)

-----------------------------------------------------------------------------
(* persist_run_snapshot: the state of one cluster of a run.                *)

\* _episode_number: closures of any posting that a sighting of any posting follows, counted once
\* between two sightings.
Dark(P, c) ==
    {i \in Closures(P, c) :
        /\ \E j \in Sightings(P, c) : i < j
        /\ \A k \in Closures(P, c) : k < i => \E j \in Sightings(P, c) : k < j /\ j < i}

EpisodeNumber(P, c) == 1 + Cardinality(Dark(P, c))

RunState(P, c) ==
    LET Before(p, q) == \/ Rank[p] < Rank[q]
                        \/ Rank[p] = Rank[q] /\ FirstSeen(p) < FirstSeen(q)
                        \/ Rank[p] = Rank[q] /\ FirstSeen(p) = FirstSeen(q) /\ p <= q
        p == CHOOSE p \in P : \A q \in P : Before(p, q)
        latest == history[Max(Seen({p}, c))].type
    IN  [asOf |-> c, postings |-> P, canonical |-> p, episode |-> EpisodeNumber(P, c),
         status |-> IF latest = "CLOSED_OBSERVED" THEN latest ELSE "ACTIVE"]

-----------------------------------------------------------------------------
(* Actions.                                                                *)

SetGraph(g) == linked' = g.linked /\ vacancyOf' = g.of /\ vacancy' = g.vacancy

NextDay ==
    /\ today < LastDay /\ today' = today + 1
    /\ UNCHANGED <<history, linked, vacancyOf, vacancy, applied, states>>

\* record_active and record_healthy_absences, as far as a vacancy reads them: each event takes
\* a clock reading of its own.
Happen(p, type) ==
    /\ Len(history) < MaxHistory
    /\ \A i \in DOMAIN history : history[i].at < today
    /\ type = "NEW" <=> Seen({p}, today) = {}
    /\ type = "CLOSED_OBSERVED" => history[Max(Seen({p}, today))].type # "CLOSED_OBSERVED"
    /\ history' = Append(history, [posting |-> p, type |-> type, at |-> today])
    /\ UNCHANGED <<today, linked, vacancyOf, vacancy, applied, states>>

\* run_deduplication of a cutoff whose evidence is final; an older cutoff leaves the projection.
RunCutoff(c, pair) ==
    /\ c < today /\ Chosen(c) # {}
    /\ Cardinality({s.asOf : s \in states} \cup {c}) <= MaxRuns
    /\ \A s \in states : s.asOf # c
    /\ pair \subseteq Chosen(c)
    /\ \A p, q \in pair : p # q => ~RepostBarrier(p, q, c, TRUE)
    /\ LET clusters == {{p} : p \in Chosen(c) \ pair} \cup ({pair} \ {{}})
       IN  /\ states' = states \cup {RunState(P, c) : P \in clusters}
           /\ IF c >= applied.asOf
                THEN LET g == LinkAll(Projection, c)
                     IN  /\ applied' = [asOf |-> c, clusters |-> clusters]
                         /\ IF pair = {} THEN SetGraph(ReconcileAll(g, c))
                            ELSE \E p, q \in pair : \E w \in Winners(g, p, q) :
                                     p < q /\ SetGraph(ReconcileAll(Merged(g, p, q, w), c))
                ELSE UNCHANGED <<applied, linked, vacancyOf, vacancy>>
    /\ UNCHANGED <<today, history>>

\* resolve_review: a person merges a pair the applied run has left for review.
ResolveMerge(p, q) ==
    /\ p < q /\ {p, q} \subseteq Chosen(applied.asOf)
    /\ \A P \in applied.clusters : ~({p, q} \subseteq P)
    /\ ~RepostBarrier(p, q, applied.asOf, FALSE)
    /\ \E w \in Winners(Projection, p, q) :
           LET g == Merged(Projection, p, q, w)
           IN  SetGraph(Reconcile(g, {w}, applied.asOf))
    /\ UNCHANGED <<today, history, applied, states>>

EpisodesInit ==
    /\ today = 0 /\ history = <<>>
    /\ linked = <<>> /\ vacancyOf = <<>> /\ vacancy = <<>>
    /\ applied = [asOf |-> -1, clusters |-> {}] /\ states = {}

EpisodesNext ==
    \/ NextDay
    \/ \E p \in Advertised, type \in {"NEW", "STILL_ACTIVE", "CLOSED_OBSERVED"} : Happen(p, type)
    \/ \E c \in 0..LastDay, pair \in {{}} \cup {{p, q} : p, q \in Advertised} :
           Cardinality(pair) # 1 /\ RunCutoff(c, pair)
    \/ \E p, q \in Advertised : ResolveMerge(p, q)

EpisodesSpec == EpisodesInit /\ [][EpisodesNext]_episodeVars

-----------------------------------------------------------------------------
(* Properties.                                                             *)

\* "Cada reapertura crea VACANCY_EPISODE(n+1)", and nothing else does: a vacancy has no more
\* episodes than its postings had closures that were followed by a sighting.  Episodes open one
\* after the other, and none is closed before it opened (a check of the table, which would make
\* every later run of this vacancy fail).
EpisodesReal ==
    \A v \in Effective(Projection) : vacancy[v].episodes # <<>> =>
        LET es == vacancy[v].episodes
        IN  /\ Len(es) <= EpisodeNumber(Members(Projection, v), applied.asOf)
            /\ \A i \in 1..Len(es) : /\ es[i].closed # None => es[i].opened <= es[i].closed
                                     /\ i < Len(es) =>
                                            es[i].closed # None /\ es[i].opened < es[i + 1].opened

\* Reconciling again what the applied run or a merge has reconciled changes nothing.
Settled ==
    \A v \in Effective(Projection) : Reconciled(Projection, v, applied.asOf) = vacancy[v]

=============================================================================
