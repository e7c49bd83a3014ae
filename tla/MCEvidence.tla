------------------------------ MODULE MCEvidence ------------------------------
(* What a cutoff rests on, for TLC: the lifecycle of the postings, human     *)
(* authority with its lineage, the point-in-time stages and the readiness.   *)
(* They share no state, so a behaviour follows one of them.                  *)
EXTENDS MCPostingLifecycle, AuthorityLineage, PointInTime, Readiness

CONSTANT Focus

VARIABLE focus

evidenceVars == <<clock, runs, posting, events, pc, loc,
                  now, assessed, decisions, applications, session, passes, begun, governing, importer,
                  instant, open, rows, dedup, premium, snapshots,
                  hour, finishing, finished, aligned, pending, assessments, focus>>

-----------------------------------------------------------------------------
(* Authority: two assessments of one material came with a copied database, *)
(* a third is made here.  One package has a decision and its application,  *)
(* one the decision alone; two more are not what governance accepted.      *)

StoredRows ==
    [a \in Assessment |->
        IF a <= 2 THEN [result |-> "REVIEW", material |-> CHOOSE m \in Material : TRUE, created |-> 0]
                  ELSE None]

Copied(a, o) == [on |-> a, outcome |-> o, reviewed |-> 0, created |-> 0, origin |-> "COPIED"]

RegistryRows == {Copied(1, "CONFIRMED_GREEN")}

Packages ==
    LET d == Copied(1, "CONFIRMED_GREEN")
        p == [target |-> 2, source |-> d, created |-> 0, origin |-> "COPIED"]
    IN  [k \in Package |->
            CASE k = "both" -> Exported({d}, {p})
              [] k = "decision" -> Exported({d}, {})
              [] k = "altered" -> Exported({Copied(1, "CONFIRMED_NOT_GREEN")}, {})
              [] k = "partial" -> [Exported({d}, {p}) EXCEPT !.assessments = {2}]]

-----------------------------------------------------------------------------
(* Adverts: a clear one, and one for review that names a private estate.   *)

Adverts == {<<"GREEN_CONFIRMED", FALSE>>, <<"REVIEW", TRUE>>}

\* One deduplication run, and two snapshots, the least that can disagree.
OneComparison == Cardinality(dedup) <= 1 /\ Cardinality(snapshots) <= 2

-----------------------------------------------------------------------------
(* Readiness: reviews are the city's.                                      *)

ReviewsOfCity == [v \in Review |-> CHOOSE s \in City : TRUE]

\* Only the city has a history; the other sources had one full run before everything else.
OneHistory ==
    /\ Cardinality(finishing) <= 1
    /\ \A r \in finishing \cup finished : r.source \notin City => r.kind = "FULL" /\ r.at = 0
    /\ \A r \in finishing : r.source \notin City =>
           hour = 0 /\ aligned = {} /\ \A q \in finished : q.source \notin City

-----------------------------------------------------------------------------

Init == LifecycleInit /\ AuthorityInit /\ PitInit /\ ReadinessInit /\ focus \in Focus

Next ==
    /\ UNCHANGED focus
    /\ \/ /\ focus = "LIFECYCLE" /\ LifecycleNext
          /\ UNCHANGED <<authorityVars, pitVars, readinessVars>>
       \/ /\ focus = "AUTHORITY" /\ AuthorityNext
          /\ UNCHANGED <<lifecycleVars, pitVars, readinessVars>>
       \/ /\ focus = "CUTOFF" /\ PitNext
          /\ UNCHANGED <<lifecycleVars, authorityVars, readinessVars>>
       \/ /\ focus = "READINESS" /\ ReadinessNext
          /\ UNCHANGED <<lifecycleVars, authorityVars, pitVars>>

Symmetry == Alike \cup Permutations(Session) \cup Permutations(Importer) \cup Permutations(Listed)
            \cup Permutations(Canton \ Blocked)

Spec == Init /\ [][Next]_evidenceVars

=============================================================================
