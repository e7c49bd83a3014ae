--------------------------- MODULE MCPostingLifecycle ---------------------------
(* PostingLifecycle with its symmetries, for TLC. *)
EXTENDS PostingLifecycle, TLC

Alike == Permutations(Posting) \cup Permutations(Collector)

Untouched(x) ==
    /\ \A n \in DOMAIN runs : x \notin runs[n].listing
    /\ \A c \in Collector : x \notin loc[c].wanted

\* The runs that failed or whose process is gone.
Broken ==
    {n \in DOMAIN runs : \/ runs[n].status = "FAILED"
                         \/ runs[n].status = "RUNNING" /\ \A c \in Collector : loc[c].run # n}

\* One posting is followed through three runs, of which one may fail or die, two of them through
\* two.
Staged ==
    \/ (\E x \in Posting : Untouched(x)) /\ (Len(runs) = 3 => Cardinality(Broken) <= 1)
    \/ Len(runs) <= 2 /\ clock <= 1

=============================================================================
