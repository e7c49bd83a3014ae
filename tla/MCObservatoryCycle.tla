-------------------------- MODULE MCObservatoryCycle --------------------------
(* Instances of ObservatoryCycle for TLC.                                    *)
EXTENDS ObservatoryCycle, TLC

\* Invocations, cycles, sources and releases are told apart only by equality.
Symmetry ==
    Permutations(Invocation) \cup Permutations(Cycle) \cup Permutations(Source)
        \cup Permutations(Release)

\* No action reads the events, and no property of a run with this view does.
WithoutAlerts ==
    <<row, attempts, lock, clock, Len(crashes), args, pc, save, mem, loc>>

=============================================================================
