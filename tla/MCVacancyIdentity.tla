--------------------------- MODULE MCVacancyIdentity ---------------------------
(* Deduplication, for TLC: VacancyIdentity with its symmetries, and beside   *)
(* it VacancyEpisodes.  They share no state: a behaviour follows one.        *)
EXTENDS VacancyIdentity, VacancyEpisodes, TLC

CONSTANT Focus

VARIABLE focus

Symmetry == Permutations(ReviewMaterial)

\* Two postings, sighted by cutoff 1 in either order, are looked at by each of the cutoffs
\* 1, 2 and 3; the one with the lowest or the highest key joins them at cutoff 3.
LateFirst ==
    \E late \in {1, 3} :
        /\ firstSeen[late] = 3
        /\ \A p \in Posting \ {late} : firstSeen[p] <= 1
        /\ late = 3 => firstSeen[1] < firstSeen[2]

\* The posting with the lower key comes from the source of lower precedence, or of the same.
RanksOf == [p \in Advertised |-> IF p = 1 THEN 2 ELSE 1]

OwnRequisition == [p \in Advertised |-> p]

DedupInit ==
    /\ Init /\ EpisodesInit /\ focus \in Focus
    /\ focus # "IDENTITY" => firstSeen = [p \in Posting |-> p]

DedupNext ==
    /\ UNCHANGED focus
    /\ \/ focus = "IDENTITY" /\ Next /\ UNCHANGED episodeVars
       \/ focus = "EPISODES" /\ EpisodesNext /\ UNCHANGED vars

DedupSpec == DedupInit /\ [][DedupNext]_<<vars, episodeVars, focus>>

LateInit == DedupInit /\ (focus = "IDENTITY" => LateFirst)

LateSpec == LateInit /\ [][DedupNext]_<<vars, episodeVars, focus>>

=============================================================================
