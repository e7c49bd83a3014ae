------------------------------ MODULE MCBoundary ------------------------------
(* Where the program meets the world, for TLC: the scheduler, the backups,   *)
(* the RAW store with its lineage, the listings and details of the sites     *)
(* and the geocoder.  They share no state, so a behaviour follows one of them.       *)
EXTENDS ScheduledRun, Backup, RawLineage, Discovery, DetailPages, Geospatial, TLC

CONSTANT Focus

VARIABLE focus

boundaryVars == <<tick, wrapper, envelope, returned, task, registrar,
                  dump, accepted, unremoved, backup, backups,
                  windows, file, writer, acknowledged, writes,
                  source, artifact, manifest, job, edits,
                  site, published, withdrawn, moved, pager, request, found, prior, total, listing,
                  advert, leads, told, rewrites, rule, silent, row, queue, recorded,
                  details,
                  material, resolution, cache, objects, batch, started, imports, focus>>

\* Keys that differ in case only: "k" is stable and keeps its name; "K" is encoded, and its
\* older name looks like "k".
PlainNames == [k \in Key |-> k]
EncodedNames == [k \in Key |-> IF k = "K" THEN "~raw~~4b~" ELSE k]
FoldedNames == [n \in Name |-> IF n = "K" THEN "k" ELSE n]

-----------------------------------------------------------------------------
(* Locations: a street in a known municipality, its name alone, a street   *)
(* without a municipality.  Two runs need the requests in opposite orders. *)

Blank == [country |-> "CH", geo |-> {}, bfs |-> None, named |-> None, street |-> None,
          postcode |-> None, locality |-> None, region |-> None, multiple |-> FALSE]

Described3 == {<<[Blank EXCEPT !.bfs = "Bern", !.street = "s"], [Blank EXCEPT !.named = "Bern"],
                 [Blank EXCEPT !.street = "s"]>>}

Runs ==
    {<< <<1, "PUBLIC_OR_NON_RESIDENTIAL">>, <<2, "PUBLIC_OR_NON_RESIDENTIAL">> >>,
     << <<2, "PUBLIC_OR_NON_RESIDENTIAL">>, <<3, "PUBLIC_OR_NON_RESIDENTIAL">> >>,
     << <<1, "PRIVATE_RESIDENCE">> >>}

Hit(p, o) == [place |-> p, origin |-> o, municipality |-> "Bern", names |-> {"Bern"}, fits |-> TRUE]

AnswerSet == {<<Hit("x", "gg25")>>, <<Hit("y", "address")>>}

-----------------------------------------------------------------------------

\* The third advert belongs to the second section.
Sections == [a \in Advert |-> IF a = 3 THEN 2 ELSE 1]

\* No advert, one, two full pages, and one more.
SiteSizes == {0, 1, 4, 5}

LongerTitles == {<<"t", "t - long">>}

\* The id of "a" is a part of that of "b".
WithinIds == {<<"a", "b">>}

PlanOne == CHOOSE p \in Plan : TRUE

\* What is not followed has one initial state, and adverts are named in the order of the site.
Init ==
    /\ focus \in Focus
    /\ ScheduleInit /\ BackupInit
    /\ focus # "REGISTER" => task = PlanOne /\ \A r \in Registrar : registrar[r].plan = PlanOne
    /\ LineageInit
    /\ focus # "RAW" => /\ ~windows /\ \A n \in Name : file[n] = None
                        /\ \A k \in Legacy : source[k] = CHOOSE c \in Content \ Stamp : TRUE
    /\ GeoInit
    /\ DiscoveryInit
    /\ Len(site) \in SiteSizes /\ \A i \in DOMAIN site : site[i] = i
    /\ focus # "LISTING" => site = <<>> /\ pager = CHOOSE p \in Pager : TRUE
    /\ DetailInit
    /\ focus # "DETAIL" => /\ row = <<>> /\ rule = CHOOSE r \in Rules : TRUE
                           /\ silent = {}
                           /\ \A p \in Posting : advert[p].title = CHOOSE t \in Title : TRUE

Next ==
    /\ UNCHANGED focus
    /\ \/ /\ focus \in {"SCHEDULE", "REGISTER"} /\ ScheduleNext
          /\ UNCHANGED <<backupVars, rawVars, discoveryVars, detailVars, geoVars>>
       \/ /\ focus = "BACKUP" /\ BackupNext
          /\ UNCHANGED <<scheduleVars, rawVars, discoveryVars, detailVars, geoVars>>
       \/ /\ focus = "RAW" /\ LineageNext
          /\ UNCHANGED <<scheduleVars, backupVars, discoveryVars, detailVars, geoVars>>
       \/ /\ focus = "LISTING" /\ DiscoveryNext
          /\ UNCHANGED <<scheduleVars, backupVars, rawVars, detailVars, geoVars>>
       \/ /\ focus = "DETAIL" /\ DetailNext
          /\ UNCHANGED <<scheduleVars, backupVars, rawVars, discoveryVars, geoVars>>
       \/ /\ focus = "LOCATION" /\ GeoNext
          /\ UNCHANGED <<scheduleVars, backupVars, rawVars, discoveryVars, detailVars>>

\* A wrapper reads nothing of a registration but that there is a task: they are followed apart.
Apart ==
    /\ focus = "REGISTER" => \A i \in Invocation : At(i, "READY")
    /\ focus = "SCHEDULE" => task # None /\ \A r \in Registrar : registrar[r].pc = "QUERY"

Symmetry == Permutations(Proc) \cup Permutations(Stamp) \cup Permutations(Content \ Stamp)

\* A batch takes its steps; the sets of Symmetry are not the geocoder's.
Spec == Init /\ [][Next]_boundaryVars /\ \A b \in Resolver : WF_geoVars(GeoStep(b))

=============================================================================
