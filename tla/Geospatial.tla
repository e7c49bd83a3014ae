------------------------------- MODULE Geospatial -------------------------------
(***************************************************************************)
(* observations/geospatial_batch.py over observations/geospatial.py: a     *)
(* batch resolves the targets of a premium run in one transaction, under   *)
(* advisory locks it keeps to the end.  Batches of several processes share *)
(* the cache of the geocoder and the RAW store, which no rollback undoes.  *)
(***************************************************************************)
EXTENDS LocationPolicy

CONSTANTS
    Observation,
    Observed,         \* what the observations may be
    Resolver,         \* processes, each of which runs one batch at a time
    Targets,          \* the targets of a premium run: <<observation, context>> in their order
    Answers,          \* what the provider may answer: sequences of candidates
    MaxBatches,       \* bound: batches started
    MaxImports        \* bound: imports of the directory of municipalities

ASSUME GeospatialAssumption ==
    /\ Targets \subseteq Seq(Observation \X Context)
    /\ Observed \subseteq [Observation -> Described]
    /\ Answers \subseteq Seq(Candidate)
    /\ {MaxBatches, MaxImports} \subseteq Nat

VARIABLES
    material,         \* of each observation
    resolution,       \* posting_location_resolution, with its review item
    cache,            \* geocoder_cache_entry, with its RawArtifact
    objects,          \* the RAW store: keys with their bytes, here the answers
    batch,            \* the locals and the open transaction of a batch
    started, imports

geoVars == <<material, resolution, cache, objects, batch, started, imports>>

Target == Observation \X Context

\* What was read of the observation, and the rows and entries of the open transaction.
NoBatch == [pc |-> "IDLE", todo |-> <<>>, read |-> None, rows |-> {}, entries |-> {}, holds |-> {},
         answer |-> None, failure |-> "NONE"]

-----------------------------------------------------------------------------
(* Helpers.                                                                *)

Current(b) == Head(batch[b].todo)

Asked(b) == Request(batch[b].read, Current(b)[2])

ResolutionLock(t) == <<"resolution", t[1], t[2]>>

CacheLock(request) == <<"cache", request>>

\* The lock a batch takes next.
Wanted(b) ==
    CASE batch[b].pc = "RESOLUTION" /\ batch[b].todo # <<>> -> ResolutionLock(Current(b))
      [] batch[b].pc = "CACHE" -> CacheLock(Asked(b))
      [] OTHER -> None

Blocks(c, b) == c # b /\ Wanted(b) \in batch[c].holds

Free(b) == \A c \in Resolver : ~Blocks(c, b)

KeyByRequest(request, answer) == <<request>>   \* mutant: the key has no digest of the bytes

ObjectKey(request, answer) == <<request, answer>>

Row(t, m, answer) ==
    [target |-> t, input |-> Input(m, t[2]),
     request |-> IF answer = None THEN None ELSE Request(m, t[2]), answer |-> answer,
     outcome |-> IF answer = None THEN FromSource(m, t[2]) ELSE FromAnswer(m, t[2], answer)]

Resolved(b, answer) == Row(Current(b), batch[b].read, answer)

\* A batch with its next target done: rows, cache entries and locks are held until it commits.
Advanced(x, rows, entries, locks) ==
    [x EXCEPT !.pc = "RESOLUTION", !.todo = Tail(@), !.answer = None, !.read = None,
              !.rows = @ \cup rows, !.entries = @ \cup entries, !.holds = @ \cup locks]

\* The row is created, and the next target follows with the locks taken so far.
Advance(b, rows, entries, locks) ==
    batch' = [batch EXCEPT ![b] = Advanced(@, rows, entries, locks)]

-----------------------------------------------------------------------------
(* A batch.                                                                *)

\* The rows there are must have the input of today.
Begin(b, targets) ==
    /\ batch[b].pc = "IDLE" /\ started < MaxBatches
    /\ \A r \in resolution : \A i \in DOMAIN targets : r.target = targets[i] =>
           r.input = Input(material[targets[i][1]], targets[i][2])
    /\ batch' = [batch EXCEPT ![b] = [NoBatch EXCEPT !.pc = "RESOLUTION", !.todo = targets]]
    /\ started' = started + 1
    /\ UNCHANGED <<material, resolution, cache, objects, imports>>

KeepLocks(b, failure) ==   \* mutant: locks of the session, which outlive the transaction
    batch' = [batch EXCEPT ![b] = [NoBatch EXCEPT !.failure = failure, !.holds = batch[b].holds]]

\* Any exception: the transaction is undone and its locks are gone; objects stay.
Rollback(b, failure) ==
    batch' = [batch EXCEPT ![b] = [NoBatch EXCEPT !.failure = failure]]

\* resolve and _resolve_locked, up to the cache.
LockResolution(b) ==
    /\ batch[b].pc = "RESOLUTION" /\ batch[b].todo # <<>> /\ Free(b)
    /\ LET t == Current(b)
           there == {r \in resolution : r.target = t}
           m == material[t[1]]
       IN  CASE \E r \in there : r.input # Input(m, t[2]) -> Rollback(b, "FAILED")
             [] there # {} /\ (\A r \in there : r.input = Input(m, t[2])) ->
                    Advance(b, {}, {}, {ResolutionLock(t)})
             [] there = {} /\ ~NeedsGeocoder(m, t[2]) ->
                    Advance(b, {Row(t, m, None)}, {}, {ResolutionLock(t)})
             [] OTHER -> batch' = [batch EXCEPT ![b].pc = "CACHE", ![b].read = m,
                                                ![b].holds = @ \cup {ResolutionLock(t)}]
    /\ UNCHANGED <<material, resolution, cache, objects, started, imports>>

NoEntry(b) == {}   \* mutant: every batch asks the provider again

\* The entry of the request, committed or of this transaction.
Entry(b) == {e \in cache \cup batch[b].entries : e.request = Asked(b)}

\* cached: an entry must have its object, with the bytes it was made of.
LockCache(b) ==
    /\ batch[b].pc = "CACHE" /\ Free(b)
    /\ LET lock == CacheLock(Asked(b))
       IN  CASE Entry(b) = {} ->
                    batch' = [batch EXCEPT ![b].pc = "FETCH", ![b].holds = @ \cup {lock}]
             [] Entry(b) # {} /\ (\A e \in Entry(b) : e \in objects) ->
                    \E e \in Entry(b) : Advance(b, {Resolved(b, e.answer)}, {}, {lock})
             [] OTHER -> Rollback(b, "RAW_CONFLICT")
    /\ UNCHANGED <<material, resolution, cache, objects, started, imports>>

Fetch(b) ==
    /\ batch[b].pc = "FETCH"
    /\ \E a \in Answers : batch' = [batch EXCEPT ![b].pc = "STORE", ![b].answer = a]
    /\ UNCHANGED <<material, resolution, cache, objects, started, imports>>

\* write_bytes, then the rows of the artifact, the entry and the resolution.
Store(b) ==
    /\ batch[b].pc = "STORE"
    /\ LET answer == batch[b].answer
           object == [key |-> ObjectKey(Asked(b), answer), request |-> Asked(b), answer |-> answer]
       IN  IF \E x \in objects : x.key = object.key /\ x.answer # answer
             THEN Rollback(b, "RAW_CONFLICT") /\ UNCHANGED objects
             ELSE /\ objects' = objects \cup {object}
                  /\ Advance(b, {Resolved(b, answer)}, {object}, {})
    /\ UNCHANGED <<material, resolution, cache, started, imports>>

CommitBatch(b) ==
    /\ batch[b].pc = "RESOLUTION" /\ batch[b].todo = <<>>
    /\ resolution' = resolution \cup batch[b].rows
    /\ cache' = cache \cup batch[b].entries
    /\ batch' = [batch EXCEPT ![b] = NoBatch]
    /\ UNCHANGED <<material, objects, started, imports>>

\* The provider or the store fails, or the process dies.
Fail(b) ==
    /\ batch[b].pc # "IDLE"
    /\ Rollback(b, "FAILED")
    /\ UNCHANGED <<material, resolution, cache, objects, started, imports>>

\* PostgreSQL ends one transaction of those that wait for one another.
BreakDeadlock(b) ==
    /\ \E W \in SUBSET Resolver : b \in W /\ \A c \in W :
           (\E d \in W : Blocks(d, c)) /\ (\E d \in W : Blocks(c, d))
    /\ Rollback(b, "FAILED")
    /\ UNCHANGED <<material, resolution, cache, objects, started, imports>>

\* The reference data are imported again: a locality names another municipality, or none.
ImportDirectory(o) ==
    /\ imports < MaxImports
    /\ \E g \in Municipality \cup {None} :
           g # material[o].named /\ material' = [material EXCEPT ![o].named = g]
    /\ imports' = imports + 1
    /\ UNCHANGED <<resolution, cache, objects, batch, started>>

GeoStep(b) ==
    \/ LockResolution(b) \/ LockCache(b) \/ Fetch(b) \/ Store(b) \/ CommitBatch(b)
    \/ BreakDeadlock(b)

GeoNext ==
    \/ \E b \in Resolver : GeoStep(b) \/ Fail(b)
    \/ \E b \in Resolver, targets \in Targets : Begin(b, targets)
    \/ \E o \in Observation : ImportDirectory(o)

GeoInit ==
    /\ material \in Observed
    /\ resolution = {} /\ cache = {} /\ objects = {}
    /\ batch = [b \in Resolver |-> NoBatch]
    /\ started = 0 /\ imports = 0

GeoSpec == GeoInit /\ [][GeoNext]_geoVars

-----------------------------------------------------------------------------
(* Properties.                                                             *)

\* What the geocoder said of a request is one thing: resolutions of several batches that
\* rest on the request rest on the answer that the cache holds of it, through rollbacks
\* after which the provider answered otherwise.
OneAnswerPerRequest ==
    \A r \in resolution : r.request # None =>
        {e.answer : e \in {x \in cache : x.request = r.request}} = {r.answer}

\* A rolled-back batch leaves its objects in the RAW store; none of them stands in the way
\* of a later batch, whatever the provider answers then.
LeftoversHarmless == \A b \in Resolver : batch[b].failure # "RAW_CONFLICT"

\* A batch ends, although the locks of the cache are taken in the order of the observations
\* and two batches may need them in opposite orders.
BatchEnds == \A b \in Resolver : (batch[b].pc # "IDLE") ~> (batch[b].pc = "IDLE")

=============================================================================
