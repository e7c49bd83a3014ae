----------------------------- MODULE LocationPolicy -----------------------------
(***************************************************************************)
(* observations/geospatial.py, its decisions: what is asked of the         *)
(* geocoder about an observation, what an answer decides, and what of the  *)
(* decision may be shown.                                                  *)
(***************************************************************************)
EXTENDS Integers, Sequences, FiniteSets, Absent

CONSTANTS
    Municipality,     \* the directory of municipalities
    Place,            \* coordinates
    Text              \* what a source writes in an address field

\* The context given by the premium assessment of the observation.
Context == {"PUBLIC_OR_NON_RESIDENTIAL", "PRIVATE_RESIDENCE", "CONFIDENTIAL_PRIVATE_RESIDENCE"}

Protected(context) == context # "PUBLIC_OR_NON_RESIDENTIAL"

\* An observation: the country, the coordinates its source states, the municipality it was
\* joined with, the one its locality and canton name, and the fields of its address.
Described == [country: {"", "CH", "OTHER"}, geo: SUBSET Place, bfs: Municipality \cup {None},
             named: Municipality \cup {None}, street: Text \cup {None},
             postcode: Text \cup {None}, locality: Text \cup {None},
             region: Text \cup {None}, multiple: BOOLEAN]

\* A hit of the geocoder.  "fits" if its canton, country and postcode contradict nothing.
Candidate == [place: Place, origin: {"gg25", "address", "other"},
              municipality: Municipality \cup {None}, names: SUBSET (Municipality \cup Text),
              fits: BOOLEAN]

Governed(m, context) ==
    IF m.bfs # None THEN m.bfs ELSE IF Protected(context) THEN None ELSE m.named

\* The input fingerprint: nothing of the address under protection.
Input(m, context) ==
    [context |-> context, municipality |-> Governed(m, context), country |-> m.country,
     address |-> IF Protected(context) THEN None ELSE m]

ByMunicipality(g) == [origins |-> "gg25", text |-> {g}]

ByText(fields) == [origins |-> "any", text |-> fields \ {None}]

Locality(m, context) == IF m.locality # None THEN m.locality ELSE Governed(m, context)

Request(m, context) ==
    LET g == Governed(m, context)
        locality == Locality(m, context)
    IN  CASE Protected(context) -> IF g = None THEN None ELSE ByMunicipality(g)
          [] ~Protected(context) /\ g # None /\ m.street = None /\ m.postcode = None /\ ~m.multiple ->
                 ByMunicipality(g)
          [] ~Protected(context) /\ m.street # None /\ ~m.multiple ->
                 ByText({m.street, m.postcode, locality})
          [] OTHER ->
                 IF m.postcode # None /\ locality # None THEN ByText({m.postcode, locality})
                 ELSE IF locality # None THEN ByText({locality, m.region})
                 ELSE IF m.region # None THEN ByText({m.region})
                 ELSE None

-----------------------------------------------------------------------------
(* The outcome.                                                            *)

\* A row of the resolution, with its review item when there is a reason for one.
Resolution == [status: {"RESOLVED", "REVIEW", "UNRESOLVED"},
            precision: {"UNKNOWN", "EXACT_WORK_ADDRESS", "POSTCODE", "MUNICIPALITY",
                        "REMOTE_OR_MULTIPLE"},
            place: Place \cup {None}, shown: Place \cup {None}, display: {"HIDDEN",
            "EXACT_ALLOWED", "POSTCODE_CENTROID", "MUNICIPALITY_CENTROID"},
            reason: {"NONE", "UNEXPECTED_COUNTRY", "AMBIGUOUS_SOURCE_COORDINATES",
                     "GEOCODER_CONTRADICTS_BFS", "NO_UNAMBIGUOUS_MUNICIPALITY",
                     "MULTIPLE_PLAUSIBLE_RESULTS"}]

Persist(context, status, precision, place, reason) ==
    [status |-> status, precision |-> precision, place |-> place, reason |-> reason,
     shown |-> IF Protected(context) THEN None ELSE place,
     display |-> CASE Protected(context) -> "HIDDEN"
                   [] ~Protected(context) /\ precision = "POSTCODE" -> "POSTCODE_CENTROID"
                   [] ~Protected(context) /\ precision = "MUNICIPALITY" -> "MUNICIPALITY_CENTROID"
                   [] OTHER -> "EXACT_ALLOWED"]

Open(context, status, reason) == Persist(context, status, "UNKNOWN", None, reason)

\* Decided before any request: by the country, the source's coordinates, or nothing to ask.
NeedsGeocoder(m, context) ==
    m.country # "OTHER" /\ m.geo = {} /\ Request(m, context) # None

FromSource(m, context) ==
    CASE m.country = "OTHER" -> Open(context, "REVIEW", "UNEXPECTED_COUNTRY")
      [] m.country # "OTHER" /\ Cardinality(m.geo) > 1 ->
             Open(context, "REVIEW", "AMBIGUOUS_SOURCE_COORDINATES")
      [] m.country # "OTHER" /\ Cardinality(m.geo) = 1 ->
             Persist(context, "RESOLVED",
                     IF m.multiple THEN "REMOTE_OR_MULTIPLE"
                     ELSE IF m.street # None THEN "EXACT_WORK_ADDRESS" ELSE "MUNICIPALITY",
                     CHOOSE p \in m.geo : TRUE, "NONE")
      [] OTHER -> Open(context, "UNRESOLVED", "NONE")

Agrees(c, m, context) ==
    LET g == Governed(m, context)
        name == IF g # None THEN g ELSE m.locality
    IN  /\ c.fits
        /\ IF Request(m, context).origins = "gg25"
             THEN c.origin = "gg25" /\ c.municipality = g
             ELSE name # None /\ name \in c.names

Precision(m, context, origin) ==
    CASE Protected(context) -> "MUNICIPALITY"
      [] ~Protected(context) /\ m.multiple -> "REMOTE_OR_MULTIPLE"
      [] ~Protected(context) /\ ~m.multiple /\ m.street # None /\ origin = "address" ->
             "EXACT_WORK_ADDRESS"
      [] OTHER -> IF m.postcode # None THEN "POSTCODE" ELSE "MUNICIPALITY"

\* The hits come in the provider's order, and the first that agrees is taken.
FromAnswer(m, context, found) ==
    LET matches == SelectSeq(found, LAMBDA c : Agrees(c, m, context))
        places == {matches[i].place : i \in DOMAIN matches}
        g == Governed(m, context)
    IN  CASE matches = <<>> ->
                 IF found = <<>> THEN Open(context, "UNRESOLVED", "NONE")
                 ELSE Open(context, "REVIEW", IF g # None THEN "GEOCODER_CONTRADICTS_BFS"
                                              ELSE "NO_UNAMBIGUOUS_MUNICIPALITY")
          [] Cardinality(places) > 1 -> Open(context, "REVIEW", "MULTIPLE_PLAUSIBLE_RESULTS")
          [] Cardinality(places) = 1 /\ g = None /\ matches[1].municipality = None ->
                 Open(context, "REVIEW", "NO_UNAMBIGUOUS_MUNICIPALITY")
          [] OTHER -> Persist(context, "RESOLVED", Precision(m, context, matches[1].origin),
                              matches[1].place, "NONE")

=============================================================================
