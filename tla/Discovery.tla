------------------------------- MODULE Discovery -------------------------------
(***************************************************************************)
(* The listing loop of SharedCollectionPipeline.collect over the pagers of *)
(* the adapters, while the site it reads publishes, withdraws and reorders *)
(* its postings.                                                           *)
(***************************************************************************)
EXTENDS Integers, Sequences, FiniteSets, SequencesExt, Absent

CONSTANTS
    Advert,           \* what the site may publish
    Section,          \* the part of the site each belongs to, 1 or 2
    Pager,            \* the pagers in use
    PageSize,
    MaxChanges        \* bound: changes of the site

ASSUME DiscoveryAssumption ==
    /\ Section \in [Advert -> 1..2]
    /\ Pager \subseteq {"OFFSET", "LINK", "LEGACY", "LEGACIES", "RANGE", "OPEN", "COURTS", "SEEN",
                        "FEED", "SURFACES", "FILTER", "INDEX"}
    /\ PageSize \in Nat \ {0} /\ MaxChanges \in Nat
    /\ IsFiniteSet(Advert)
    /\ None \notin Nat /\ None \notin [surface : 1..2, at : Nat]

VARIABLES
    site,             \* the listing as the site orders it
    published, withdrawn,   \* since the first request
    moved,            \* how often an advert was given another place
    pager,            \* how this source is paged
    request,          \* the surface and the position the next request asks for, or None
    found,            \* "discovered", by source posting id
    prior,            \* the context of the request: what the pages before have shown
    total,            \* total_reported
    listing           \* how the listing stage ended, with what was on the site throughout

discoveryVars ==
    <<site, published, withdrawn, moved, pager, request, found, prior, total, listing>>

Reading == listing.status = "READING"

\* The pagers whose list is the whole site.
OneSurface == {"OFFSET", "LINK", "LEGACY", "RANGE", "OPEN", "FEED", "INDEX"}

\* Those that follow the links of the pages, and end without having counted.
ByLink == {"LINK", "LEGACY", "LEGACIES"}

\* What a surface shows: a section of the site, or all of it.
Shown ==
    {a \in ToSet(site) : \/ pager \in OneSurface
                         \/ pager = "FILTER" /\ request.surface = 1
                         \/ Section[a] = request.surface}

\* The order of the site, and with it the rank of an advert on its surface.
Precedes(a, b) == \E j \in 1..Len(site) : \E i \in 1..j : site[i] = a /\ site[j] = b

Rank(b) == Cardinality({a \in Shown : Precedes(a, b)})

\* Surfaces that come as one page.
Whole ==
    \/ pager \in {"FEED", "SURFACES"}
    \/ pager = "COURTS" /\ request.surface = 2
    \/ pager = "INDEX" /\ request.surface = 1

\* The adverts of a page.  Each page of "SEEN" repeats those before.
Entries ==
    {a \in Shown : \/ Whole
                   \/ Rank(a) \in (request.at + 1)..(request.at + PageSize)
                   \/ pager = "SEEN" /\ Rank(a) <= request.at}

\* The pages that need not tell their total.
Totals ==
    IF pager \in {"LEGACY", "LEGACIES", "OPEN", "SEEN", "FEED"} THEN {Cardinality(Shown), None}
    ELSE {Cardinality(Shown)}

\* What a page says of the list: its total, and whether it links to a next page.
Pages == [total : Totals, more : {request.at + PageSize < Cardinality(Shown)}]

-----------------------------------------------------------------------------
(* What a pager makes of the page: the adverts, the next request and the   *)
(* total it tells the pipeline.  Discovery is complete without a next      *)
(* request.  Refused: the adapter raises an error.                         *)

Turn(entries, next, reported) == [entries |-> entries, next |-> next, reported |-> reported]

Refused == None

Ask(surface, position) == [surface |-> surface, at |-> position]

NextPage == Ask(request.surface, request.at + PageSize)

NextSurface == IF request.surface = 1 THEN Ask(2, 0) ELSE None

SeenIds == prior.ids \cup Entries

\* The total of the surface, by this page or by one before.
KnownTotal(page) == IF page.total = None THEN prior.total ELSE page.total

SameTotal(page) == prior.total \in {None, page.total}

\* Zurich, Bern: on from what was consumed to the total of this page.
OffsetPage(page) ==
    LET consumed == request.at + Cardinality(Entries)
    IN  IF consumed < page.total /\ Entries = {} THEN Refused
        ELSE Turn(Entries, IF consumed < page.total THEN Ask(1, consumed) ELSE None, page.total)

\* Luzern, Basel-Landschaft, Schwyz, Zug: on by the links, which advance; Zug has two surfaces.
LinkPage(page, after, reported) ==
    Turn(Entries, IF page.more THEN NextPage ELSE after, reported)

\* Umantis: the total may not change, and the range of the page must be the one asked for.
RangePage(page, after, reported) ==
    IF ~SameTotal(page) THEN Refused
    ELSE IF request.at + Cardinality(Entries) = page.total THEN Turn(Entries, after, reported)
    ELSE IF ~page.more THEN Refused ELSE Turn(Entries, NextPage, None)

\* St. Gallen: the same, but for a total that need not be told before the last page.
OpenPage(page) ==
    IF Entries = {} /\ page.total # 0 THEN Refused ELSE RangePage(page, None, page.total)

\* Glarus: the pages of Umantis, then those of the courts, which prove the sum.
CourtsPage(page) ==
    IF request.surface = 1 THEN RangePage(page, NextSurface, None)
    ELSE Turn(Entries, None, prior.total + page.total)

\* Basel-Stadt: on until as many ids were seen as the surface reported, surface by surface.
SeenPage(page) ==
    LET reported == KnownTotal(page)
        seen == Cardinality(SeenIds)
    IN  IF reported = None \/ prior.total \notin {None, reported} THEN Refused
        ELSE IF seen > reported THEN Refused
        ELSE IF seen = reported THEN Turn(Entries, NextSurface, None)
        ELSE IF ~page.more THEN Refused ELSE Turn(Entries, NextPage, None)

\* The federation, Solothurn, Zurich canton, Appenzell, Winterthur: a feed in one page.
FeedPage(page) == Turn(Entries, None, page.total)

\* Luzern canton, Graubuenden: one page for each surface, no total.
SurfacePage == Turn(Entries, NextSurface, None)

\* Thurgau: nothing is told before all pages were seen, first of all adverts, then of those of
\* other employers, which are taken out.
FilterPage(page) ==
    LET seen == Cardinality(SeenIds)
        own == prior.kept \ SeenIds
    IN  IF ~SameTotal(page) \/ seen > page.total THEN Refused
        ELSE IF seen < page.total THEN IF page.more THEN Turn({}, NextPage, None) ELSE Refused
        ELSE IF request.surface = 1 THEN Turn({}, NextSurface, None)
        ELSE IF ~(SeenIds \subseteq prior.kept) THEN Refused
        ELSE Turn(own, None, Cardinality(own))

\* Schaffhausen: an index of mirrors first; an external advert without a mirror is refused.
IndexPage(page) ==
    IF request.surface = 1 THEN Turn({}, NextSurface, None)
    ELSE IF \E a \in Entries : Section[a] = 2 /\ a \notin prior.kept THEN Refused
    ELSE Turn(Entries, IF page.more THEN NextPage ELSE None, page.total)

Parsed(page) ==
    CASE pager = "OFFSET" -> OffsetPage(page)
      [] pager = "LINK" -> LinkPage(page, None, None)
      [] pager = "LEGACY" -> LinkPage(page, None, page.total)
      [] pager = "LEGACIES" -> LinkPage(page, NextSurface, page.total)
      [] pager = "RANGE" -> RangePage(page, None, page.total)
      [] pager = "OPEN" -> OpenPage(page)
      [] pager = "COURTS" -> CourtsPage(page)
      [] pager = "SEEN" -> SeenPage(page)
      [] pager = "FEED" -> FeedPage(page)
      [] pager = "SURFACES" -> SurfacePage
      [] pager = "FILTER" -> FilterPage(page)
      [] pager = "INDEX" -> IndexPage(page)

NoContext == [total |-> None, ids |-> {}, kept |-> {}]

\* What the pagers that look back write into the next request.
NextContext(page, next) ==
    IF next = None \/ pager \notin {"RANGE", "OPEN", "COURTS", "SEEN", "FILTER", "INDEX"}
      THEN NoContext
      ELSE IF pager = "INDEX" /\ request.surface = 2 THEN prior
      ELSE IF next.surface = request.surface
        THEN [prior EXCEPT !.total = KnownTotal(page), !.ids = SeenIds]
        ELSE [total |-> IF pager = "COURTS" THEN page.total ELSE None, ids |-> {},
              kept |-> SeenIds]

-----------------------------------------------------------------------------
(* The pipeline.                                                           *)

End(status) == listing' = [listing EXCEPT !.status = status]

\* One page: its adverts are added, and the last page is followed by the checks of the loop.
ReadPage ==
    /\ Reading /\ request # None
    /\ \E page \in Pages :
           LET turn == Parsed(page)
           IN  IF turn = Refused
                 THEN End("FAILED") /\ UNCHANGED <<request, found, prior, total>>
                 ELSE /\ found' = found \cup turn.entries
                      /\ total' = IF turn.reported \in {None, 0} THEN total ELSE turn.reported
                      /\ prior' = NextContext(page, turn.next)
                      /\ request' = turn.next
                      /\ UNCHANGED listing
    /\ UNCHANGED <<site, published, withdrawn, moved, pager>>

TotalUnchecked == TRUE   \* mutant: the total is not compared

TotalMatches == total = None \/ Cardinality(found) = total

FinishListing ==
    /\ Reading /\ request = None
    /\ End(IF TotalMatches THEN "COMPLETE" ELSE "FAILED")
    /\ UNCHANGED <<site, published, withdrawn, moved, pager, request, found, prior, total>>

\* The request fails, is refused by the origin policy or comes with another status than 200.
FetchFails ==
    /\ Reading /\ request # None
    /\ End("FAILED")
    /\ UNCHANGED <<site, published, withdrawn, moved, pager, request, found, prior, total>>

-----------------------------------------------------------------------------
(* The site, between two requests.                                         *)

MayChange ==
    /\ Reading /\ request # None
    /\ Cardinality(published) + Cardinality(withdrawn) + moved < MaxChanges

PublishAdvert(a, i) ==
    /\ MayChange
    /\ a \notin ToSet(site) \cup withdrawn
    /\ site' = InsertAt(site, i, a)
    /\ published' = published \cup {a}
    /\ UNCHANGED <<withdrawn, moved, pager, request, found, prior, total, listing>>

Withdraw(i) ==
    /\ MayChange
    /\ site' = RemoveAt(site, i)
    /\ withdrawn' = withdrawn \cup {site[i]}
    /\ listing' = [listing EXCEPT !.steady = @ \ {site[i]}]
    /\ UNCHANGED <<published, moved, pager, request, found, prior, total>>

Move(i, j) ==
    /\ MayChange /\ i # j
    /\ site' = InsertAt(RemoveAt(site, i), j, site[i])
    /\ moved' = moved + 1
    /\ UNCHANGED <<published, withdrawn, pager, request, found, prior, total, listing>>

DiscoveryInit ==
    /\ site \in {s \in BoundedSeq(Advert, Cardinality(Advert)) : IsInjective(s)}
    /\ published = {} /\ withdrawn = {} /\ moved = 0
    /\ pager \in Pager
    /\ request = Ask(1, 0) /\ found = {} /\ total = None /\ prior = NoContext
    /\ listing = [status |-> "READING", steady |-> ToSet(site)]

DiscoveryNext ==
    \/ ReadPage \/ FinishListing \/ FetchFails
    \/ \E a \in Advert : \E i \in 1..(Len(site) + 1) : PublishAdvert(a, i)
    \/ \E i \in 1..Len(site) : Withdraw(i)
    \/ \E i, j \in 1..Len(site) : Move(i, j)

DiscoverySpec == DiscoveryInit /\ [][DiscoveryNext]_discoveryVars

-----------------------------------------------------------------------------
(* Properties.                                                             *)

\* The adverts a source is asked for: all, but for those of other employers in Thurgau.
OwnAdverts == {a \in Advert : pager = "FILTER" => Section[a] = 1}

\* What makes up for an advert missed.  Basel-Stadt may count against the total of an earlier
\* page, so there a new advert may take the place of an old one.
Replaced == IF pager = "SEEN" THEN withdrawn \cup published ELSE withdrawn

\* The places that a pager without a count cannot tell from those it has read.
Shuffled == IF pager \in ByLink THEN moved ELSE 0

\* What a complete listing proves.  Each advert that it misses although it was on the site
\* throughout, and each foreign one it takes in, is paid for by one that was withdrawn meanwhile;
\* in Basel-Stadt a new one pays too, and where only links are followed each change of place
\* pays for one.  Where one total, or one page, covers the site and nothing was withdrawn, the
\* listing is the site, new adverts included.
ListingAccounted ==
    listing.status = "COMPLETE" =>
        /\ Cardinality((listing.steady \cap OwnAdverts) \ found)
               <= Cardinality(Replaced) + Shuffled
        /\ Cardinality(found \ OwnAdverts) <= Cardinality(withdrawn)
        /\ pager \in OneSurface \ ByLink /\ withdrawn = {} => found = ToSet(site)

=============================================================================
