----------------------------- MODULE Sites_proofs -----------------------------
(***************************************************************************)
(* Proofs about Discovery, DetailPages and Geospatial: what the program    *)
(* takes from sites that change and from a geocoder that several batches   *)
(* ask, for any number of adverts, postings, batches and answers.          *)
(***************************************************************************)
EXTENDS Discovery, DetailPages, Geospatial, FiniteSetTheorems, TLAPS

-----------------------------------------------------------------------------
(* The listing.                                                            *)

Position == [surface : 1..2, at : Nat]

\* The site never lists an advert twice, a withdrawn one does not come back, and a new one was not
\* there throughout.
SiteTrue ==
    /\ site \in Seq(Advert)
    /\ \A i, j \in 1..Len(site) : site[i] = site[j] => i = j
    /\ withdrawn \subseteq Advert /\ withdrawn \cap ToSet(site) = {}
    /\ published \subseteq ToSet(site) \cup withdrawn /\ published \cap listing.steady = {}
    /\ moved \in Nat
    /\ listing \in [status : {"READING", "COMPLETE", "FAILED"}, steady : SUBSET ToSet(site)]

\* Requests and their contexts are of their kind, and a listing is complete after the last one.
RequestTrue ==
    /\ pager \in Pager /\ found \subseteq Advert
    /\ request = None \/ request \in Position
    /\ prior \in [total : Nat \cup {None}, ids : SUBSET Advert, kept : SUBSET Advert]
    /\ listing.status = "COMPLETE" => request = None /\ TotalMatches

\* All adverts that were on the site since the first request.
Known == ToSet(site) \cup withdrawn

\* The pagers that count the whole site, or take it from one page.
OneTotal == OneSurface \ ByLink

\* What was found was on the site, which rests after the last page; then the last total told is
\* that of the site, or the one page was the site.
Counted ==
    /\ found \subseteq Known
    /\ pager = "FEED" /\ request # None => found = {}
    /\ request = None => site = <<>> \/ total = Len(site) \/ found = ToSet(site)

\* A section of the site, what makes up for those missed of it, and what is missed of it.
Part(s) == {a \in Advert : Section[a] = s}

Gone(s) == Replaced \cap Part(s)

Missing(s) == (listing.steady \cap Part(s)) \ found

\* Each advert missed is paid for by one of the same section.
PaidFor(s) == Cardinality(Missing(s)) <= Cardinality(Gone(s))

\* The sections that were left, paid for.
SectionsLeft ==
    /\ request # None /\ request.surface = 2 => PaidFor(1)
    /\ request = None => PaidFor(1) /\ PaidFor(2)

\* What a pager that follows links can no longer find: on its surface what stands before the next
\* page, and the surface before.
Lost ==
    {a \in listing.steady \ found :
        \/ request = None
        \/ a \in Shown /\ Rank(a) <= request.at
        \/ a \notin Shown /\ request.surface = 2}

Linked == Cardinality(Lost) <= Cardinality(withdrawn) + moved

\* The adverts of a section that are not new.
Base(s) == (Known \ published) \cap Part(s)

\* The pager that goes through a section until it has seen as many adverts as were told.  None of
\* the totals told was less than what was there at first and not withdrawn.
SeenSoFar ==
    /\ SectionsLeft
    /\ prior.ids \subseteq found
    /\ request # None =>
           /\ prior.ids \subseteq Known \cap Part(request.surface)
           /\ prior.total # None =>
                  Cardinality(Base(request.surface))
                      <= prior.total + Cardinality(Base(request.surface) \cap withdrawn)

\* The pager that proves the sum: as many as the total of the first section settle it.
Summed ==
    /\ request # None =>
           /\ total = None /\ found \subseteq Known \cap Part(1)
           /\ request.surface = 1 /\ request.at = 0 => found = {}
           /\ request.surface = 2 =>
                  /\ prior.total \in Nat /\ (prior.total = 0 => found = {})
                  /\ Cardinality(found) = prior.total => PaidFor(1)
    /\ request = None => PaidFor(2) /\ (TotalMatches => PaidFor(1))

\* The pager that sees all adverts first, and then those it takes out.
Filtered ==
    /\ request # None =>
           /\ found = {}
           /\ prior.ids \subseteq Known
           /\ request.surface = 2 =>
                  /\ prior.ids \subseteq Part(2)
                  /\ prior.kept \subseteq Known
                  /\ Cardinality((listing.steady \cap Part(1)) \ prior.kept)
                         <= Cardinality(withdrawn)
    /\ request = None =>
           /\ Cardinality((listing.steady \cap Part(1)) \ found) <= Cardinality(withdrawn)
           /\ Cardinality(found \ Part(1)) <= Cardinality(withdrawn)

\* What each kind of pager knows; those that do not follow links know nothing of the order.
CountsTrue ==
    /\ pager \in OneTotal => Counted
    /\ pager = "SEEN" => SeenSoFar
    /\ pager = "COURTS" => Summed
    /\ pager = "SURFACES" => SectionsLeft
    /\ pager = "FILTER" => Filtered

PagerTrue == CountsTrue /\ (pager \in ByLink => Linked)

ListingInv == SiteTrue /\ RequestTrue /\ PagerTrue

\* Where an element of a concatenation comes from.
LEMMA Joined ==
    ASSUME NEW S, NEW f \in Seq(S), NEW g \in Seq(S)
    PROVE  /\ f \o g \in Seq(S) /\ Len(f \o g) = Len(f) + Len(g)
           /\ \A k \in 1..(Len(f) + Len(g)) :
                  (f \o g)[k] = IF k <= Len(f) THEN f[k] ELSE g[k - Len(f)]
OBVIOUS

\* An advert put at a place moves those behind it.
Insertion(t, s, i, a) ==
    /\ t \in Seq(Advert) /\ Len(t) = Len(s) + 1
    /\ \A k \in 1..(Len(s) + 1) : t[k] = IF k < i THEN s[k] ELSE IF k = i THEN a ELSE s[k - 1]

NoDoubles(s) == \A j, k \in 1..Len(s) : s[j] = s[k] => j = k

LEMMA InsertedSite ==
    ASSUME NEW s \in Seq(Advert), NEW i \in 1..(Len(s) + 1), NEW a \in Advert
    PROVE  Insertion(InsertAt(s, i, a), s, i, a)
<1> DEFINE front == SubSeq(s, 1, i - 1)
           back == SubSeq(s, i, Len(s))
<1>1. front \in Seq(Advert) /\ Len(front) = i - 1 /\ \A k \in 1..(i - 1) : front[k] = s[k]
  OBVIOUS
<1>2. /\ back \in Seq(Advert) /\ Len(back) = Len(s) + 1 - i
      /\ \A k \in 1..(Len(s) + 1 - i) : back[k] = s[i + k - 1]
  OBVIOUS
<1> HIDE DEF front, back
<1>3. InsertAt(s, i, a) = (front \o <<a>>) \o back
  BY DEF InsertAt, front, back
<1>4. /\ front \o <<a>> \in Seq(Advert) /\ Len(front \o <<a>>) = i
      /\ \A k \in 1..i : (front \o <<a>>)[k] = IF k < i THEN s[k] ELSE a
  BY <1>1
<1> DEFINE head == front \o <<a>>
<1> HIDE DEF head
<1>5. head \in Seq(Advert) /\ Len(head) = i
  BY <1>4 DEF head
<1>6. InsertAt(s, i, a) = head \o back
  BY <1>3 DEF head
<1>7. head \o back \in Seq(Advert) /\ Len(head \o back) = Len(head) + Len(back)
  BY <1>2, <1>5, Joined
<1>8. InsertAt(s, i, a) \in Seq(Advert) /\ Len(InsertAt(s, i, a)) = Len(s) + 1
  BY <1>2, <1>5, <1>6, <1>7
<1>9. ASSUME NEW k \in 1..(Len(s) + 1)
      PROVE  InsertAt(s, i, a)[k] = IF k < i THEN s[k] ELSE IF k = i THEN a ELSE s[k - 1]
  <2>1. (head \o back)[k] = IF k <= i THEN head[k] ELSE back[k - i]
    BY <1>2, <1>4, Joined DEF head
  <2>2. CASE k <= i
    BY <1>3, <1>4, <2>1, <2>2 DEF head
  <2>3. CASE k > i
    <3>1. k - i \in 1..(Len(s) + 1 - i) /\ i + (k - i) - 1 = k - 1
      BY <2>3
    <3>2. back[k - i] = s[k - 1]
      BY <1>2, <3>1
    <3>3. ~(k <= i) /\ ~(k < i) /\ k # i
      BY <2>3
    <3> QED
      BY <1>6, <2>1, <3>2, <3>3
  <2> QED
    BY <2>2, <2>3
<1> QED
  BY <1>8, <1>9 DEF Insertion

\* An advert taken out moves those behind it.
Removal(t, s, i) ==
    /\ t \in Seq(Advert) /\ Len(t) = Len(s) - 1
    /\ \A k \in 1..(Len(s) - 1) : t[k] = IF k < i THEN s[k] ELSE s[k + 1]

LEMMA RemovedSite ==
    ASSUME NEW s \in Seq(Advert), NEW i \in 1..Len(s)
    PROVE  Removal(RemoveAt(s, i), s, i)
<1> DEFINE front == SubSeq(s, 1, i - 1)
           back == SubSeq(s, i + 1, Len(s))
<1>1. front \in Seq(Advert) /\ Len(front) = i - 1 /\ \A k \in 1..(i - 1) : front[k] = s[k]
  OBVIOUS
<1>2. /\ back \in Seq(Advert) /\ Len(back) = Len(s) - i
      /\ \A k \in 1..(Len(s) - i) : back[k] = s[i + k]
  OBVIOUS
<1>3. RemoveAt(s, i) = front \o back
  BY DEF RemoveAt
<1> HIDE DEF front, back
<1>4. front \o back \in Seq(Advert) /\ Len(front \o back) = Len(front) + Len(back)
  BY <1>1, <1>2, Joined
<1>5. RemoveAt(s, i) \in Seq(Advert) /\ Len(RemoveAt(s, i)) = Len(s) - 1
  BY <1>1, <1>2, <1>3, <1>4
<1>6. ASSUME NEW k \in 1..(Len(s) - 1)
      PROVE  RemoveAt(s, i)[k] = IF k < i THEN s[k] ELSE s[k + 1]
  <2>1. (front \o back)[k] = IF k <= i - 1 THEN front[k] ELSE back[k - (i - 1)]
    BY <1>1, <1>2, Joined
  <2>2. CASE k < i
    BY <1>1, <1>3, <2>1, <2>2
  <2>3. CASE k >= i
    <3>1. k - (i - 1) \in 1..(Len(s) - i) /\ i + (k - (i - 1)) = k + 1
      BY <2>3
    <3>2. back[k - (i - 1)] = s[k + 1]
      BY <1>2, <3>1
    <3> QED
      BY <1>3, <2>1, <2>3, <3>2
  <2> QED
    BY <2>2, <2>3
<1> QED
  BY <1>5, <1>6 DEF Removal

\* What a site shows, by place.
LEMMA InSite ==
    ASSUME NEW s \in Seq(Advert), NEW x
    PROVE  x \in ToSet(s) <=> \E k \in 1..Len(s) : s[k] = x
BY DEF ToSet

\* An insertion shows the same adverts and the new one, each once.
LEMMA InsertedAdvert ==
    ASSUME NEW s \in Seq(Advert), NEW t \in Seq(Advert), NEW a \in Advert,
           NEW i \in 1..(Len(s) + 1), Insertion(t, s, i, a), a \notin ToSet(s), NoDoubles(s)
    PROVE  NoDoubles(t) /\ ToSet(t) = ToSet(s) \cup {a}
<1> USE DEF Insertion, NoDoubles
<1>1. \A k \in 1..Len(s) : s[k] # a
  BY InSite
<1>2. Len(s) \in Nat /\ i \in 1..Len(t) /\ t[i] = a
  OBVIOUS
<1>3. \A m \in 1..Len(t) : m < i => m \in 1..Len(s) /\ t[m] = s[m]
  OBVIOUS
<1>4. \A m \in 1..Len(t) : m > i => m - 1 \in 1..Len(s) /\ t[m] = s[m - 1]
  OBVIOUS
<1>5. ASSUME NEW m \in 1..Len(t), m # i PROVE t[m] # a
  <2>1. CASE m < i
    BY <1>1, <1>3, <2>1
  <2>2. CASE m > i
    BY <1>1, <1>4, <2>2
  <2> QED
    BY <1>2, <1>5, <2>1, <2>2
<1>6. ASSUME NEW j \in 1..Len(t), NEW k \in 1..Len(t), t[j] = t[k] PROVE j = k
  <2>1. CASE j = i \/ k = i
    BY <1>2, <1>5, <1>6, <2>1
  <2>2. CASE j < i /\ k < i
    BY <1>3, <1>6, <2>2
  <2>3. CASE j > i /\ k > i
    <3>1. j - 1 \in 1..Len(s) /\ k - 1 \in 1..Len(s) /\ s[j - 1] = s[k - 1]
      BY <1>4, <1>6, <2>3
    <3>2. j - 1 = k - 1
      BY <3>1
    <3> QED
      BY <1>2, <3>2
  <2>4. CASE j < i /\ k > i
    <3>1. j \in 1..Len(s) /\ k - 1 \in 1..Len(s) /\ s[j] = s[k - 1]
      BY <1>3, <1>4, <1>6, <2>4
    <3>2. j = k - 1
      BY <3>1
    <3> QED
      BY <1>2, <2>4, <3>2
  <2>5. CASE j > i /\ k < i
    <3>1. j - 1 \in 1..Len(s) /\ k \in 1..Len(s) /\ s[j - 1] = s[k]
      BY <1>3, <1>4, <1>6, <2>5
    <3>2. j - 1 = k
      BY <3>1
    <3> QED
      BY <1>2, <2>5, <3>2
  <2> QED
    BY <1>2, <2>1, <2>2, <2>3, <2>4, <2>5
<1>7. ASSUME NEW x \in ToSet(s) PROVE x \in ToSet(t)
  <2>1. PICK k \in 1..Len(s) : s[k] = x
    BY InSite
  <2>2. \E m \in 1..Len(t) : t[m] = x
    <3>1. CASE k < i
      <4>1. k \in 1..Len(t) /\ t[k] = x
        BY <2>1, <3>1
      <4> QED
        BY <4>1
    <3>2. CASE i <= k
      <4>1. k + 1 \in 1..Len(t) /\ t[k + 1] = x
        BY <2>1, <3>2
      <4> QED
        BY <4>1
    <3> QED
      BY <1>2, <3>1, <3>2
  <2> QED
    BY <2>2, InSite
<1>8. a \in ToSet(t)
  BY <1>2, InSite
<1>9. ASSUME NEW x \in ToSet(t) PROVE x \in ToSet(s) \cup {a}
  <2>1. PICK k \in 1..Len(t) : t[k] = x
    BY InSite
  <2>2. x = a \/ \E j \in 1..Len(s) : s[j] = x
    BY <1>2, <1>3, <1>4, <2>1
  <2> QED
    BY <2>2, InSite
<1> QED
  BY <1>6, <1>7, <1>8, <1>9

\* Adverts are counted; fewer of them are no more.
LEMMA Counts ==
    ASSUME NEW T \in SUBSET Advert
    PROVE  /\ IsFiniteSet(T) /\ Cardinality(T) \in Nat
           /\ \A S \in SUBSET T : /\ IsFiniteSet(S) /\ Cardinality(S) \in Nat
                                  /\ Cardinality(S) <= Cardinality(T)
                                  /\ Cardinality(S) = Cardinality(T) => S = T
<1>1. IsFiniteSet(T)
  BY DiscoveryAssumption, FS_Subset
<1> QED
  BY <1>1, FS_Subset, FS_CardinalityType

\* When as many were seen as are listed, as many were not seen, of those listed and those gone, as
\* are gone.
LEMMA MissedForGone ==
    ASSUME NEW listed \in SUBSET Advert, NEW gone \in SUBSET Advert,
           NEW seen \in SUBSET (listed \cup gone), listed \cap gone = {},
           Cardinality(seen) = Cardinality(listed)
    PROVE  /\ Cardinality((listed \cup gone) \ seen) = Cardinality(gone)
           /\ \A S \in SUBSET ((listed \cup gone) \ seen) : Cardinality(S) <= Cardinality(gone)
           /\ (gone = {} => seen = listed)
<1> DEFINE both == listed \cup gone
<1>1. /\ IsFiniteSet(listed) /\ IsFiniteSet(gone) /\ Cardinality(listed) \in Nat
      /\ Cardinality(gone) \in Nat
  BY Counts
<1>2. IsFiniteSet(both) /\ Cardinality(both) = Cardinality(listed) + Cardinality(gone)
  <2>1. /\ IsFiniteSet(both)
        /\ Cardinality(both) = Cardinality(listed) + Cardinality(gone) - Cardinality(listed \cap gone)
    BY <1>1, FS_Union
  <2>2. Cardinality(listed \cap gone) = 0
    BY FS_EmptySet
  <2> HIDE DEF both
  <2> QED
    BY <1>1, <2>1, <2>2
<1>3. both \cap seen = seen
  OBVIOUS
<1> HIDE DEF both
<1>4. Cardinality(both \ seen) = Cardinality(both) - Cardinality(seen)
  BY <1>2, <1>3, FS_Difference
<1>5. Cardinality(both \ seen) = Cardinality(gone)
  BY <1>1, <1>2, <1>4
<1>6. \A S \in SUBSET (both \ seen) : Cardinality(S) <= Cardinality(gone)
  <2>1. both \ seen \in SUBSET Advert
    BY DEF both
  <2> QED
    BY <1>5, <2>1, Counts
<1>7. ASSUME gone = {} PROVE seen = listed
  <2>1. seen \in SUBSET listed
    BY <1>7
  <2> QED
    BY <2>1, Counts
<1> QED
  BY <1>5, <1>6, <1>7 DEF both

\* A site that lists each advert once lists as many as its length.
LEMMA SiteCounted ==
    ASSUME SiteTrue
    PROVE  IsFiniteSet(ToSet(site)) /\ Cardinality(ToSet(site)) = Len(site)
<1>1. Len(site) \in Nat /\ DOMAIN site = 1..Len(site)
  BY DEF SiteTrue
<1>2. site \in Bijection(1..Len(site), ToSet(site))
  <2>1. site \in [1..Len(site) -> ToSet(site)]
    BY <1>1 DEF ToSet, SiteTrue
  <2>2. \A i, j \in 1..Len(site) : site[i] = site[j] => i = j
    BY DEF SiteTrue
  <2>3. \A x \in ToSet(site) : \E i \in 1..Len(site) : site[i] = x
    BY <1>1 DEF ToSet
  <2> QED
    BY <2>1, <2>2, <2>3 DEF Bijection, Injection, Surjection, IsInjective
<1>3. ExistsBijection(1..Len(site), ToSet(site))
  BY <1>2 DEF ExistsBijection
<1>4. IsFiniteSet(1..Len(site)) /\ Cardinality(1..Len(site)) = Len(site)
  <2>1. 1 \in Int /\ Len(site) \in Int
    BY <1>1
  <2>2. Cardinality(1..Len(site)) = IF 1 > Len(site) THEN 0 ELSE Len(site) - 1 + 1
    BY <2>1, FS_Interval
  <2>3. IsFiniteSet(1..Len(site))
    BY <2>1, FS_Interval
  <2> QED
    BY <1>1, <2>2, <2>3
<1> DEFINE places == 1..Len(site)
<1> HIDE DEF places
<1>5. IsFiniteSet(places) /\ ExistsBijection(places, ToSet(site)) /\ Cardinality(places) = Len(site)
  BY <1>3, <1>4 DEF places
<1> QED
  BY <1>5, FS_Bijection

\* A removal shows the same adverts but one, each once.
LEMMA RemovedAdvert ==
    ASSUME NEW s \in Seq(Advert), NEW t \in Seq(Advert), NEW i \in 1..Len(s), Removal(t, s, i),
           NoDoubles(s)
    PROVE  NoDoubles(t) /\ ToSet(t) = ToSet(s) \ {s[i]}
<1> USE DEF Removal, NoDoubles
<1>1. \A m \in 1..Len(t) : m < i => m \in 1..Len(s) /\ t[m] = s[m]
  OBVIOUS
<1>2. \A m \in 1..Len(t) : m >= i => m + 1 \in 1..Len(s) /\ t[m] = s[m + 1]
  OBVIOUS
<1>3. \A m \in 1..Len(t) : \E j \in 1..Len(s) : j # i /\ t[m] = s[j]
  <2>1. ASSUME NEW m \in 1..Len(t) PROVE \E j \in 1..Len(s) : j # i /\ t[m] = s[j]
    <3>1. CASE m < i
      BY <1>1, <3>1
    <3>2. CASE m >= i
      <4>1. m + 1 \in 1..Len(s) /\ m + 1 # i /\ t[m] = s[m + 1]
        BY <1>2, <3>2
      <4> QED
        BY <4>1
    <3> QED
      BY <3>1, <3>2
  <2> QED
    BY <2>1
<1>4. NoDoubles(t)
  <2>1. ASSUME NEW j \in 1..Len(t), NEW k \in 1..Len(t), t[j] = t[k] PROVE j = k
    <3>1. CASE j < i /\ k < i
      BY <1>1, <2>1, <3>1
    <3>2. CASE j >= i /\ k >= i
      <4>1. j + 1 = k + 1
        BY <1>2, <2>1, <3>2
      <4> QED
        BY <4>1
    <3>3. CASE j < i /\ k >= i
      <4>1. j = k + 1
        BY <1>1, <1>2, <2>1, <3>3
      <4> QED
        BY <3>3, <4>1
    <3>4. CASE j >= i /\ k < i
      <4>1. j + 1 = k
        BY <1>1, <1>2, <2>1, <3>4
      <4> QED
        BY <3>4, <4>1
    <3> QED
      BY <3>1, <3>2, <3>3, <3>4
  <2> QED
    BY <2>1
<1>5. ASSUME NEW x \in ToSet(s), x # s[i] PROVE x \in ToSet(t)
  <2>1. PICK k \in 1..Len(s) : s[k] = x /\ k # i
    BY <1>5, InSite
  <2>2. \E m \in 1..Len(t) : t[m] = x
    <3>1. CASE k < i
      <4>1. k \in 1..Len(t) /\ t[k] = x
        BY <2>1, <3>1
      <4> QED
        BY <4>1
    <3>2. CASE i < k
      <4>1. k - 1 \in 1..Len(t) /\ ~(k - 1 < i) /\ k - 1 + 1 = k
        BY <3>2
      <4>2. t[k - 1] = x
        BY <2>1, <4>1
      <4> QED
        BY <4>1, <4>2
    <3> QED
      BY <2>1, <3>1, <3>2
  <2> QED
    BY <2>2, InSite
<1>6. ASSUME NEW x \in ToSet(t) PROVE x \in ToSet(s) \ {s[i]}
  <2>1. PICK m \in 1..Len(t) : t[m] = x
    BY InSite
  <2>2. PICK j \in 1..Len(s) : j # i /\ x = s[j]
    BY <1>3, <2>1
  <2>3. x \in ToSet(s)
    BY <2>2, InSite
  <2> QED
    BY <2>2, <2>3
<1> QED
  BY <1>4, <1>5, <1>6

\* The order of a site.
Order(s, a, b) == \E j \in 1..Len(s) : \E i \in 1..j : s[i] = a /\ s[j] = b

\* It is total.
LEMMA OrderTotal ==
    ASSUME NEW s \in Seq(Advert), NoDoubles(s)
    PROVE  /\ \A x, y \in ToSet(s) : Order(s, x, y) \/ Order(s, y, x)
           /\ \A x, y \in ToSet(s) : Order(s, x, y) /\ Order(s, y, x) => x = y
           /\ \A x, y, z \in ToSet(s) : Order(s, x, y) /\ Order(s, y, z) => Order(s, x, z)
<1>1. ASSUME NEW x \in ToSet(s), NEW y \in ToSet(s) PROVE Order(s, x, y) \/ Order(s, y, x)
  <2>1. PICK i \in 1..Len(s) : s[i] = x
    BY InSite
  <2>2. PICK j \in 1..Len(s) : s[j] = y
    BY InSite
  <2>3. i \in 1..j \/ j \in 1..i
    OBVIOUS
  <2> QED
    BY <2>1, <2>2, <2>3 DEF Order
<1>2. ASSUME NEW x \in ToSet(s), NEW y \in ToSet(s), Order(s, x, y), Order(s, y, x) PROVE x = y
  <2>1. PICK j \in 1..Len(s) : \E i \in 1..j : s[i] = x /\ s[j] = y
    BY <1>2 DEF Order
  <2>2. PICK i \in 1..j : s[i] = x /\ s[j] = y
    BY <2>1
  <2>3. PICK k \in 1..Len(s) : \E m \in 1..k : s[m] = y /\ s[k] = x
    BY <1>2 DEF Order
  <2>4. PICK m \in 1..k : s[m] = y /\ s[k] = x
    BY <2>3
  <2>5. i \in 1..Len(s) /\ m \in 1..Len(s)
    OBVIOUS
  <2>6. i = k /\ m = j
    BY <2>2, <2>4, <2>5 DEF NoDoubles
  <2>7. i = j
    BY <2>6
  <2> QED
    BY <2>2, <2>7
<1>3. ASSUME NEW x \in ToSet(s), NEW y \in ToSet(s), NEW z \in ToSet(s),
             Order(s, x, y), Order(s, y, z)
      PROVE  Order(s, x, z)
  <2>1. PICK j \in 1..Len(s) : \E i \in 1..j : s[i] = x /\ s[j] = y
    BY <1>3 DEF Order
  <2>2. PICK i \in 1..j : s[i] = x /\ s[j] = y
    BY <2>1
  <2>3. PICK k \in 1..Len(s) : \E m \in 1..k : s[m] = y /\ s[k] = z
    BY <1>3 DEF Order
  <2>4. PICK m \in 1..k : s[m] = y /\ s[k] = z
    BY <2>3
  <2>5. m \in 1..Len(s)
    OBVIOUS
  <2>6. m = j
    BY <2>2, <2>4, <2>5 DEF NoDoubles
  <2>7. i \in 1..k
    BY <2>6
  <2> QED
    BY <2>2, <2>4, <2>7 DEF Order
<1> QED
  BY <1>1, <1>2, <1>3

\* An insertion leaves the order of the others alone.
LEMMA InsertedOrder ==
    ASSUME NEW s \in Seq(Advert), NEW t \in Seq(Advert), NEW a, NEW i \in 1..(Len(s) + 1),
           Insertion(t, s, i, a), NEW x, NEW y, Order(s, x, y)
    PROVE  Order(t, x, y)
<1>1. PICK k \in 1..Len(s) : \E j \in 1..k : s[j] = x /\ s[k] = y
  BY DEF Order
<1>2. PICK j \in 1..k : s[j] = x /\ s[k] = y
  BY <1>1
<1> DEFINE place(m) == IF m < i THEN m ELSE m + 1
<1>3. \A m \in 1..Len(s) : place(m) \in 1..Len(t) /\ t[place(m)] = s[m]
  <2>1. ASSUME NEW m \in 1..Len(s) PROVE place(m) \in 1..Len(t) /\ t[place(m)] = s[m]
    <3>1. CASE m < i
      BY <3>1 DEF Insertion
    <3>2. CASE m >= i
      <4>1. m + 1 \in 1..(Len(s) + 1) /\ ~(m + 1 < i) /\ m + 1 # i /\ m + 1 - 1 = m
        BY <3>2
      <4>2. t[m + 1] = s[m]
        BY <4>1 DEF Insertion
      <4> QED
        BY <3>2, <4>1, <4>2 DEF Insertion
    <3> QED
      BY <3>1, <3>2
  <2> QED
    BY <2>1
<1>4. j \in 1..Len(s) /\ place(j) <= place(k)
  OBVIOUS
<1> HIDE DEF place
<1>5. /\ place(k) \in 1..Len(t) /\ t[place(k)] = y
      /\ place(j) \in 1..Len(t) /\ t[place(j)] = x
  BY <1>2, <1>3, <1>4
<1>6. place(j) \in 1..place(k)
  BY <1>4, <1>5
<1> QED
  BY <1>5, <1>6 DEF Order

\* So does a removal.
LEMMA RemovedOrder ==
    ASSUME NEW s \in Seq(Advert), NEW t \in Seq(Advert), NEW i \in 1..Len(s),
           Removal(t, s, i), NEW x, NEW y, Order(s, x, y), x # s[i], y # s[i]
    PROVE  Order(t, x, y)
<1>1. PICK k \in 1..Len(s) : \E j \in 1..k : s[j] = x /\ s[k] = y
  BY DEF Order
<1>2. PICK j \in 1..k : s[j] = x /\ s[k] = y
  BY <1>1
<1> DEFINE place(m) == IF m < i THEN m ELSE m - 1
<1>3. \A m \in 1..Len(s) : m # i => place(m) \in 1..Len(t) /\ t[place(m)] = s[m]
  <2>1. ASSUME NEW m \in 1..Len(s), m # i PROVE place(m) \in 1..Len(t) /\ t[place(m)] = s[m]
    <3>1. CASE m < i
      <4>1. m \in 1..(Len(s) - 1)
        BY <3>1
      <4>2. t[m] = s[m] /\ m \in 1..Len(t)
        BY <3>1, <4>1 DEF Removal
      <4> QED
        BY <3>1, <4>2
    <3>2. CASE m > i
      <4>1. m - 1 \in 1..(Len(s) - 1) /\ ~(m - 1 < i) /\ m - 1 + 1 = m
        BY <3>2
      <4>2. t[m - 1] = s[m]
        BY <4>1 DEF Removal
      <4> QED
        BY <3>2, <4>1, <4>2 DEF Removal
    <3> QED
      BY <2>1, <3>1, <3>2
  <2> QED
    BY <2>1
<1>4. j \in 1..Len(s) /\ j # i /\ k # i
  BY <1>2
<1>5. place(j) <= place(k)
  BY <1>4
<1> HIDE DEF place
<1>6. /\ place(k) \in 1..Len(t) /\ t[place(k)] = y
      /\ place(j) \in 1..Len(t) /\ t[place(j)] = x
  BY <1>2, <1>3, <1>4
<1>7. place(j) \in 1..place(k)
  BY <1>5, <1>6
<1> QED
  BY <1>6, <1>7 DEF Order

\* A change of place leaves what is shown, and the order of the others; the advert that moves
\* stays behind those that stood before it, or before those that stood behind it.
LEMMA MovedSite ==
    ASSUME NEW s \in Seq(Advert), NEW i \in 1..Len(s), NEW j \in 1..Len(s), NoDoubles(s),
           NEW t, t = InsertAt(RemoveAt(s, i), j, s[i])
    PROVE  /\ t \in Seq(Advert) /\ Len(t) = Len(s) /\ NoDoubles(t) /\ ToSet(t) = ToSet(s)
           /\ \A x, y : Order(s, x, y) /\ x # s[i] /\ y # s[i] => Order(t, x, y)
           /\ \/ \A x : Order(s, x, s[i]) => Order(t, x, s[i])
              \/ \A x : Order(s, s[i], x) => Order(t, s[i], x)
<1>1. PICK w \in Advert : w = s[i]
  OBVIOUS
<1>2. PICK r \in Seq(Advert) : r = RemoveAt(s, i) /\ Removal(r, s, i)
  <2>1. Removal(RemoveAt(s, i), s, i)
    BY RemovedSite
  <2> QED
    BY <2>1 DEF Removal
<1>3. NoDoubles(r) /\ ToSet(r) = ToSet(s) \ {w}
  BY <1>1, <1>2, RemovedAdvert
<1>4. Len(r) = Len(s) - 1 /\ j \in 1..(Len(r) + 1) /\ w \notin ToSet(r)
  BY <1>2, <1>3 DEF Removal
<1>5. t \in Seq(Advert) /\ Insertion(t, r, j, w)
  <2>1. Insertion(InsertAt(r, j, w), r, j, w)
    BY <1>4, InsertedSite
  <2> QED
    BY <1>1, <1>2, <2>1 DEF Insertion
<1>6. NoDoubles(t) /\ ToSet(t) = ToSet(r) \cup {w}
  BY <1>3, <1>4, <1>5, InsertedAdvert
<1>7. ToSet(t) = ToSet(s) /\ Len(t) = Len(s)
  <2>1. w \in ToSet(s)
    BY <1>1, InSite
  <2>2. Len(t) = Len(s)
    BY <1>4, <1>5 DEF Insertion
  <2> QED
    BY <1>3, <1>6, <2>1, <2>2
<1>8. ASSUME NEW x, NEW y, Order(s, x, y), x # w, y # w PROVE Order(t, x, y)
  <2>1. Order(r, x, y)
    BY <1>1, <1>2, <1>8, RemovedOrder
  <2> QED
    BY <1>4, <1>5, <2>1, InsertedOrder
<1>9. j \in 1..Len(t) /\ t[j] = w /\ i \in 1..Len(s)
  BY <1>4, <1>5, <1>7 DEF Insertion
<1>10. ASSUME j >= i, NEW x, Order(s, x, w) PROVE Order(t, x, w)
  <2>1. PICK k \in 1..Len(s) : \E m \in 1..k : s[m] = x /\ s[k] = w
    BY <1>10 DEF Order
  <2>2. PICK m \in 1..k : s[m] = x /\ s[k] = w
    BY <2>1
  <2>3. k = i
    BY <1>1, <2>2 DEF NoDoubles
  <2>4. CASE m = i
    BY <1>1, <1>9, <2>2, <2>4 DEF Order
  <2>5. CASE m < i
    <3>1. m \in 1..(Len(s) - 1) /\ m \in 1..Len(r) /\ m \in 1..(Len(r) + 1)
      BY <1>4, <2>5
    <3>2. r[m] = x
      BY <1>2, <2>2, <2>5, <3>1 DEF Removal
    <3>3. t[m] = x /\ m \in 1..j
      BY <1>5, <1>10, <2>5, <3>1, <3>2 DEF Insertion
    <3> QED
      BY <1>9, <3>3 DEF Order
  <2> QED
    BY <2>2, <2>3, <2>4, <2>5
<1>11. ASSUME j <= i, NEW x, Order(s, w, x) PROVE Order(t, w, x)
  <2>1. PICK k \in 1..Len(s) : \E m \in 1..k : s[m] = w /\ s[k] = x
    BY <1>11 DEF Order
  <2>2. PICK m \in 1..k : s[m] = w /\ s[k] = x
    BY <2>1
  <2>3. m \in 1..Len(s)
    OBVIOUS
  <2>4. m = i
    BY <1>1, <2>2, <2>3 DEF NoDoubles
  <2>5. CASE k = i
    BY <1>1, <1>9, <2>2, <2>5 DEF Order
  <2>6. CASE k > i
    <3>1. k - 1 \in 1..(Len(s) - 1) /\ ~(k - 1 < i) /\ k - 1 + 1 = k
      BY <2>6
    <3>2. r[k - 1] = x
      BY <1>2, <2>2, <3>1 DEF Removal
    <3>3. k \in 1..(Len(r) + 1) /\ ~(k < j) /\ k # j
      BY <1>4, <1>11, <2>6
    <3>4. t[k] = x /\ j \in 1..k /\ k \in 1..Len(t)
      BY <1>5, <1>7, <3>2, <3>3 DEF Insertion
    <3> QED
      BY <1>9, <3>4 DEF Order
  <2> QED
    BY <2>2, <2>4, <2>5, <2>6
<1> QED
  BY <1>1, <1>5, <1>6, <1>7, <1>8, <1>10, <1>11

\* What a surface shows is on the site.
LEMMA ShownListed ==
    ASSUME SiteTrue
    PROVE  Shown \subseteq ToSet(site) /\ ToSet(site) \subseteq Advert /\ NoDoubles(site)
<1>1. ToSet(site) \subseteq Advert
  BY DEF SiteTrue, ToSet
<1> QED
  BY <1>1 DEF SiteTrue, Shown, NoDoubles

\* What stands before an advert on its surface, itself included.
UpTo(b) == {a \in Shown : Precedes(a, b)}

\* No two adverts of a surface have the same rank.
LEMMA Ranks ==
    ASSUME SiteTrue
    PROVE  /\ \A a \in Shown : Rank(a) \in 1..Cardinality(Shown)
           /\ \A a, b \in Shown : Rank(a) = Rank(b) => a = b
<1>1. /\ \A x, y \in Shown : Precedes(x, y) \/ Precedes(y, x)
      /\ \A x, y \in Shown : Precedes(x, y) /\ Precedes(y, x) => x = y
      /\ \A x, y, z \in Shown : Precedes(x, y) /\ Precedes(y, z) => Precedes(x, z)
  <2>1. \A x, y : Precedes(x, y) <=> Order(site, x, y)
    BY DEF Precedes, Order
  <2>2. site \in Seq(Advert)
    BY DEF SiteTrue
  <2>3. \A x \in Shown : x \in ToSet(site)
    BY ShownListed
  <2>4. \A x, y \in Shown : Order(site, x, y) \/ Order(site, y, x)
    BY <2>2, <2>3, ShownListed, OrderTotal
  <2>5. \A x, y \in Shown : Order(site, x, y) /\ Order(site, y, x) => x = y
    BY <2>2, <2>3, ShownListed, OrderTotal
  <2>6. \A x, y, z \in Shown : Order(site, x, y) /\ Order(site, y, z) => Order(site, x, z)
    BY <2>2, <2>3, ShownListed, OrderTotal
  <2> QED
    BY <2>1, <2>4, <2>5, <2>6
<1>2. \A b : UpTo(b) \in SUBSET Shown /\ Rank(b) = Cardinality(UpTo(b))
  BY DEF UpTo, Rank
<1>3. \A b \in Shown : b \in UpTo(b)
  BY <1>1 DEF UpTo
<1>4. Shown \in SUBSET Advert
  BY ShownListed
<1>5. ASSUME NEW a \in Shown PROVE Rank(a) \in 1..Cardinality(Shown)
  <2>1. /\ Cardinality(UpTo(a)) \in Nat /\ Cardinality(Shown) \in Nat
        /\ Cardinality(UpTo(a)) <= Cardinality(Shown) /\ IsFiniteSet(UpTo(a))
    BY <1>2, <1>4, Counts
  <2>2. Cardinality(UpTo(a)) # 0
    BY <1>3, <2>1, FS_EmptySet
  <2> QED
    BY <1>2, <2>1, <2>2
<1>6. ASSUME NEW a \in Shown, NEW b \in Shown, Rank(a) = Rank(b), Precedes(a, b) PROVE a = b
  <2>1. UpTo(a) \in SUBSET UpTo(b)
    BY <1>1, <1>6 DEF UpTo
  <2>2. UpTo(b) \in SUBSET Advert /\ Cardinality(UpTo(a)) = Cardinality(UpTo(b))
    BY <1>2, <1>4, <1>6
  <2>3. UpTo(a) = UpTo(b)
    BY <2>1, <2>2, Counts
  <2>4. b \in UpTo(a)
    BY <1>3, <2>3
  <2> QED
    BY <1>1, <1>6, <2>4 DEF UpTo
<1>7. ASSUME NEW a \in Shown, NEW b \in Shown, Rank(a) = Rank(b) PROVE a = b
  BY <1>1, <1>6, <1>7
<1> QED
  BY <1>5, <1>7

\* A new advert leaves the site without doubles, and the others in their order.
LEMMA PublishShows ==
    ASSUME SiteTrue, NEW a \in Advert, NEW i \in 1..(Len(site) + 1), PublishAdvert(a, i)
    PROVE  /\ SiteTrue' /\ ToSet(site') = ToSet(site) \cup {a}
           /\ \A x, y : Precedes(x, y) => Precedes(x, y)'
<1>1. PICK s \in Seq(Advert) : s = site /\ site' = InsertAt(s, i, a)
  BY DEF SiteTrue, PublishAdvert
<1>2. i \in 1..(Len(s) + 1) /\ a \notin ToSet(s) /\ NoDoubles(s)
  BY <1>1 DEF PublishAdvert, SiteTrue, NoDoubles
<1>3. PICK t \in Seq(Advert) : t = site' /\ Insertion(t, s, i, a)
  <2>1. Insertion(InsertAt(s, i, a), s, i, a)
    BY <1>2, InsertedSite
  <2>2. InsertAt(s, i, a) \in Seq(Advert)
    BY <2>1 DEF Insertion
  <2> QED
    BY <1>1, <2>1, <2>2
<1>4. NoDoubles(t) /\ ToSet(t) = ToSet(s) \cup {a}
  BY <1>2, <1>3, InsertedAdvert
<1>5. /\ site' \in Seq(Advert) /\ ToSet(site') = ToSet(site) \cup {a}
      /\ \A j, k \in 1..Len(site') : site'[j] = site'[k] => j = k
  BY <1>1, <1>3, <1>4 DEF NoDoubles
<1>6. SiteTrue'
  BY <1>1, <1>2, <1>5 DEF SiteTrue, PublishAdvert
<1>7. \A x, y : Order(s, x, y) => Order(t, x, y)
  BY <1>2, <1>3, InsertedOrder
<1>8. \A x, y : Precedes(x, y) => Precedes(x, y)'
  <2>1. \A x, y : (Precedes(x, y) <=> Order(site, x, y)) /\ (Precedes(x, y)' <=> Order(site', x, y))
    BY DEF Precedes, Order
  <2> QED
    BY <1>1, <1>3, <1>7, <2>1
<1> QED
  BY <1>5, <1>6, <1>8

\* A withdrawn advert leaves the site for good, and the others in their order.
LEMMA WithdrawShows ==
    ASSUME SiteTrue, NEW i \in 1..Len(site), Withdraw(i)
    PROVE  /\ SiteTrue' /\ ToSet(site') = ToSet(site) \ {site[i]}
           /\ site[i] \in ToSet(site) /\ withdrawn' = withdrawn \cup {site[i]}
           /\ listing' = [listing EXCEPT !.steady = @ \ {site[i]}]
           /\ \A x, y : Precedes(x, y) /\ x # site[i] /\ y # site[i] => Precedes(x, y)'
<1>1. PICK s \in Seq(Advert) : s = site /\ site' = RemoveAt(s, i)
  BY DEF SiteTrue, Withdraw
<1>2. i \in 1..Len(s) /\ NoDoubles(s)
  BY <1>1 DEF SiteTrue, NoDoubles
<1>3. PICK t \in Seq(Advert) : t = site' /\ Removal(t, s, i)
  <2>1. Removal(RemoveAt(s, i), s, i)
    BY <1>2, RemovedSite
  <2>2. RemoveAt(s, i) \in Seq(Advert)
    BY <2>1 DEF Removal
  <2> QED
    BY <1>1, <2>1, <2>2
<1>4. NoDoubles(t) /\ ToSet(t) = ToSet(s) \ {s[i]}
  BY <1>2, <1>3, RemovedAdvert
<1>5. /\ site' \in Seq(Advert) /\ ToSet(site') = ToSet(site) \ {site[i]}
      /\ \A j, k \in 1..Len(site') : site'[j] = site'[k] => j = k
  BY <1>1, <1>3, <1>4 DEF NoDoubles
<1>6. site[i] \in Advert /\ site[i] \in ToSet(site)
  BY <1>1, <1>2, InSite
<1>7. withdrawn' = withdrawn \cup {site[i]} /\ listing' = [listing EXCEPT !.steady = @ \ {site[i]}]
  BY DEF Withdraw
<1>8. SiteTrue'
  BY <1>5, <1>6, <1>7 DEF SiteTrue, Withdraw
<1>9. \A x, y : Order(s, x, y) /\ x # s[i] /\ y # s[i] => Order(t, x, y)
  BY <1>2, <1>3, RemovedOrder
<1>10. \A x, y : Precedes(x, y) /\ x # site[i] /\ y # site[i] => Precedes(x, y)'
  <2>1. \A x, y : (Precedes(x, y) <=> Order(site, x, y)) /\ (Precedes(x, y)' <=> Order(site', x, y))
    BY DEF Precedes, Order
  <2> QED
    BY <1>1, <1>3, <1>9, <2>1
<1> QED
  BY <1>5, <1>6, <1>7, <1>8, <1>10

\* An advert with another place leaves the site without doubles.
LEMMA MoveShows ==
    ASSUME SiteTrue, NEW i \in 1..Len(site), NEW j \in 1..Len(site), Move(i, j)
    PROVE  /\ SiteTrue' /\ ToSet(site') = ToSet(site) /\ Len(site') = Len(site)
           /\ \E w : /\ \A x, y : Precedes(x, y) /\ x # w /\ y # w => Precedes(x, y)'
                     /\ \/ \A x : Precedes(x, w) => Precedes(x, w)'
                        \/ \A x : Precedes(w, x) => Precedes(w, x)'
<1>1. PICK s \in Seq(Advert) : s = site /\ NoDoubles(s)
  BY DEF SiteTrue, NoDoubles
<1>2. PICK t : t = site' /\ t = InsertAt(RemoveAt(s, i), j, s[i])
  BY <1>1 DEF Move
<1>3. i \in 1..Len(s) /\ j \in 1..Len(s)
  BY <1>1
<1>4. /\ t \in Seq(Advert) /\ Len(t) = Len(s) /\ NoDoubles(t) /\ ToSet(t) = ToSet(s)
      /\ \A x, y : Order(s, x, y) /\ x # s[i] /\ y # s[i] => Order(t, x, y)
      /\ \/ \A x : Order(s, x, s[i]) => Order(t, x, s[i])
         \/ \A x : Order(s, s[i], x) => Order(t, s[i], x)
  BY <1>1, <1>2, <1>3, MovedSite
<1>5. /\ site' \in Seq(Advert) /\ ToSet(site') = ToSet(site) /\ Len(site') = Len(site)
      /\ \A m, k \in 1..Len(site') : site'[m] = site'[k] => m = k
  BY <1>1, <1>2, <1>4 DEF NoDoubles
<1>6. SiteTrue'
  BY <1>5 DEF SiteTrue, Move
<1>7. \A x, y : (Precedes(x, y) <=> Order(s, x, y)) /\ (Precedes(x, y)' <=> Order(t, x, y))
  BY <1>1, <1>2 DEF Precedes, Order
<1>8. PICK w : w = s[i]
  OBVIOUS
<1>9. /\ \A x, y : Precedes(x, y) /\ x # w /\ y # w => Precedes(x, y)'
      /\ \/ \A x : Precedes(x, w) => Precedes(x, w)'
         \/ \A x : Precedes(w, x) => Precedes(w, x)'
  BY <1>4, <1>7, <1>8
<1> QED
  BY <1>5, <1>6, <1>9

\* The requests that may follow a page.
LEMMA NextRequests ==
    ASSUME request \in Position
    PROVE  /\ NextPage \in Position /\ NextPage # None /\ None \notin Position
           /\ NextPage.surface = request.surface /\ NextPage.at = request.at + PageSize
           /\ request.surface = 1 => /\ NextSurface \in Position /\ NextSurface # None
                                     /\ NextSurface.surface = 2 /\ NextSurface.at = 0
           /\ request.surface # 1 => NextSurface = None /\ request.surface = 2
           /\ \A consumed \in Nat : Ask(1, consumed) \in Position
<1>1. None \notin Position
  BY DiscoveryAssumption DEF Position
<1>2. \A s \in 1..2 : \A at \in Nat : /\ Ask(s, at) \in Position
                                     /\ Ask(s, at).surface = s /\ Ask(s, at).at = at
  BY DEF Ask, Position
<1>3. request.surface \in 1..2 /\ request.at \in Nat /\ request.at + PageSize \in Nat
  BY DiscoveryAssumption DEF Position
<1>4. /\ NextPage \in Position /\ NextPage.surface = request.surface
      /\ NextPage.at = request.at + PageSize
  BY <1>2, <1>3 DEF NextPage
<1>5. request.surface = 1 => /\ NextSurface \in Position
                             /\ NextSurface.surface = 2 /\ NextSurface.at = 0
  BY <1>2 DEF NextSurface
<1>6. request.surface # 1 => NextSurface = None /\ request.surface = 2
  BY <1>3 DEF NextSurface
<1> QED
  BY <1>1, <1>2, <1>4, <1>5, <1>6

\* What is paid for stays so while no more is missed and no less makes up for it.
LEMMA PaidStays ==
    ASSUME SiteTrue, SiteTrue', NEW s \in 1..2, Missing(s)' \subseteq Missing(s),
           Replaced \subseteq Replaced', PaidFor(s)
    PROVE  PaidFor(s)'
<1>1. Missing(s) \in SUBSET Advert /\ Missing(s)' \in SUBSET Missing(s)
  BY DEF Missing, Part
<1>2. Gone(s)' \in SUBSET Advert /\ Gone(s) \in SUBSET (Gone(s)')
  BY DEF Gone, Part
<1>3. Cardinality(Missing(s)') <= Cardinality(Missing(s))
  BY <1>1, Counts
<1>4. Cardinality(Gone(s)) <= Cardinality(Gone(s)')
  BY <1>2, Counts
<1>5. /\ Cardinality(Missing(s)') \in Nat /\ Cardinality(Missing(s)) \in Nat
      /\ Cardinality(Gone(s)') \in Nat /\ Cardinality(Gone(s)) \in Nat
  BY <1>1, <1>2, Counts
<1> QED
  BY <1>3, <1>4, <1>5 DEF PaidFor

\* One advert more counts one more at most.
LEMMA OneMore ==
    ASSUME NEW T \in SUBSET Advert, NEW e, NEW S \in SUBSET (T \cup {e})
    PROVE  Cardinality(S) \in Nat /\ Cardinality(S) <= Cardinality(T) + 1
<1>1. IsFiniteSet(T) /\ Cardinality(T) \in Nat
  BY Counts
<1>2. /\ IsFiniteSet(T \cup {e})
      /\ Cardinality(T \cup {e}) = IF e \in T THEN Cardinality(T) ELSE Cardinality(T) + 1
  BY <1>1, FS_AddElement
<1>3. Cardinality(S) <= Cardinality(T \cup {e}) /\ Cardinality(S) \in Nat
  BY <1>2, FS_Subset, FS_CardinalityType
<1> QED
  BY <1>1, <1>2, <1>3

\* A rank counts what stands before.
LEMMA RankCounts ==
    ASSUME SiteTrue, SiteTrue'
    PROVE  /\ \A x : /\ UpTo(x) \in SUBSET Advert /\ Rank(x) = Cardinality(UpTo(x))
                     /\ Rank(x) \in Nat
           /\ \A x : /\ UpTo(x)' \in SUBSET Advert /\ Rank(x)' = Cardinality(UpTo(x)')
                     /\ Rank(x)' \in Nat
<1>1. Shown \subseteq Advert /\ Shown' \subseteq Advert
  BY DEF Shown, SiteTrue, ToSet
<1>2. \A x : UpTo(x) \in SUBSET Advert /\ UpTo(x)' \in SUBSET Advert
  BY <1>1 DEF UpTo
<1>3. \A x : Rank(x) = Cardinality(UpTo(x)) /\ Rank(x)' = Cardinality(UpTo(x)')
  BY DEF Rank, UpTo
<1>4. \A x : Cardinality(UpTo(x)) \in Nat /\ Cardinality(UpTo(x)') \in Nat
  BY <1>2, Counts
<1> QED
  BY <1>2, <1>3, <1>4

\* What a pager can no longer find is on the site.
LEMMA LostListed ==
    ASSUME SiteTrue
    PROVE  Lost \in SUBSET Advert /\ IsFiniteSet(Lost) /\ Cardinality(Lost) \in Nat
<1>1. Lost \in SUBSET Advert
  BY ShownListed DEF Lost, SiteTrue
<1> QED
  BY <1>1, Counts

\* When each advert comes closer by one place at most, one more is lost at most: the one that
\* stood at the edge.
LEMMA OneMoreLost ==
    ASSUME SiteTrue, SiteTrue', request \in Position, UNCHANGED <<pager, request, found>>,
           listing'.steady \subseteq listing.steady,
           \A x \in listing'.steady : x \in Shown' <=> x \in Shown,
           \A x \in Shown' : Rank(x) <= Rank(x)' + 1
    PROVE  Cardinality(Lost') \in Nat /\ Cardinality(Lost') <= Cardinality(Lost) + 1
<1>1. request.at \in Nat /\ request # None
  BY NextRequests DEF Position
<1>2. ASSUME NEW x \in Lost' \ Lost PROVE x \in Shown /\ Rank(x) = request.at + 1
  <2>1. /\ x \in listing'.steady \ found /\ x \in listing.steady \ found
        /\ \/ x \in Shown' /\ Rank(x)' <= request.at
           \/ x \notin Shown' /\ request.surface = 2
    BY <1>1, <1>2 DEF Lost
  <2>2. ~(x \in Shown /\ Rank(x) <= request.at) /\ ~(x \notin Shown /\ request.surface = 2)
    BY <1>2, <2>1 DEF Lost
  <2>3. x \in Shown' /\ x \in Shown /\ Rank(x)' <= request.at /\ ~(Rank(x) <= request.at)
    BY <2>1, <2>2
  <2>4. Rank(x) \in Nat /\ Rank(x)' \in Nat
    BY RankCounts
  <2>5. Rank(x) <= Rank(x)' + 1
    BY <2>3
  <2> QED
    BY <1>1, <2>3, <2>4, <2>5
<1>3. \E e : Lost' \in SUBSET (Lost \cup {e})
  <2>1. CASE Lost' \subseteq Lost
    BY <2>1
  <2>2. CASE ~(Lost' \subseteq Lost)
    <3>1. PICK e : e \in Lost' \ Lost
      BY <2>2
    <3>2. \A x \in Lost' \ Lost : x = e
      BY <1>2, <3>1, Ranks
    <3> QED
      BY <3>2
  <2> QED
    BY <2>1, <2>2
<1> QED
  BY <1>3, OneMore, LostListed

\* A new advert moves others back only, so no more of what was there is lost.
LEMMA PublishLost ==
    ASSUME SiteTrue, RequestTrue, NEW a \in Advert, NEW i \in 1..(Len(site) + 1),
           PublishAdvert(a, i)
    PROVE  Lost' \subseteq Lost
<1>1. /\ SiteTrue' /\ ToSet(site') = ToSet(site) \cup {a} /\ a \notin ToSet(site)
      /\ \A x, y : Precedes(x, y) => Precedes(x, y)'
  BY PublishShows DEF PublishAdvert
<1>2. UNCHANGED <<pager, request, listing, found>> /\ request \in Position
  BY DEF PublishAdvert, MayChange, RequestTrue
<1>3. request.at \in Nat /\ request # None
  BY <1>2, NextRequests DEF Position
<1>4. Shown \subseteq Shown' /\ Shown' \subseteq Shown \cup {a}
  BY <1>1, <1>2 DEF Shown
<1>5. \A x : Rank(x) \in Nat /\ Rank(x)' \in Nat /\ Rank(x) <= Rank(x)'
  <2>1. \A x : UpTo(x) \in SUBSET (UpTo(x)')
    BY <1>1, <1>4 DEF UpTo
  <2>2. \A x : Cardinality(UpTo(x)) <= Cardinality(UpTo(x)')
    BY <1>1, <2>1, RankCounts, Counts
  <2> QED
    BY <1>1, <2>2, RankCounts
<1>6. ASSUME NEW x \in Lost' PROVE x \in Lost
  <2>1. /\ x \in listing.steady \ found
        /\ \/ x \in Shown' /\ Rank(x)' <= request.at
           \/ x \notin Shown' /\ request.surface = 2
    BY <1>2, <1>3, <1>6 DEF Lost
  <2>2. x \in Shown <=> x \in Shown'
    <3>1. x # a
      BY <1>1, <2>1 DEF SiteTrue
    <3> QED
      BY <1>4, <3>1
  <2>3. Rank(x)' <= request.at => Rank(x) <= request.at
    BY <1>3, <1>5
  <2> QED
    BY <2>1, <2>2, <2>3 DEF Lost
<1> QED
  BY <1>6

\* A withdrawn advert costs one more at most.
LEMMA WithdrawLost ==
    ASSUME SiteTrue, RequestTrue, NEW i \in 1..Len(site), Withdraw(i), Linked
    PROVE  Linked'
<1>1. PICK w : /\ SiteTrue' /\ ToSet(site') = ToSet(site) \ {w} /\ w \in ToSet(site)
               /\ withdrawn' = withdrawn \cup {w}
               /\ listing' = [listing EXCEPT !.steady = @ \ {w}]
               /\ \A x, y : Precedes(x, y) /\ x # w /\ y # w => Precedes(x, y)'
  BY WithdrawShows
<1>2. UNCHANGED <<pager, request, found, moved>> /\ request \in Position
  BY DEF Withdraw, MayChange, RequestTrue
<1>3. Shown' = Shown \ {w}
  BY <1>1, <1>2 DEF Shown
<1>4. listing'.steady = listing.steady \ {w}
  BY <1>1 DEF SiteTrue
<1>5. ASSUME NEW x \in Shown' PROVE Rank(x) <= Rank(x)' + 1
  <2>1. UpTo(x) \in SUBSET ((UpTo(x)') \cup {w})
    BY <1>1, <1>3, <1>5 DEF UpTo
  <2>2. UpTo(x)' \in SUBSET Advert
    BY <1>1, RankCounts
  <2>3. Cardinality(UpTo(x)) <= Cardinality(UpTo(x)') + 1
    BY <2>1, <2>2, OneMore
  <2> QED
    BY <1>1, <2>3, RankCounts
<1>6. Cardinality(Lost') \in Nat /\ Cardinality(Lost') <= Cardinality(Lost) + 1
  BY <1>1, <1>2, <1>3, <1>4, <1>5, OneMoreLost
<1>7. /\ Cardinality(withdrawn) \in Nat
      /\ Cardinality(withdrawn') = Cardinality(withdrawn) + 1
  <2>1. withdrawn \in SUBSET Advert /\ w \notin withdrawn
    BY <1>1 DEF SiteTrue
  <2>2. IsFiniteSet(withdrawn) /\ Cardinality(withdrawn) \in Nat
    BY <2>1, Counts
  <2> QED
    BY <1>1, <2>1, <2>2, FS_AddElement
<1>8. Cardinality(Lost) \in Nat /\ moved \in Nat
  BY LostListed DEF SiteTrue
<1> QED
  BY <1>2, <1>6, <1>7, <1>8 DEF Linked

\* So does an advert with another place: itself, or the one that stood at the edge.
LEMMA MoveLost ==
    ASSUME SiteTrue, RequestTrue, NEW i \in 1..Len(site), NEW j \in 1..Len(site), Move(i, j),
           Linked
    PROVE  Linked'
<1>1. PICK w : /\ SiteTrue' /\ ToSet(site') = ToSet(site)
               /\ \A x, y : Precedes(x, y) /\ x # w /\ y # w => Precedes(x, y)'
               /\ \/ \A x : Precedes(x, w) => Precedes(x, w)'
                  \/ \A x : Precedes(w, x) => Precedes(w, x)'
  BY MoveShows
<1>2. /\ UNCHANGED <<pager, request, found, withdrawn, listing>> /\ moved' = moved + 1
      /\ request \in Position
  BY DEF Move, MayChange, RequestTrue
<1>3. request.at \in Nat /\ request # None
  BY <1>2, NextRequests DEF Position
<1>4. Shown' = Shown
  BY <1>1, <1>2 DEF Shown
<1>5. Cardinality(Lost') \in Nat /\ Cardinality(Lost') <= Cardinality(Lost) + 1
  <2>1. CASE \A x : Precedes(x, w) => Precedes(x, w)'
    <3>1. ASSUME NEW x \in Shown' PROVE Rank(x) <= Rank(x)' + 1
      <4>1. UpTo(x) \in SUBSET ((UpTo(x)') \cup {w})
        BY <1>1, <1>4, <2>1 DEF UpTo
      <4>2. UpTo(x)' \in SUBSET Advert
        BY <1>1, RankCounts
      <4>3. Cardinality(UpTo(x)) <= Cardinality(UpTo(x)') + 1
        BY <4>1, <4>2, OneMore
      <4> QED
        BY <1>1, <4>3, RankCounts
    <3> QED
      BY <1>1, <1>2, <1>4, <3>1, OneMoreLost
  <2>2. CASE \A x : Precedes(w, x) => Precedes(w, x)'
    <3>1. ASSUME NEW x, x # w PROVE Rank(x) <= Rank(x)'
      <4>1. UpTo(x) \in SUBSET (UpTo(x)')
        BY <1>1, <1>4, <2>2, <3>1 DEF UpTo
      <4>2. UpTo(x)' \in SUBSET Advert
        BY <1>1, RankCounts
      <4>3. Cardinality(UpTo(x)) <= Cardinality(UpTo(x)')
        BY <4>1, <4>2, Counts
      <4> QED
        BY <1>1, <4>3, RankCounts
    <3>2. ASSUME NEW x \in Lost', x # w PROVE x \in Lost
      <4>1. /\ x \in listing.steady \ found
            /\ \/ x \in Shown /\ Rank(x)' <= request.at
               \/ x \notin Shown /\ request.surface = 2
        BY <1>2, <1>3, <1>4, <3>2 DEF Lost
      <4>2. Rank(x) \in Nat /\ Rank(x)' \in Nat /\ Rank(x) <= Rank(x)'
        BY <1>1, <3>1, <3>2, RankCounts
      <4>3. Rank(x)' <= request.at => Rank(x) <= request.at
        BY <1>3, <4>2
      <4> QED
        BY <4>1, <4>3 DEF Lost
    <3>3. Lost' \in SUBSET (Lost \cup {w})
      BY <3>2
    <3> QED
      BY <3>3, OneMore, LostListed
  <2> QED
    BY <1>1, <2>1, <2>2
<1>6. Cardinality(Lost) \in Nat /\ moved \in Nat /\ Cardinality(withdrawn) \in Nat
  <2>1. withdrawn \in SUBSET Advert
    BY DEF SiteTrue
  <2> QED
    BY <2>1, LostListed, Counts DEF SiteTrue
<1> QED
  BY <1>2, <1>5, <1>6 DEF Linked

\* The sections that were left stay paid for.
LEMMA LeftStays ==
    ASSUME SiteTrue, SiteTrue', SectionsLeft, UNCHANGED <<request, found>>,
           listing'.steady \subseteq listing.steady, Replaced \subseteq Replaced'
    PROVE  SectionsLeft' /\ \A s \in 1..2 : PaidFor(s) => PaidFor(s)'
<1>1. \A s \in 1..2 : Missing(s)' \subseteq Missing(s)
  BY DEF Missing, Part
<1>2. \A s \in 1..2 : PaidFor(s) => PaidFor(s)'
  BY <1>1, PaidStays
<1> QED
  BY <1>2 DEF SectionsLeft

\* What a counting pager knows is about what is listed, in whatever order.
LEMMA CountsStay ==
    ASSUME SiteTrue, SiteTrue', CountsTrue,
           ToSet(site') = ToSet(site), Len(site') = Len(site), listing'.steady = listing.steady,
           UNCHANGED <<published, withdrawn, pager, request, found, prior, total>>
    PROVE  CountsTrue'
<1>1. Known' = Known /\ Replaced' = Replaced /\ Part(1)' = Part(1) /\ Part(2)' = Part(2)
  BY DEF Known, Replaced, Part
<1>2. \A s : Base(s)' = Base(s)
  BY <1>1 DEF Base, Part
<1>3. \A s : PaidFor(s)' <=> PaidFor(s)
  BY <1>1 DEF PaidFor, Missing, Gone, Part
<1>4. SectionsLeft' <=> SectionsLeft
  BY <1>3 DEF SectionsLeft
<1>5. site' = <<>> <=> site = <<>>
  BY DEF SiteTrue
<1>6. pager \in OneTotal => Counted'
  BY <1>1, <1>5 DEF CountsTrue, Counted
<1>7. pager = "SEEN" => SeenSoFar'
  BY <1>1, <1>2, <1>4 DEF CountsTrue, SeenSoFar, Part
<1>8. pager = "COURTS" => Summed'
  BY <1>1, <1>3 DEF CountsTrue, Summed, TotalMatches
<1>9. pager = "FILTER" => Filtered'
  BY <1>1 DEF CountsTrue, Filtered
<1>10. OneTotal' = OneTotal
  BY DEF OneTotal
<1> QED
  BY <1>4, <1>6, <1>7, <1>8, <1>9, <1>10 DEF CountsTrue

\* A new advert leaves what is known of the listing true.
LEMMA PublishKeeps ==
    ASSUME ListingInv, NEW a \in Advert, NEW i \in 1..(Len(site) + 1), PublishAdvert(a, i)
    PROVE  ListingInv'
<1>1. SiteTrue /\ RequestTrue /\ CountsTrue /\ (pager \in ByLink => Linked)
  BY DEF ListingInv, PagerTrue
<1>2. SiteTrue' /\ ToSet(site') = ToSet(site) \cup {a} /\ a \notin Known
  BY <1>1, PublishShows DEF PublishAdvert, Known
<1>3. /\ UNCHANGED <<withdrawn, moved, pager, request, found, prior, total, listing>>
      /\ published' = published \cup {a} /\ request # None /\ listing.status = "READING"
  BY DEF PublishAdvert, MayChange, Reading
<1>4. RequestTrue'
  BY <1>1, <1>3 DEF RequestTrue
<1>5. Known' = Known \cup {a} /\ Replaced \subseteq Replaced'
  BY <1>2, <1>3 DEF Known, Replaced
<1>6. \A s : Base(s)' = Base(s)
  BY <1>2, <1>3, <1>5 DEF Base, Part
<1>7. /\ \A s \in 1..2 : PaidFor(s) => PaidFor(s)'
      /\ SectionsLeft => SectionsLeft'
  <2>1. ASSUME NEW s \in 1..2, PaidFor(s) PROVE PaidFor(s)'
    <3>1. Missing(s)' \subseteq Missing(s)
      BY <1>3 DEF Missing, Part
    <3> QED
      BY <1>1, <1>2, <1>5, <2>1, <3>1, PaidStays
  <2> QED
    BY <1>3, <2>1 DEF SectionsLeft
<1>8. pager \in OneTotal => Counted'
  BY <1>1, <1>3, <1>5 DEF CountsTrue, Counted
<1>9. pager \in ByLink => Linked'
  <2>1. Lost' \in SUBSET Lost /\ Lost \in SUBSET Advert
    BY <1>1, PublishLost, LostListed
  <2>2. Cardinality(Lost') <= Cardinality(Lost) /\ Cardinality(Lost') \in Nat
    BY <2>1, Counts
  <2>3. Cardinality(Lost) \in Nat /\ Cardinality(withdrawn) \in Nat /\ moved \in Nat
    BY <1>1, LostListed, Counts DEF SiteTrue
  <2> QED
    BY <1>1, <1>3, <2>2, <2>3 DEF Linked
<1>10. pager = "SEEN" => SeenSoFar'
  BY <1>1, <1>3, <1>5, <1>6, <1>7 DEF CountsTrue, SeenSoFar, Part
<1>11. pager = "COURTS" => Summed'
  <2> SUFFICES ASSUME Summed PROVE Summed'
    BY <1>1 DEF CountsTrue
  <2>1. found \subseteq Known' \cap Part(1)'
    BY <1>3, <1>5 DEF Summed, Part
  <2> QED
    BY <1>3, <1>7, <2>1 DEF Summed
<1>12. pager = "FILTER" => Filtered'
  BY <1>1, <1>3, <1>5 DEF CountsTrue, Filtered, Part
<1>13. pager = "SURFACES" => SectionsLeft'
  BY <1>1, <1>7 DEF CountsTrue
<1>14. OneTotal' = OneTotal /\ ByLink' = ByLink
  BY DEF OneTotal, ByLink
<1> QED
  BY <1>2, <1>3, <1>4, <1>8, <1>9, <1>10, <1>11, <1>12, <1>13, <1>14
     DEF ListingInv, PagerTrue, CountsTrue

\* So does a withdrawn one.
LEMMA WithdrawKeeps ==
    ASSUME ListingInv, NEW i \in 1..Len(site), Withdraw(i)
    PROVE  ListingInv'
<1>1. SiteTrue /\ RequestTrue /\ CountsTrue /\ (pager \in ByLink => Linked)
  BY DEF ListingInv, PagerTrue
<1>2. /\ SiteTrue' /\ ToSet(site') = ToSet(site) \ {site[i]}
      /\ site[i] \in ToSet(site) /\ withdrawn' = withdrawn \cup {site[i]}
      /\ listing' = [listing EXCEPT !.steady = @ \ {site[i]}]
  BY <1>1, WithdrawShows
<1>3. /\ UNCHANGED <<published, moved, pager, request, found, prior, total>>
      /\ request # None /\ listing.status = "READING"
  BY DEF Withdraw, MayChange, Reading
<1>4. listing'.status = "READING" /\ listing'.steady \subseteq listing.steady
  BY <1>1, <1>2, <1>3 DEF SiteTrue
<1>5. RequestTrue'
  BY <1>1, <1>3, <1>4 DEF RequestTrue
<1>6. Known' = Known /\ Replaced \subseteq Replaced' /\ \A s : Base(s)' = Base(s)
  BY <1>2, <1>3 DEF Known, Replaced, Base, Part
<1>7. /\ \A s \in 1..2 : PaidFor(s) => PaidFor(s)'
      /\ SectionsLeft => SectionsLeft'
  <2>1. ASSUME NEW s \in 1..2, PaidFor(s) PROVE PaidFor(s)'
    <3>1. Missing(s)' \subseteq Missing(s)
      BY <1>3, <1>4 DEF Missing, Part
    <3> QED
      BY <1>1, <1>2, <1>6, <2>1, <3>1, PaidStays
  <2> QED
    BY <1>3, <2>1 DEF SectionsLeft
<1>8. pager \in OneTotal => Counted'
  BY <1>1, <1>3, <1>6 DEF CountsTrue, Counted
<1>9. pager \in ByLink => Linked'
  BY <1>1, WithdrawLost
<1>10. pager = "SEEN" => SeenSoFar'
  <2> SUFFICES ASSUME SeenSoFar PROVE SeenSoFar'
    BY <1>1 DEF CountsTrue
  <2> DEFINE base == Base(request.surface)
             gone == base \cap withdrawn
             later == base \cap withdrawn'
  <2>1. later \in SUBSET Advert /\ gone \in SUBSET later
    BY <1>2 DEF Base, Part
  <2>2. /\ Cardinality(gone) <= Cardinality(later) /\ Cardinality(gone) \in Nat
        /\ Cardinality(later) \in Nat
    BY <2>1, Counts
  <2>3. base \in SUBSET Advert /\ Cardinality(base) \in Nat
    <3>1. base \in SUBSET Advert
      BY DEF Base, Part
    <3> QED
      BY <3>1, Counts
  <2>4. prior.total # None => /\ prior.total \in Nat
                              /\ Cardinality(base) <= prior.total + Cardinality(gone)
    BY <1>1, <1>3 DEF SeenSoFar, RequestTrue
  <2>5. prior.total # None => Cardinality(base) <= prior.total + Cardinality(later)
    BY <2>2, <2>3, <2>4
  <2>6. Base(request.surface)' = base
    BY <1>3, <1>6
  <2>7. prior.ids \subseteq Known' \cap Part(request.surface)'
    BY <1>3, <1>6 DEF SeenSoFar, Part
  <2> QED
    BY <1>3, <1>7, <2>5, <2>6, <2>7 DEF SeenSoFar
<1>11. pager = "COURTS" => Summed'
  <2> SUFFICES ASSUME Summed PROVE Summed'
    BY <1>1 DEF CountsTrue
  <2>1. found \subseteq Known' \cap Part(1)'
    BY <1>3, <1>6 DEF Summed, Part
  <2> QED
    BY <1>3, <1>7, <2>1 DEF Summed
<1>12. pager = "FILTER" => Filtered'
  <2> SUFFICES ASSUME Filtered PROVE Filtered'
    BY <1>1 DEF CountsTrue
  <2> DEFINE own == (listing.steady \cap Part(1)) \ prior.kept
  <2>1. own' \in SUBSET own /\ own \in SUBSET Advert
    BY <1>3, <1>4 DEF Part
  <2>2. Cardinality(own') <= Cardinality(own) /\ Cardinality(own') \in Nat /\ Cardinality(own) \in Nat
    BY <2>1, Counts
  <2>3. withdrawn \in SUBSET (withdrawn') /\ withdrawn' \in SUBSET Advert
    BY <1>2 DEF SiteTrue
  <2>4. /\ Cardinality(withdrawn) <= Cardinality(withdrawn')
        /\ Cardinality(withdrawn) \in Nat /\ Cardinality(withdrawn') \in Nat
    BY <2>3, Counts
  <2>5. Cardinality(own) <= Cardinality(withdrawn) => Cardinality(own') <= Cardinality(withdrawn')
    BY <2>2, <2>4
  <2>6. /\ request.surface = 2 => prior.ids \subseteq Part(2)
        /\ request.surface = 2 => prior.kept \subseteq Known
        /\ request.surface = 2 => Cardinality(own) <= Cardinality(withdrawn)
        /\ found = {} /\ prior.ids \subseteq Known
    BY <1>3 DEF Filtered
  <2>7. /\ request'.surface = 2 => prior'.ids \subseteq Part(2)'
        /\ request'.surface = 2 => prior'.kept \subseteq Known'
        /\ request'.surface = 2 => Cardinality(own') <= Cardinality(withdrawn')
        /\ found' = {} /\ prior'.ids \subseteq Known'
    BY <1>3, <1>6, <2>5, <2>6 DEF Part
  <2> QED
    BY <1>3, <2>7 DEF Filtered
<1>13. pager = "SURFACES" => SectionsLeft'
  BY <1>1, <1>7 DEF CountsTrue
<1>14. OneTotal' = OneTotal /\ ByLink' = ByLink
  BY DEF OneTotal, ByLink
<1> QED
  BY <1>2, <1>3, <1>5, <1>8, <1>9, <1>10, <1>11, <1>12, <1>13, <1>14
     DEF ListingInv, PagerTrue, CountsTrue

\* So does one with another place.
LEMMA MoveKeeps ==
    ASSUME ListingInv, NEW i \in 1..Len(site), NEW j \in 1..Len(site), Move(i, j)
    PROVE  ListingInv'
<1>1. SiteTrue /\ RequestTrue /\ CountsTrue /\ (pager \in ByLink => Linked)
  BY DEF ListingInv, PagerTrue
<1>2. SiteTrue' /\ ToSet(site') = ToSet(site) /\ Len(site') = Len(site)
  BY <1>1, MoveShows
<1>3. UNCHANGED <<published, withdrawn, pager, request, found, prior, total, listing>>
  BY DEF Move
<1>4. RequestTrue'
  BY <1>1, <1>3 DEF RequestTrue, TotalMatches
<1>5. CountsTrue'
  BY <1>1, <1>2, <1>3, CountsStay
<1>6. pager' \in ByLink => Linked'
  BY <1>1, <1>3, MoveLost DEF ByLink
<1> QED
  BY <1>2, <1>4, <1>5, <1>6 DEF ListingInv, PagerTrue

\* What a page shows is on its surface, and the total it tells is that of the surface.
LEMMA PageShows ==
    ASSUME SiteTrue, request \in Position
    PROVE  /\ Entries \subseteq Shown /\ Shown \subseteq Advert /\ Shown \subseteq ToSet(site)
           /\ Cardinality(Shown) \in Nat /\ Cardinality(Entries) \in Nat
           /\ \A page \in Pages :
                  /\ page.total \in {None, Cardinality(Shown)}
                  /\ page.total = None => pager \in {"LEGACY", "LEGACIES", "OPEN", "SEEN", "FEED"}
                  /\ page.more <=> request.at + PageSize < Cardinality(Shown)
<1>1. Shown \in SUBSET Advert /\ Shown \subseteq ToSet(site)
  BY ShownListed
<1>2. Entries \in SUBSET Shown
  BY DEF Entries
<1>3. Cardinality(Shown) \in Nat /\ Cardinality(Entries) \in Nat
  BY <1>1, <1>2, Counts
<1>4. Cardinality(Shown) # None
  BY <1>3, DiscoveryAssumption
<1>5. \A page \in Pages :
          /\ page.total \in {None, Cardinality(Shown)}
          /\ page.total = None => pager \in {"LEGACY", "LEGACIES", "OPEN", "SEEN", "FEED"}
          /\ page.more <=> request.at + PageSize < Cardinality(Shown)
  BY <1>4 DEF Pages, Totals
<1> QED
  BY <1>1, <1>2, <1>3, <1>5

\* What the pager makes of a page: adverts of the site, and a request or none.
Typed(turn) == turn.entries \subseteq Advert /\ (turn.next = None \/ turn.next \in Position)

\* A counting pager ends the listing with the total of the site, or with the page that is the site.
CountedTurn(turn) ==
    /\ turn.entries \subseteq ToSet(site)
    /\ turn.next = None \/ turn.next \in Position
    /\ turn.next = None => turn.reported = Len(site) \/ pager = "FEED"
    /\ pager = "FEED" => turn.next = None /\ turn.entries = ToSet(site)

LEMMA CountedTurns ==
    ASSUME SiteTrue, pager \in OneTotal, request \in Position, NEW page \in Pages,
           Parsed(page) # Refused
    PROVE  CountedTurn(Parsed(page))
<1> DEFINE whole == Len(site)
           len == Cardinality(Entries)
<1>1. Shown = ToSet(site) /\ Cardinality(Shown) = whole
  <2>1. Shown = ToSet(site)
    BY DEF Shown, OneTotal
  <2> QED
    BY <2>1, SiteCounted
<1>2. whole \in Nat /\ len \in Nat /\ whole # None
  BY <1>1, PageShows, DiscoveryAssumption
<1>3. /\ Entries \subseteq ToSet(site) /\ page.total \in {None, whole}
      /\ pager \notin {"OPEN", "FEED"} => page.total = whole
  <2>1. pager \notin {"LEGACY", "LEGACIES", "SEEN"}
    BY DEF OneTotal, OneSurface, ByLink
  <2> QED
    BY <1>1, <2>1, PageShows
<1>4. NextPage \in Position /\ None \notin Position /\ None \notin Nat
  BY NextRequests, DiscoveryAssumption
<1>5. request.at + len \in Nat
  BY <1>2 DEF Position
<1>6. ASSUME NEW entries \in {Entries, {}}, NEW next \in Position, NEW reported
      PROVE  pager # "FEED" => CountedTurn(Turn(entries, next, reported))
  BY <1>3, <1>4 DEF CountedTurn, Turn
<1>7. ASSUME NEW next \in Position \cup {None}
      PROVE  pager # "FEED" => CountedTurn(Turn(Entries, next, whole))
  BY <1>3, <1>4 DEF CountedTurn, Turn
<1>8. Ask(1, request.at + len) \in Position
  BY <1>5, NextRequests
<1>9. pager # "FEED" /\ RangePage(page, None, page.total) # Refused =>
          CountedTurn(RangePage(page, None, page.total))
  <2>1. request.at + len # None
    BY <1>4, <1>5
  <2>2. CASE request.at + len = page.total
    BY <1>3, <1>7, <2>1, <2>2 DEF RangePage
  <2>3. CASE request.at + len # page.total
    BY <1>4, <1>6, <2>3 DEF RangePage
  <2> QED
    BY <2>2, <2>3
<1> HIDE DEF whole
<1>10. CASE pager = "OFFSET"
  <2>1. page.total = whole /\ Parsed(page) = OffsetPage(page)
    BY <1>3, <1>10 DEF Parsed
  <2> QED
    BY <1>7, <1>8, <1>10, <2>1 DEF OffsetPage
<1>11. CASE pager = "RANGE"
  <2>1. Parsed(page) = RangePage(page, None, page.total)
    BY <1>11 DEF Parsed
  <2> QED
    BY <1>9, <1>11, <2>1
<1>12. CASE pager = "OPEN"
  <2>1. Parsed(page) = RangePage(page, None, page.total)
    BY <1>12 DEF Parsed, OpenPage
  <2> QED
    BY <1>9, <1>12, <2>1
<1>13. CASE pager = "FEED"
  <2>1. Parsed(page) = Turn(Entries, None, page.total) /\ Entries = Shown
    BY <1>13 DEF Parsed, FeedPage, Entries, Whole
  <2> QED
    BY <1>1, <1>13, <2>1 DEF CountedTurn, Turn
<1>14. CASE pager = "INDEX"
  <2>1. page.total = whole /\ Parsed(page) = IndexPage(page)
    BY <1>3, <1>14 DEF Parsed
  <2>2. CASE request.surface = 1
    BY <1>6, <1>14, <2>1, <2>2, NextRequests DEF IndexPage
  <2>3. CASE request.surface # 1
    BY <1>4, <1>7, <1>14, <2>1, <2>3 DEF IndexPage
  <2> QED
    BY <2>2, <2>3
<1> QED
  BY <1>10, <1>11, <1>12, <1>13, <1>14 DEF OneTotal, OneSurface, ByLink

\* A pager by links leaves its surface when nothing on it is of a higher rank than what it has read.
LinkedTurn(turn) ==
    /\ turn.entries = Entries
    /\ \/ turn.next = NextPage
       \/ /\ turn.next = None \/ turn.next = NextSurface
          /\ pager \in OneSurface \/ turn.next = NextSurface
          /\ \A a \in Shown : Rank(a) > request.at => a \in Entries

LEMMA LinkedTurns ==
    ASSUME SiteTrue, pager \in ByLink, request \in Position, NEW page \in Pages,
           Parsed(page) # Refused
    PROVE  LinkedTurn(Parsed(page))
<1>1. ASSUME ~page.more PROVE \A a \in Shown : Rank(a) > request.at => a \in Entries
  <2>1. ~(request.at + PageSize < Cardinality(Shown)) /\ Cardinality(Shown) \in Nat
    BY <1>1, PageShows
  <2>2. \A a \in Shown : Rank(a) \in 1..Cardinality(Shown)
    BY Ranks
  <2>3. request.at \in Nat /\ PageSize \in Nat
    BY DiscoveryAssumption DEF Position
  <2>4. \A a \in Shown : Rank(a) > request.at =>
            Rank(a) \in (request.at + 1)..(request.at + PageSize)
    BY <2>1, <2>2, <2>3
  <2> QED
    BY <2>4 DEF Entries
<1>2. PICK after, reported :
          /\ Parsed(page) = LinkPage(page, after, reported)
          /\ (after = None /\ pager \in OneSurface) \/ after = NextSurface
  <2>1. CASE pager = "LINK"
    BY <2>1 DEF Parsed, OneSurface
  <2>2. CASE pager = "LEGACY"
    BY <2>2 DEF Parsed, OneSurface
  <2>3. CASE pager = "LEGACIES"
    BY <2>3 DEF Parsed
  <2> QED
    BY <2>1, <2>2, <2>3 DEF ByLink
<1> QED
  BY <1>1, <1>2 DEF LinkPage, LinkedTurn, Turn

\* The pager by number leaves its surface when it has seen as many adverts as it knows of.
SeenTurn(page, turn) ==
    /\ turn.entries = Entries /\ KnownTotal(page) # None
    /\ \/ turn.next = NextPage
       \/ turn.next = NextSurface /\ Cardinality(SeenIds) = KnownTotal(page)

LEMMA SeenTurns ==
    ASSUME pager = "SEEN", NEW page \in Pages, Parsed(page) # Refused
    PROVE  SeenTurn(page, Parsed(page))
<1>1. Parsed(page) = SeenPage(page)
  BY DEF Parsed
<1> QED
  BY <1>1 DEF SeenPage, SeenTurn, Turn

\* The pager that proves the sum leaves the first section with its total, and reads the second whole.
SummedTurn(page, turn) ==
    /\ turn.entries = Entries /\ page.total = Cardinality(Shown)
    /\ \/ request.surface = 1 /\ turn.next = NextPage /\ turn.reported = None
       \/ /\ request.surface = 1 /\ turn.next = NextSurface /\ turn.reported = None
          /\ request.at + Cardinality(Entries) = page.total
       \/ /\ request.surface = 2 /\ turn.next = None /\ Entries = Shown
          /\ turn.reported = prior.total + page.total

LEMMA SummedTurns ==
    ASSUME SiteTrue, pager = "COURTS", request \in Position, NEW page \in Pages,
           Parsed(page) # Refused
    PROVE  SummedTurn(page, Parsed(page))
<1>1. Parsed(page) = CourtsPage(page) /\ page.total = Cardinality(Shown)
  BY PageShows DEF Parsed
<1>2. CASE request.surface = 1
  <2>1. CourtsPage(page) = RangePage(page, NextSurface, None)
    BY <1>2 DEF CourtsPage
  <2> QED
    BY <1>1, <1>2, <2>1 DEF RangePage, SummedTurn, Turn
<1>3. CASE request.surface # 1
  <2>1. request.surface = 2 /\ Entries = Shown
    BY <1>3, NextRequests DEF Entries, Whole
  <2> QED
    BY <1>1, <1>3, <2>1 DEF CourtsPage, SummedTurn, Turn
<1> QED
  BY <1>2, <1>3

\* The pager that takes adverts out tells nothing before it has seen all of both surfaces.
FilteredTurn(turn) ==
    \/ turn.entries = {} /\ turn.next = NextPage
    \/ /\ Cardinality(SeenIds) = Cardinality(Shown)
       /\ \/ request.surface = 1 /\ turn.entries = {} /\ turn.next = NextSurface
          \/ /\ request.surface = 2 /\ SeenIds \subseteq prior.kept
             /\ turn.entries = prior.kept \ SeenIds /\ turn.next = None

LEMMA FilteredTurns ==
    ASSUME SiteTrue, RequestTrue, pager = "FILTER", request \in Position,
           NEW page \in Pages, Parsed(page) # Refused
    PROVE  FilteredTurn(Parsed(page))
<1>1. Parsed(page) = FilterPage(page) /\ page.total = Cardinality(Shown) /\ Cardinality(Shown) \in Nat
  BY PageShows DEF Parsed
<1>2. Cardinality(SeenIds) \in Nat
  <2>1. SeenIds \in SUBSET Advert
    BY PageShows DEF SeenIds, RequestTrue
  <2> QED
    BY <2>1, Counts
<1>3. request.surface \in 1..2
  BY DEF Position
<1>4. CASE Cardinality(SeenIds) < Cardinality(Shown)
  BY <1>1, <1>4 DEF FilterPage, FilteredTurn, Turn
<1>5. CASE Cardinality(SeenIds) = Cardinality(Shown)
  <2>1. CASE request.surface = 1
    <3>1. Parsed(page) = Turn({}, NextSurface, None)
      BY <1>1, <1>2, <1>5, <2>1 DEF FilterPage
    <3> QED
      BY <1>5, <2>1, <3>1 DEF FilteredTurn, Turn
  <2>2. CASE request.surface = 2
    <3>1. /\ SeenIds \subseteq prior.kept
          /\ \E reported : Parsed(page) = Turn(prior.kept \ SeenIds, None, reported)
      BY <1>1, <1>2, <1>5, <2>2 DEF FilterPage
    <3> QED
      BY <1>5, <2>2, <3>1 DEF FilteredTurn, Turn
  <2> QED
    BY <1>3, <2>1, <2>2
<1>6. CASE Cardinality(SeenIds) > Cardinality(Shown)
  BY <1>1, <1>6 DEF FilterPage
<1> QED
  BY <1>1, <1>2, <1>4, <1>5, <1>6

\* What the next request carries.
LEMMA Contexts ==
    ASSUME SiteTrue, RequestTrue, request \in Position, NEW page \in Pages,
           NEW next \in Position \cup {None}
    PROVE  /\ NextContext(page, next) \in
                  [total : Nat \cup {None}, ids : SUBSET Advert, kept : SUBSET Advert]
           /\ next = None => NextContext(page, next) = NoContext
           /\ pager \in {"SEEN", "FILTER"} /\ next = NextPage =>
                  /\ NextContext(page, next).ids = SeenIds
                  /\ NextContext(page, next).kept = prior.kept
                  /\ NextContext(page, next).total = KnownTotal(page)
           /\ pager \in {"SEEN", "FILTER"} /\ request.surface = 1 /\ next = NextSurface =>
                  /\ NextContext(page, next).ids = {} /\ NextContext(page, next).kept = SeenIds
                  /\ NextContext(page, next).total = None
           /\ pager = "COURTS" /\ request.surface = 1 /\ next = NextSurface =>
                  NextContext(page, next).total = page.total
<1> DEFINE Carried == [total : Nat \cup {None}, ids : SUBSET Advert, kept : SUBSET Advert]
           onward == [prior EXCEPT !.total = KnownTotal(page), !.ids = SeenIds]
           turned == [total |-> IF pager = "COURTS" THEN page.total ELSE None, ids |-> {},
                      kept |-> SeenIds]
<1>1. SeenIds \in SUBSET Advert /\ page.total \in Nat \cup {None}
  BY PageShows DEF SeenIds, RequestTrue
<1>2. prior \in Carried
  BY DEF RequestTrue
<1>3. NoContext \in Carried
  BY DEF NoContext
<1>4. KnownTotal(page) \in Nat \cup {None}
  BY <1>1, <1>2 DEF KnownTotal
<1>5. /\ onward \in Carried /\ onward.ids = SeenIds /\ onward.kept = prior.kept
      /\ onward.total = KnownTotal(page)
  BY <1>1, <1>2, <1>4
<1>6. /\ turned \in Carried /\ turned.ids = {} /\ turned.kept = SeenIds
      /\ turned.total = IF pager = "COURTS" THEN page.total ELSE None
  BY <1>1
<1>7. \/ /\ NextContext(page, next) = NoContext
         /\ pager \notin {"RANGE", "OPEN", "COURTS", "SEEN", "FILTER", "INDEX"} \/ next = None
      \/ next # None /\ pager = "INDEX" /\ NextContext(page, next) = prior
      \/ next # None /\ next.surface = request.surface /\ NextContext(page, next) = onward
      \/ next # None /\ next.surface # request.surface /\ NextContext(page, next) = turned
  BY DEF NextContext
<1>8. next = None => NextContext(page, next) = NoContext
  BY DEF NextContext
<1>9. next = NextPage => next # None /\ next.surface = request.surface
  BY NextRequests
<1>10. request.surface = 1 /\ next = NextSurface => next # None /\ next.surface # request.surface
  BY NextRequests
<1> HIDE DEF Carried, onward, turned
<1>11. NextContext(page, next) \in Carried
  BY <1>2, <1>3, <1>5, <1>6, <1>7
<1>12. pager \in {"SEEN", "FILTER"} /\ next = NextPage => NextContext(page, next) = onward
  BY <1>7, <1>9
<1>13. /\ pager \in {"SEEN", "FILTER", "COURTS"} /\ request.surface = 1 /\ next = NextSurface
       => NextContext(page, next) = turned
  BY <1>7, <1>10
<1> QED
  BY <1>5, <1>6, <1>8, <1>11, <1>12, <1>13 DEF Carried

\* What a page that is not refused leaves.
Taken(page, turn) ==
    /\ found' = found \cup turn.entries
    /\ total' = IF turn.reported \in {None, 0} THEN total ELSE turn.reported
    /\ prior' = NextContext(page, turn.next) /\ request' = turn.next
    /\ UNCHANGED <<listing, site, published, withdrawn, moved, pager>>

\* A page leaves the sections that were left paid for, and what is known the same.
LEMMA TakenKeeps ==
    ASSUME SiteTrue, NEW page, NEW turn, Taken(page, turn)
    PROVE  /\ SiteTrue' /\ Known' = Known /\ Replaced' = Replaced
           /\ \A s \in 1..2 : PaidFor(s) => PaidFor(s)'
           /\ \A s : Base(s)' = Base(s) /\ Gone(s)' = Gone(s) /\ Part(s)' = Part(s)
<1>1. UNCHANGED <<listing, site, published, withdrawn, moved, pager>> /\ found \subseteq found'
  BY DEF Taken
<1>2. SiteTrue'
  BY <1>1 DEF SiteTrue
<1>3. Known' = Known /\ Replaced' = Replaced
  BY <1>1 DEF Known, Replaced
<1>4. \A s : Base(s)' = Base(s) /\ Gone(s)' = Gone(s) /\ Part(s)' = Part(s)
  BY <1>1, <1>3 DEF Base, Gone, Part
<1>5. \A s \in 1..2 : PaidFor(s) => PaidFor(s)'
  <2>1. \A s \in 1..2 : Missing(s)' \subseteq Missing(s)
    BY <1>1 DEF Missing, Part
  <2> QED
    BY <1>2, <1>3, <2>1, PaidStays
<1> QED
  BY <1>2, <1>3, <1>4, <1>5

\* A page adds adverts of the site, and the last one leaves its total, or the site itself.
LEMMA CountedRead ==
    ASSUME SiteTrue, Counted, pager \in OneTotal, request \in Position, NEW page, NEW turn,
           CountedTurn(turn), Taken(page, turn)
    PROVE  Counted'
<1>1. Known' = Known /\ found' \subseteq Known'
  BY TakenKeeps DEF Taken, Counted, CountedTurn, Known
<1>2. request' = turn.next /\ site' = site /\ pager' = pager /\ request # None
  BY NextRequests DEF Taken
<1>3. ASSUME turn.next = None, turn.reported = Len(site) PROVE site = <<>> \/ total' = Len(site)
  <2>1. Len(site) \in Nat
    BY DEF SiteTrue
  <2>2. Len(site) = 0 => site = <<>>
    BY DEF SiteTrue
  <2> QED
    BY <1>3, <2>1, <2>2, DiscoveryAssumption DEF Taken
<1>4. ASSUME pager = "FEED" PROVE found' = ToSet(site) /\ turn.next = None
  BY <1>2, <1>4 DEF Counted, CountedTurn, Taken
<1>5. turn.next = None => turn.reported = Len(site) \/ pager = "FEED"
  BY DEF CountedTurn
<1> QED
  BY <1>1, <1>2, <1>3, <1>4, <1>5 DEF Counted

\* What a page read by links leaves behind was behind before.
LEMMA LinkedRead ==
    ASSUME SiteTrue, Linked, pager \in ByLink, request \in Position, NEW page, NEW turn,
           LinkedTurn(turn), Taken(page, turn)
    PROVE  Linked'
<1>1. request.at \in Nat /\ PageSize \in Nat /\ request # None /\ request.surface \in 1..2
  BY DiscoveryAssumption, NextRequests DEF Position
<1>2. /\ found' = found \cup Entries /\ request' = turn.next
      /\ UNCHANGED <<listing, site, withdrawn, moved, pager>>
  BY DEF Taken, LinkedTurn
<1>3. \A a \in Shown : Rank(a) \in Nat /\ Rank(a) >= 1
  <2>1. Cardinality(Shown) \in Nat
    BY PageShows
  <2> QED
    BY <2>1, Ranks
<1>4. listing.steady \subseteq ToSet(site) /\ ToSet(site) \subseteq Advert
  BY ShownListed DEF SiteTrue
<1>5. ASSUME NEW a \in ToSet(site), a \notin Shown
      PROVE  pager \notin OneSurface /\ Section[a] \in 1..2 /\ Section[a] # request.surface
  BY <1>4, <1>5, DiscoveryAssumption DEF Shown
<1>6. ASSUME NEW a \in listing.steady \ found', a \in Shown, ~(Rank(a) <= request.at)
      PROVE  turn.next = NextPage /\ Rank(a) > request.at + PageSize
  <2>1. a \notin Entries /\ Rank(a) > request.at
    BY <1>1, <1>2, <1>3, <1>6
  <2>2. turn.next = NextPage
    BY <1>6, <2>1 DEF LinkedTurn
  <2>3. Rank(a) \notin (request.at + 1)..(request.at + PageSize)
    BY <1>6, <2>1 DEF Entries
  <2> QED
    BY <1>1, <1>3, <1>6, <2>1, <2>2, <2>3
<1>7. ASSUME NEW a \in Lost' PROVE a \in Lost
  <2>1. a \in listing.steady \ found' /\ a \in listing.steady \ found /\ a \in ToSet(site)
    BY <1>2, <1>4, <1>7 DEF Lost
  <2>2. CASE a \notin Shown
    <3>1. pager \notin OneSurface /\ Section[a] \in 1..2 /\ Section[a] # request.surface
      BY <1>5, <2>1, <2>2
    <3>2. CASE request.surface = 2
      BY <2>1, <2>2, <3>2 DEF Lost
    <3>3. CASE request.surface = 1 /\ turn.next = NextPage
      <4>1. request' # None /\ request'.surface = 1
        BY <1>2, <3>3, NextRequests
      <4>2. a \notin Shown'
        BY <1>2, <2>1, <2>2, <3>3, <4>1 DEF Shown
      <4> QED
        BY <1>7, <4>1, <4>2 DEF Lost
    <3>4. CASE request.surface = 1 /\ turn.next # NextPage
      <4>1. turn.next = NextSurface
        BY <3>1, <3>4 DEF LinkedTurn
      <4>2. request' # None /\ request'.surface = 2 /\ request'.at = 0
        BY <1>2, <3>4, <4>1, NextRequests
      <4>3. Section[a] = 2
        BY <3>1, <3>4
      <4>4. a \in Shown'
        BY <1>2, <2>1, <4>2, <4>3 DEF Shown
      <4>5. Rank(a)' <= 0
        BY <1>7, <4>2, <4>4 DEF Lost
      <4>6. Rank(a)' >= 1
        <5>1. Precedes(a, a)'
          <6>1. PICK i \in 1..Len(site) : site[i] = a
            BY <2>1, InSite DEF SiteTrue
          <6>2. i \in 1..i
            OBVIOUS
          <6> QED
            BY <1>2, <6>1, <6>2 DEF Precedes
        <5>2. a \in UpTo(a)' /\ SiteTrue'
          BY <4>4, <5>1, TakenKeeps DEF UpTo
        <5>3. UpTo(a)' \in SUBSET Advert /\ Rank(a)' = Cardinality(UpTo(a)')
          BY <5>2, RankCounts
        <5>4. IsFiniteSet(UpTo(a)') /\ Cardinality(UpTo(a)') \in Nat
          BY <5>3, Counts
        <5>5. Cardinality(UpTo(a)') # 0
          BY <5>2, <5>4, FS_EmptySet
        <5> QED
          BY <5>3, <5>4, <5>5
      <4>7. Rank(a)' \in Nat
        BY TakenKeeps, RankCounts
      <4> QED
        BY <4>5, <4>6, <4>7
    <3> QED
      BY <1>1, <3>2, <3>3, <3>4
  <2>3. CASE a \in Shown
    <3>1. CASE Rank(a) <= request.at
      BY <2>1, <2>3, <3>1 DEF Lost
    <3>2. CASE ~(Rank(a) <= request.at)
      <4>1. turn.next = NextPage /\ Rank(a) > request.at + PageSize
        BY <1>6, <2>1, <2>3, <3>2
      <4>2. /\ request' # None /\ request'.surface = request.surface
            /\ request'.at = request.at + PageSize
        BY <1>2, <4>1, NextRequests
      <4>3. Shown' = Shown
        BY <1>2, <4>2 DEF Shown
      <4>4. Rank(a)' = Rank(a)
        BY <1>2, <4>3 DEF Rank, Precedes
      <4>5. Rank(a) <= request.at + PageSize
        BY <1>7, <2>3, <4>2, <4>3, <4>4 DEF Lost
      <4> QED
        BY <1>1, <1>3, <2>3, <4>1, <4>5
    <3> QED
      BY <3>1, <3>2
  <2> QED
    BY <2>2, <2>3
<1>8. Cardinality(Lost') <= Cardinality(Lost) /\ Cardinality(Lost') \in Nat
  <2>1. Lost' \in SUBSET Lost /\ Lost \in SUBSET Advert
    BY <1>7, LostListed
  <2> QED
    BY <2>1, Counts
<1>9. Cardinality(Lost) \in Nat /\ Cardinality(withdrawn) \in Nat /\ moved \in Nat
  BY LostListed, Counts DEF SiteTrue
<1> QED
  BY <1>2, <1>8, <1>9 DEF Linked

\* When as many were seen as there are without the gone, as many were missed as are gone or new.
LEMMA MissedForOthers ==
    ASSUME NEW base \in SUBSET Advert, NEW gone \in SUBSET base, NEW new \in SUBSET Advert,
           base \cap new = {}, NEW seen \in SUBSET (base \cup new),
           Cardinality(base) <= Cardinality(seen) + Cardinality(gone)
    PROVE  \A S \in SUBSET (base \ seen) :
               Cardinality(S) \in Nat /\ Cardinality(S) <= Cardinality(gone \cup new)
<1>1. gone \in SUBSET Advert /\ seen \in SUBSET Advert
  OBVIOUS
<1>2. /\ IsFiniteSet(base) /\ Cardinality(base) \in Nat /\ IsFiniteSet(new)
      /\ Cardinality(new) \in Nat /\ IsFiniteSet(gone) /\ Cardinality(gone) \in Nat
      /\ IsFiniteSet(seen) /\ Cardinality(seen) \in Nat
  BY <1>1, Counts
<1>3. Cardinality(base \ seen) = Cardinality(base) - Cardinality(base \cap seen)
  BY <1>2, FS_Difference
<1>4. /\ Cardinality(base \cap seen) \in Nat
      /\ Cardinality(seen) <= Cardinality(base \cap seen) + Cardinality(new)
  <2>1. seen \in SUBSET ((base \cap seen) \cup new)
    OBVIOUS
  <2>2. IsFiniteSet(base \cap seen) /\ Cardinality(base \cap seen) \in Nat
    <3>1. base \cap seen \in SUBSET Advert
      OBVIOUS
    <3> QED
      BY <3>1, Counts
  <2>3. Cardinality((base \cap seen) \cup new) =
            Cardinality(base \cap seen) + Cardinality(new) - Cardinality((base \cap seen) \cap new)
    BY <1>2, <2>2, FS_Union
  <2>4. Cardinality((base \cap seen) \cap new) = 0
    <3>1. (base \cap seen) \cap new = {}
      OBVIOUS
    <3> QED
      BY <3>1, FS_EmptySet
  <2>5. (base \cap seen) \cup new \in SUBSET Advert
    OBVIOUS
  <2>6. Cardinality(seen) <= Cardinality((base \cap seen) \cup new)
    BY <2>1, <2>5, Counts
  <2> QED
    BY <1>2, <2>2, <2>3, <2>4, <2>6
<1>5. Cardinality(gone \cup new) = Cardinality(gone) + Cardinality(new)
  <2>1. Cardinality(gone \cup new) =
            Cardinality(gone) + Cardinality(new) - Cardinality(gone \cap new)
    BY <1>2, FS_Union
  <2>2. Cardinality(gone \cap new) = 0
    <3>1. gone \cap new = {}
      OBVIOUS
    <3> QED
      BY <3>1, FS_EmptySet
  <2> QED
    BY <1>2, <2>1, <2>2
<1>6. base \ seen \in SUBSET Advert
  OBVIOUS
<1>7. Cardinality(base \ seen) <= Cardinality(gone \cup new)
  BY <1>2, <1>3, <1>4, <1>5
<1> QED
  <2>1. ASSUME NEW S \in SUBSET (base \ seen)
        PROVE  Cardinality(S) \in Nat /\ Cardinality(S) <= Cardinality(base \ seen)
    BY <1>6, Counts
  <2>2. Cardinality(base \ seen) \in Nat /\ Cardinality(gone \cup new) \in Nat
    BY <1>2, <1>5, <1>6, Counts
  <2> QED
    BY <1>7, <2>1, <2>2

\* A surface that has shown as many as were told has missed no more than are gone from it or new.
LEMMA SeenRead ==
    ASSUME SiteTrue, RequestTrue, SeenSoFar, pager = "SEEN", request \in Position,
           NEW page \in Pages, NEW turn, SeenTurn(page, turn), Taken(page, turn)
    PROVE  SeenSoFar'
<1>0. PICK g : g = request.surface
  OBVIOUS
<1>1. g \in 1..2 /\ request # None
  BY <1>0, NextRequests DEF Position
<1> DEFINE base == Base(g)
           gone == Base(g) \cap withdrawn
           new == published \cap Part(g)
<1>2. /\ prior.ids \subseteq found /\ prior.ids \subseteq Known \cap Part(g)
      /\ g = 2 => PaidFor(1)
      /\ prior.total # None => Cardinality(base) <= prior.total + Cardinality(gone)
  BY <1>0, <1>1 DEF SeenSoFar, SectionsLeft
<1>3. /\ found' = found \cup Entries /\ request' = turn.next
      /\ prior' = NextContext(page, turn.next)
      /\ UNCHANGED <<listing, site, published, withdrawn, pager>>
  BY DEF Taken, SeenTurn
<1>4. /\ Known' = Known /\ \A s \in 1..2 : PaidFor(s) => PaidFor(s)'
      /\ \A s : Base(s)' = Base(s) /\ Gone(s)' = Gone(s) /\ Part(s)' = Part(s)
  BY TakenKeeps
<1>5. Shown = ToSet(site) \cap Part(g)
  BY <1>0, ShownListed DEF Shown, OneSurface, Part
<1>6. SeenIds \subseteq found' /\ SeenIds \subseteq Known \cap Part(g)
  BY <1>2, <1>3, <1>5, PageShows DEF SeenIds, Known
<1>7. turn.next \in Position \cup {None}
  BY NextRequests DEF SeenTurn
<1>8. /\ base \in SUBSET Advert /\ gone \in SUBSET base /\ new \in SUBSET Advert
      /\ base \cap new = {} /\ Known \cap Part(g) \subseteq base \cup new
  BY DEF Base, Part
<1>9. Cardinality(base) <= KnownTotal(page) + Cardinality(gone) /\ KnownTotal(page) \in Nat
  <2>1. CASE page.total = None
    <3>1. KnownTotal(page) = prior.total /\ prior.total # None
      BY <2>1 DEF KnownTotal, SeenTurn
    <3> QED
      BY <1>2, <3>1 DEF RequestTrue
  <2>2. CASE page.total # None
    <3>1. KnownTotal(page) = Cardinality(Shown) /\ Cardinality(Shown) \in Nat
      BY <2>2, PageShows DEF KnownTotal
    <3>2. base \in SUBSET (Shown \cup gone)
      BY <1>5 DEF Base, Known
    <3>3. Shown \in SUBSET Advert /\ Shown \cup gone \in SUBSET Advert /\ gone \in SUBSET Advert
      BY <1>8, PageShows
    <3>4. Cardinality(base) <= Cardinality(Shown \cup gone) /\ Cardinality(base) \in Nat
      BY <3>2, <3>3, Counts
    <3>5. /\ IsFiniteSet(Shown) /\ IsFiniteSet(gone) /\ Cardinality(gone) \in Nat
          /\ Cardinality(Shown \cap gone) \in Nat
      <4>1. Shown \cap gone \in SUBSET Advert
        BY <3>3
      <4> QED
        BY <3>3, <4>1, Counts
    <3>6. Cardinality(Shown \cup gone) =
              Cardinality(Shown) + Cardinality(gone) - Cardinality(Shown \cap gone)
      BY <3>5, FS_Union
    <3> QED
      BY <3>1, <3>4, <3>5, <3>6
  <2> QED
    BY <2>1, <2>2
<1>10. CASE turn.next = NextPage
  <2>1. /\ request' # None /\ request'.surface = g /\ prior'.ids = SeenIds
        /\ prior'.total = KnownTotal(page)
    BY <1>0, <1>3, <1>7, <1>10, NextRequests, Contexts
  <2>2. SectionsLeft'
    BY <1>2, <1>4, <2>1 DEF SectionsLeft
  <2>3. Cardinality(Base(g)') <= prior'.total + Cardinality(Base(g)' \cap withdrawn')
    BY <1>3, <1>4, <1>9, <2>1
  <2> QED
    BY <1>4, <1>6, <2>1, <2>2, <2>3 DEF SeenSoFar
<1>11. CASE turn.next # NextPage
  <2>1. turn.next = NextSurface /\ Cardinality(SeenIds) = KnownTotal(page)
    BY <1>11 DEF SeenTurn
  <2>2. PaidFor(g)'
    <3>1. SeenIds \in SUBSET (base \cup new)
      BY <1>6, <1>8
    <3>2. Cardinality(base) <= Cardinality(SeenIds) + Cardinality(gone)
      BY <1>9, <2>1
    <3>3. \A S \in SUBSET (base \ SeenIds) :
              Cardinality(S) \in Nat /\ Cardinality(S) <= Cardinality(gone \cup new)
      BY <1>8, <3>1, <3>2, MissedForOthers
    <3>4. Missing(g)' \in SUBSET (base \ SeenIds)
      <4>1. listing.steady \subseteq ToSet(site) /\ published \cap listing.steady = {}
        BY DEF SiteTrue
      <4> QED
        BY <1>3, <1>6, <4>1 DEF Missing, Base, Known, Part
    <3>5. gone \cup new \in SUBSET Gone(g) /\ Gone(g) \in SUBSET Advert
      BY DEF Gone, Replaced, Base, Part
    <3>6. Cardinality(gone \cup new) <= Cardinality(Gone(g)) /\ Cardinality(gone \cup new) \in Nat
          /\ Cardinality(Gone(g)) \in Nat
      BY <3>5, Counts
    <3>7. Cardinality(Missing(g)') \in Nat /\ Cardinality(Missing(g)') <= Cardinality(Gone(g))
      BY <3>3, <3>4, <3>6
    <3> QED
      BY <1>4, <3>7 DEF PaidFor
  <2>3. CASE g = 1
    <3>1. request' # None /\ request'.surface = 2 /\ prior'.ids = {} /\ prior'.total = None
      BY <1>0, <1>3, <1>7, <2>1, <2>3, NextRequests, Contexts
    <3> QED
      BY <2>2, <2>3, <3>1 DEF SeenSoFar, SectionsLeft
  <2>4. CASE g = 2
    <3>1. request' = None /\ prior' = NoContext
      BY <1>0, <1>3, <1>7, <2>1, <2>4, NextRequests, Contexts
    <3>2. prior'.ids = {}
      BY <3>1 DEF NoContext
    <3>3. PaidFor(1)' /\ PaidFor(2)'
      BY <1>2, <1>4, <2>2, <2>4
    <3> QED
      BY <3>1, <3>2, <3>3 DEF SeenSoFar, SectionsLeft
  <2> QED
    BY <1>1, <2>3, <2>4
<1> QED
  BY <1>10, <1>11

\* A section read as a whole is not missed.
LEMMA WholeSection ==
    ASSUME SiteTrue, SiteTrue', NEW s \in 1..2, listing' = listing,
           listing.steady \cap Part(s) \subseteq found', Part(s)' = Part(s)
    PROVE  PaidFor(s)'
<1>1. Missing(s)' = {}
  BY DEF Missing
<1>2. Cardinality(Missing(s)') = 0
  BY <1>1, FS_EmptySet
<1>3. Gone(s)' \in SUBSET Advert
  BY DEF Gone, Part
<1>4. Cardinality(Gone(s)') \in Nat
  BY <1>3, Counts
<1> QED
  BY <1>2, <1>4 DEF PaidFor

\* Two surfaces of one page each are read whole.
LEMMA SweptRead ==
    ASSUME SiteTrue, SectionsLeft, pager = "SURFACES", request \in Position, NEW page, NEW turn,
           turn = SurfacePage, Taken(page, turn)
    PROVE  SectionsLeft'
<1>0. PICK g : g = request.surface
  OBVIOUS
<1>1. g \in 1..2 /\ request # None /\ (g = 2 => PaidFor(1))
  BY <1>0, NextRequests DEF Position, SectionsLeft
<1>2. Entries = ToSet(site) \cap Part(g)
  BY <1>0, ShownListed DEF Entries, Whole, Shown, OneSurface, Part
<1>3. found' = found \cup Entries /\ request' = NextSurface /\ listing' = listing
  BY DEF Taken, SurfacePage, Turn
<1>4. /\ SiteTrue' /\ \A s \in 1..2 : PaidFor(s) => PaidFor(s)'
      /\ \A s : Part(s)' = Part(s)
  BY TakenKeeps
<1>5. PaidFor(g)'
  <2>1. listing.steady \cap Part(g) \subseteq found'
    BY <1>2, <1>3 DEF SiteTrue
  <2> QED
    BY <1>1, <1>3, <1>4, <2>1, WholeSection
<1>6. CASE g = 1
  <2>1. request' # None /\ request'.surface = 2
    BY <1>0, <1>3, <1>6, NextRequests
  <2> QED
    BY <1>5, <1>6, <2>1 DEF SectionsLeft
<1>7. CASE g = 2
  <2>1. request' = None
    BY <1>0, <1>3, <1>7, NextRequests
  <2> QED
    BY <1>1, <1>4, <1>5, <1>7, <2>1 DEF SectionsLeft
<1> QED
  BY <1>1, <1>6, <1>7

\* The sum is only right when the first section was counted right.
LEMMA SummedRead ==
    ASSUME SiteTrue, RequestTrue, Summed, pager = "COURTS", request \in Position,
           NEW page \in Pages, NEW turn, SummedTurn(page, turn), Taken(page, turn)
    PROVE  Summed'
<1>0. PICK g : g = request.surface
  OBVIOUS
<1>1. g \in 1..2 /\ request # None /\ request.at \in Nat /\ PageSize \in Nat \ {0}
  BY <1>0, NextRequests, DiscoveryAssumption DEF Position
<1>2. /\ total = None /\ found \subseteq Known \cap Part(1)
      /\ g = 1 /\ request.at = 0 => found = {}
      /\ g = 2 => /\ prior.total \in Nat /\ (prior.total = 0 => found = {})
                  /\ Cardinality(found) = prior.total => PaidFor(1)
  BY <1>0, <1>1 DEF Summed
<1>3. /\ found' = found \cup Entries /\ request' = turn.next
      /\ prior' = NextContext(page, turn.next)
      /\ total' = IF turn.reported \in {None, 0} THEN total ELSE turn.reported
      /\ UNCHANGED <<listing, site, published, withdrawn, pager>>
  BY DEF Taken, SummedTurn
<1>4. /\ SiteTrue' /\ Known' = Known /\ \A s \in 1..2 : PaidFor(s) => PaidFor(s)'
      /\ \A s : Gone(s)' = Gone(s) /\ Part(s)' = Part(s)
  BY TakenKeeps
<1>5. Shown = ToSet(site) \cap Part(g)
  BY <1>0, ShownListed DEF Shown, OneSurface, Part
<1>6. Entries \subseteq Shown /\ Shown \in SUBSET Advert /\ Cardinality(Shown) \in Nat
      /\ Cardinality(Entries) \in Nat /\ page.total = Cardinality(Shown)
  BY PageShows DEF SummedTurn
<1>7. g = 1 => found' \subseteq Known' \cap Part(1)'
  BY <1>2, <1>3, <1>4, <1>5, <1>6 DEF Known
<1>8. turn.next \in Position \cup {None}
  BY NextRequests DEF SummedTurn
<1>9. CASE g = 1 /\ turn.next = NextPage /\ turn.reported = None
  <2>1. request' # None /\ request'.surface = 1 /\ request'.at # 0
    BY <1>0, <1>1, <1>3, <1>9, NextRequests
  <2>2. total' = None
    BY <1>2, <1>3, <1>9
  <2> QED
    BY <1>7, <1>9, <2>1, <2>2 DEF Summed
<1>10. CASE /\ g = 1 /\ turn.next = NextSurface /\ turn.reported = None
            /\ request.at + Cardinality(Entries) = page.total
  <2>1. request' # None /\ request'.surface = 2 /\ prior'.total = page.total
    BY <1>0, <1>3, <1>8, <1>10, NextRequests, Contexts
  <2>2. total' = None
    BY <1>2, <1>3, <1>10
  <2>3. page.total = 0 => found' = {}
    <3>1. ASSUME page.total = 0 PROVE found = {} /\ Entries = {}
      <4>1. request.at = 0 /\ Cardinality(Shown) = 0
        BY <1>1, <1>6, <1>10, <3>1
      <4>2. Shown = {}
        BY <1>6, <4>1, Counts, FS_EmptySet
      <4> QED
        BY <1>2, <1>6, <1>10, <4>1, <4>2
    <3> QED
      BY <1>3, <3>1
  <2>4. ASSUME Cardinality(found') = page.total PROVE PaidFor(1)'
    <3> DEFINE gone == withdrawn \cap Part(1)
    <3>1. Shown \cap gone = {} /\ gone \in SUBSET Advert /\ Gone(1) = gone
      BY <1>5 DEF SiteTrue, Gone, Replaced, Part
    <3>2. found' \in SUBSET (Shown \cup gone)
      BY <1>4, <1>5, <1>7, <1>10 DEF Known
    <3>3. Cardinality(found') = Cardinality(Shown)
      BY <1>6, <2>4
    <3>4. \A S \in SUBSET ((Shown \cup gone) \ found') : Cardinality(S) <= Cardinality(gone)
      BY <1>6, <3>1, <3>2, <3>3, MissedForGone
    <3>5. Missing(1)' \in SUBSET ((Shown \cup gone) \ found')
      BY <1>3, <1>5, <1>10 DEF Missing, Part, SiteTrue
    <3> QED
      BY <1>4, <3>1, <3>4, <3>5 DEF PaidFor
  <2> QED
    <3>1. prior'.total \in Nat
      BY <1>6, <2>1
    <3> QED
      BY <1>7, <1>10, <2>1, <2>2, <2>3, <2>4, <3>1 DEF Summed
<1>11. CASE g = 2 /\ turn.next = None /\ Entries = Shown /\ turn.reported = prior.total + page.total
  <2>1. request' = None
    BY <1>3, <1>11
  <2>2. PaidFor(2)'
    <3>1. listing.steady \cap Part(2) \subseteq found'
      BY <1>3, <1>5, <1>11 DEF SiteTrue
    <3> QED
      BY <1>3, <1>4, <3>1, WholeSection
  <2>3. Cardinality(found') = Cardinality(found) + Cardinality(Shown) /\ Cardinality(found) \in Nat
    <3>1. found \cap Shown = {} /\ found \in SUBSET Advert
      BY <1>2, <1>5, <1>11 DEF Part
    <3>2. /\ IsFiniteSet(found) /\ IsFiniteSet(Shown) /\ Cardinality(found) \in Nat
          /\ Cardinality(found \cap Shown) = 0
      BY <1>6, <3>1, Counts, FS_EmptySet
    <3>3. Cardinality(found \cup Shown) =
              Cardinality(found) + Cardinality(Shown) - Cardinality(found \cap Shown)
      BY <3>2, FS_Union
    <3> QED
      BY <1>3, <1>6, <1>11, <3>2, <3>3
  <2>4. ASSUME TotalMatches' PROVE PaidFor(1)'
    <3>1. total' = None \/ Cardinality(found') = total'
      BY <2>4 DEF TotalMatches
    <3>2. Cardinality(found) = prior.total
      <4>1. CASE turn.reported = 0
        <5>1. prior.total = 0
          BY <1>2, <1>6, <1>11, <4>1
        <5>2. found = {}
          BY <1>2, <1>11, <5>1
        <5> QED
          BY <5>1, <5>2, FS_EmptySet
      <4>2. CASE turn.reported # 0
        <5>1. turn.reported \in Nat /\ turn.reported # None
          BY <1>2, <1>6, <1>11, DiscoveryAssumption
        <5>2. total' = prior.total + Cardinality(Shown) /\ total' # None
          BY <1>3, <1>6, <1>11, <4>2, <5>1
        <5>3. Cardinality(found) + Cardinality(Shown) = prior.total + Cardinality(Shown)
          BY <2>3, <3>1, <5>2
        <5> QED
          BY <1>2, <1>6, <1>11, <2>3, <5>3
      <4> QED
        BY <4>1, <4>2
    <3> QED
      BY <1>2, <1>4, <1>11, <3>2
  <2> QED
    BY <2>1, <2>2, <2>4 DEF Summed
<1> QED
  BY <1>0, <1>9, <1>10, <1>11 DEF SummedTurn

\* What is taken out is what the second surface showed; the rest was kept, or is gone.
LEMMA FilteredRead ==
    ASSUME SiteTrue, RequestTrue, Filtered, pager = "FILTER", request \in Position,
           NEW page \in Pages, NEW turn, FilteredTurn(turn), Taken(page, turn)
    PROVE  Filtered'
<1>0. PICK g : g = request.surface
  OBVIOUS
<1>1. g \in 1..2 /\ request # None
  BY <1>0, NextRequests DEF Position
<1>2. /\ found = {} /\ prior.ids \subseteq Known
      /\ g = 2 => /\ prior.ids \subseteq Part(2) /\ prior.kept \subseteq Known
                  /\ Cardinality((listing.steady \cap Part(1)) \ prior.kept)
                         <= Cardinality(withdrawn)
  BY <1>0, <1>1 DEF Filtered
<1>3. /\ found' = turn.entries /\ request' = turn.next /\ prior' = NextContext(page, turn.next)
      /\ UNCHANGED <<listing, site, withdrawn, pager>> /\ Known' = Known
  BY <1>2 DEF Taken, Known
<1>4. turn.next \in Position \cup {None}
  BY NextRequests DEF FilteredTurn
<1>5. /\ ToSet(site) \in SUBSET Advert /\ withdrawn \in SUBSET Advert
      /\ ToSet(site) \cap withdrawn = {} /\ listing.steady \subseteq ToSet(site)
  BY ShownListed DEF SiteTrue
<1>6. /\ g = 1 => Shown = ToSet(site)
      /\ g = 2 => Shown = ToSet(site) \cap Part(2)
  BY <1>0, <1>5 DEF Shown, OneSurface, Part
<1>7. SeenIds \subseteq Known /\ (g = 2 => SeenIds \subseteq Part(2))
  BY <1>2, <1>6, PageShows DEF SeenIds, Known
<1>8. Part(1) \cap Part(2) = {}
  BY DEF Part
<1>9. CASE turn.next = NextPage /\ turn.entries = {}
  <2>1. /\ request' # None /\ request'.surface = g /\ prior'.ids = SeenIds
        /\ prior'.kept = prior.kept
    BY <1>0, <1>3, <1>4, <1>9, NextRequests, Contexts
  <2>2. /\ found' = {} /\ prior'.ids \subseteq Known'
        /\ g = 2 => /\ prior'.ids \subseteq Part(2)' /\ prior'.kept \subseteq Known'
                    /\ Cardinality(((listing.steady \cap Part(1)) \ prior.kept)')
                           <= Cardinality(withdrawn')
    BY <1>2, <1>3, <1>7, <1>9, <2>1 DEF Part
  <2> QED
    BY <2>1, <2>2 DEF Filtered
<1>10. CASE /\ Cardinality(SeenIds) = Cardinality(Shown) /\ g = 1
            /\ turn.entries = {} /\ turn.next = NextSurface
  <2>1. request' # None /\ request'.surface = 2 /\ prior'.ids = {} /\ prior'.kept = SeenIds
    BY <1>0, <1>3, <1>4, <1>10, NextRequests, Contexts
  <2>2. SeenIds \in SUBSET (ToSet(site) \cup withdrawn)
    BY <1>7 DEF Known
  <2>3. \A S \in SUBSET ((ToSet(site) \cup withdrawn) \ SeenIds) :
            Cardinality(S) <= Cardinality(withdrawn)
    <3>1. Cardinality(SeenIds) = Cardinality(ToSet(site))
      BY <1>6, <1>10
    <3> QED
      BY <1>5, <2>2, <3>1, MissedForGone
  <2>4. (listing.steady \cap Part(1)) \ SeenIds \in SUBSET ((ToSet(site) \cup withdrawn) \ SeenIds)
    BY <1>5
  <2>5. Cardinality((listing.steady \cap Part(1)) \ SeenIds) <= Cardinality(withdrawn)
    BY <2>3, <2>4
  <2>6. ((listing.steady \cap Part(1)) \ prior.kept)' = (listing.steady \cap Part(1)) \ SeenIds
    BY <1>3, <2>1 DEF Part
  <2>7. /\ found' = {} /\ prior'.ids \subseteq Known'
        /\ prior'.ids \subseteq Part(2)' /\ prior'.kept \subseteq Known'
        /\ Cardinality(((listing.steady \cap Part(1)) \ prior.kept)') <= Cardinality(withdrawn')
    BY <1>3, <1>10, <2>1, <2>2, <2>5, <2>6 DEF Known
  <2> QED
    BY <2>1, <2>7 DEF Filtered
<1>11. CASE /\ Cardinality(SeenIds) = Cardinality(Shown) /\ g = 2 /\ SeenIds \subseteq prior.kept
            /\ turn.entries = prior.kept \ SeenIds /\ turn.next = None
  <2>1. ((listing.steady \cap Part(1)) \ found)' = (listing.steady \cap Part(1)) \ prior.kept
    BY <1>3, <1>7, <1>8, <1>11 DEF Part
  <2>2. Shown \in SUBSET Advert /\ Gone(2) \in SUBSET Advert /\ Shown \cap Gone(2) = {}
    BY <1>5, <1>6, <1>11 DEF Gone, Replaced, Known
  <2>3. SeenIds \in SUBSET (Shown \cup Gone(2))
    BY <1>6, <1>7, <1>11 DEF Gone, Replaced, Known
  <2>4. \A S \in SUBSET ((Shown \cup Gone(2)) \ SeenIds) : Cardinality(S) <= Cardinality(Gone(2))
    <3>1. Cardinality(SeenIds) = Cardinality(Shown)
      BY <1>11
    <3> QED
      BY <2>2, <2>3, <3>1, MissedForGone
  <2>5. (found \ Part(1))' \in SUBSET ((Shown \cup Gone(2)) \ SeenIds)
    <3>1. ASSUME NEW a \in (found \ Part(1))' PROVE a \in (Shown \cup Gone(2)) \ SeenIds
      <4>1. a \in prior.kept /\ a \notin SeenIds /\ a \notin Part(1)
        BY <1>3, <1>11, <3>1 DEF Part
      <4>2. a \in Known /\ a \in Advert
        BY <1>2, <1>5, <1>11, <4>1 DEF Known
      <4>3. a \in Part(2)
        <5>1. Section[a] \in 1..2
          BY <4>2, DiscoveryAssumption
        <5> QED
          BY <4>1, <4>2, <5>1 DEF Part
      <4> QED
        BY <1>6, <1>11, <4>1, <4>2, <4>3 DEF Gone, Replaced, Known
    <3> QED
      BY <3>1
  <2>6. Cardinality((found \ Part(1))') <= Cardinality(Gone(2))
    BY <2>4, <2>5
  <2>7. /\ Cardinality(Gone(2)) <= Cardinality(withdrawn) /\ Cardinality(Gone(2)) \in Nat
        /\ Cardinality(withdrawn) \in Nat
    <3>1. Gone(2) \in SUBSET withdrawn
      BY DEF Gone, Replaced, Known
    <3> QED
      BY <1>5, <3>1, Counts
  <2>8. Cardinality((found \ Part(1))') \in Nat
    <3>1. (found \ Part(1))' \in SUBSET Advert
      BY <2>2, <2>5
    <3> QED
      BY <3>1, Counts
  <2>9. /\ Cardinality(((listing.steady \cap Part(1)) \ found)') <= Cardinality(withdrawn')
        /\ Cardinality((found \ Part(1))') <= Cardinality(withdrawn')
    <3>1. withdrawn' = withdrawn
      BY <1>3
    <3>2. Cardinality(((listing.steady \cap Part(1)) \ found)') <= Cardinality(withdrawn)
      BY <1>2, <1>11, <2>1
    <3>3. Cardinality((found \ Part(1))') <= Cardinality(withdrawn)
      BY <2>6, <2>7, <2>8
    <3> QED
      BY <3>1, <3>2, <3>3
  <2> QED
    BY <1>3, <1>11, <2>9 DEF Filtered
<1> QED
  BY <1>0, <1>9, <1>10, <1>11 DEF FilteredTurn

\* A step that changes the status of the listing at most leaves what is known true.
LEMMA StatusKeeps ==
    ASSUME ListingInv,
           listing' \in [status : {"READING", "COMPLETE", "FAILED"}, steady : {listing.steady}],
           listing'.status = "COMPLETE" => request = None /\ TotalMatches,
           UNCHANGED <<site, published, withdrawn, moved, pager, request, found, prior, total>>
    PROVE  ListingInv'
<1>1. SiteTrue /\ RequestTrue /\ CountsTrue /\ (pager \in ByLink => Linked)
  BY DEF ListingInv, PagerTrue
<1>2. listing'.steady = listing.steady
  OBVIOUS
<1>3. SiteTrue'
  BY <1>1 DEF SiteTrue
<1>4. RequestTrue'
  BY <1>1 DEF RequestTrue, TotalMatches
<1>5. CountsTrue'
  BY <1>1, <1>2, <1>3, CountsStay
<1>6. Lost' = Lost
  BY <1>2 DEF Lost, Rank, Shown, Precedes
<1>7. pager' \in ByLink' => Linked'
  BY <1>1, <1>6 DEF Linked, ByLink
<1> QED
  BY <1>3, <1>4, <1>5, <1>7 DEF ListingInv, PagerTrue

\* A page leaves what is known of the listing true, whatever the pager.
LEMMA ReadKeeps == ListingInv /\ ReadPage => ListingInv'
<1> SUFFICES ASSUME ListingInv, ReadPage PROVE ListingInv'
  OBVIOUS
<1>1. SiteTrue /\ RequestTrue /\ PagerTrue /\ CountsTrue
  BY DEF ListingInv, PagerTrue
<1>2. request \in Position /\ listing.status = "READING"
  BY <1>1 DEF ReadPage, RequestTrue, Reading
<1>3. PICK page \in Pages : \E turn \in {Parsed(page)} :
          IF turn = Refused
            THEN End("FAILED") /\ UNCHANGED <<request, found, prior, total>>
            ELSE /\ found' = found \cup turn.entries
                 /\ total' = IF turn.reported \in {None, 0} THEN total ELSE turn.reported
                 /\ prior' = NextContext(page, turn.next)
                 /\ request' = turn.next
                 /\ UNCHANGED listing
  BY DEF ReadPage
<1> PICK turn \in {Parsed(page)} :
          IF turn = Refused
            THEN End("FAILED") /\ UNCHANGED <<request, found, prior, total>>
            ELSE /\ found' = found \cup turn.entries
                 /\ total' = IF turn.reported \in {None, 0} THEN total ELSE turn.reported
                 /\ prior' = NextContext(page, turn.next)
                 /\ request' = turn.next
                 /\ UNCHANGED listing
  BY <1>3
<1>4. UNCHANGED <<site, published, withdrawn, moved, pager>>
  BY DEF ReadPage
<1>5. CASE turn = Refused
  <2>1. /\ listing' = [listing EXCEPT !.status = "FAILED"]
        /\ UNCHANGED <<request, found, prior, total>>
    BY <1>3, <1>5 DEF End
  <2>2. listing'.status = "FAILED" /\ listing'.steady = listing.steady
    BY <1>1, <2>1 DEF SiteTrue
  <2>3. listing' \in [status : {"READING", "COMPLETE", "FAILED"}, steady : {listing.steady}]
    BY <1>1, <2>1 DEF SiteTrue
  <2> QED
    BY <1>4, <2>1, <2>2, <2>3, StatusKeeps
<1>6. CASE turn # Refused
  <2>1. Taken(page, turn) /\ Parsed(page) # Refused
    BY <1>3, <1>4, <1>6 DEF Taken
  <2>2. SiteTrue'
    BY <1>1, <2>1, TakenKeeps
  <2>3. /\ pager \in OneTotal => CountedTurn(turn)
        /\ pager \in ByLink => LinkedTurn(turn)
        /\ pager = "SEEN" => SeenTurn(page, turn)
        /\ pager = "COURTS" => SummedTurn(page, turn)
        /\ pager = "FILTER" => FilteredTurn(turn)
        /\ pager = "SURFACES" => turn = SurfacePage
    BY <1>1, <1>2, <1>3, <2>1, CountedTurns, LinkedTurns, SeenTurns, SummedTurns, FilteredTurns
       DEF Parsed
  <2>4. \/ pager \in OneTotal \/ pager \in ByLink
        \/ pager \in {"SEEN", "COURTS", "FILTER", "SURFACES"}
    BY <1>1, DiscoveryAssumption DEF RequestTrue, OneTotal, OneSurface, ByLink
  <2>5. Typed(turn)
    <3>1. Entries \subseteq Advert /\ prior.kept \subseteq Advert /\ ToSet(site) \subseteq Advert
      BY <1>1, <1>2, PageShows, ShownListed DEF RequestTrue
    <3>2. NextPage \in Position /\ (NextSurface = None \/ NextSurface \in Position)
      BY <1>2, NextRequests DEF NextSurface
    <3>3. pager \in {"SURFACES"} => turn.entries = Entries /\ turn.next = NextSurface
      BY <2>3 DEF SurfacePage, Turn
    <3>4. pager \in OneTotal => Typed(turn)
      BY <2>3, <3>1 DEF Typed, CountedTurn
    <3>5. pager \in ByLink => Typed(turn)
      BY <2>3, <3>1, <3>2 DEF Typed, LinkedTurn
    <3>6. pager \in {"SEEN", "COURTS"} => Typed(turn)
      BY <2>3, <3>1, <3>2 DEF Typed, SeenTurn, SummedTurn
    <3>7. pager = "FILTER" => Typed(turn)
      BY <2>3, <3>1, <3>2 DEF Typed, FilteredTurn
    <3>8. pager = "SURFACES" => Typed(turn)
      BY <3>1, <3>2, <3>3 DEF Typed
    <3> QED
      BY <2>4, <3>4, <3>5, <3>6, <3>7, <3>8
  <2>6. RequestTrue'
    <3>1. prior' \in [total : Nat \cup {None}, ids : SUBSET Advert, kept : SUBSET Advert]
      BY <1>1, <1>2, <2>1, <2>5, Contexts DEF Typed, Taken
    <3> QED
      BY <1>1, <1>2, <2>1, <2>5, <3>1 DEF RequestTrue, Taken, Typed
  <2>7. CountsTrue'
    <3>1. pager' = pager /\ OneTotal' = OneTotal
      BY <2>1 DEF Taken, OneTotal
    <3>2. pager \in OneTotal => Counted'
      BY <1>1, <1>2, <2>1, <2>3, CountedRead DEF CountsTrue
    <3>3. pager = "SURFACES" => SectionsLeft'
      BY <1>1, <1>2, <2>1, <2>3, SweptRead DEF CountsTrue
    <3>4. pager = "SEEN" => SeenSoFar'
      BY <1>1, <1>2, <2>1, <2>3, SeenRead DEF CountsTrue
    <3>5. pager = "FILTER" => Filtered'
      BY <1>1, <1>2, <2>1, <2>3, FilteredRead DEF CountsTrue
    <3>6. pager = "COURTS" => Summed'
      BY <1>1, <1>2, <2>1, <2>3, SummedRead DEF CountsTrue
    <3> QED
      BY <3>1, <3>2, <3>3, <3>4, <3>5, <3>6 DEF CountsTrue
  <2>8. pager' \in ByLink' => Linked'
    BY <1>1, <1>2, <2>1, <2>3, LinkedRead DEF Taken, ByLink, PagerTrue
  <2> QED
    BY <2>2, <2>6, <2>7, <2>8 DEF ListingInv, PagerTrue
<1> QED
  BY <1>5, <1>6

\* The site is what it is before the first request.
LEMMA ListingInit == DiscoveryInit => ListingInv
<1> SUFFICES ASSUME DiscoveryInit PROVE ListingInv
  OBVIOUS
<1>1. PICK m \in 0..Cardinality(Advert) : site \in [1..m -> Advert] /\ IsInjective(site)
  BY DEF DiscoveryInit, BoundedSeq, SeqOf
<1>2. site \in Seq(Advert) /\ DOMAIN site = 1..Len(site)
  <2>1. m \in Nat
    BY DiscoveryAssumption, FS_CardinalityType
  <2> QED
    BY <1>1, <2>1
<1>3. request = Ask(1, 0) /\ request \in Position /\ request.surface = 1 /\ request.at = 0
  BY DEF Ask, Position, DiscoveryInit
<1>4. SiteTrue
  BY <1>1, <1>2 DEF SiteTrue, IsInjective, DiscoveryInit
<1>5. RequestTrue
  BY <1>3 DEF RequestTrue, DiscoveryInit, NoContext
<1>6. request # None
  BY <1>3, NextRequests
<1>7. Counted /\ SeenSoFar /\ Filtered /\ Summed /\ SectionsLeft
  BY <1>3, <1>6 DEF Counted, SeenSoFar, Filtered, Summed, SectionsLeft, DiscoveryInit, NoContext
<1>8. pager \in ByLink => Linked
  <2>1. Lost = {}
    <3>1. \A a \in Shown : Rank(a) \in Nat /\ Rank(a) >= 1
      <4>1. Cardinality(Shown) \in Nat
        BY <1>3, <1>4, PageShows
      <4> QED
        BY <1>4, <4>1, Ranks
    <3> QED
      BY <1>3, <1>6, <3>1 DEF Lost
  <2>2. Cardinality(withdrawn) \in Nat /\ moved \in Nat
    BY <1>4, Counts DEF SiteTrue
  <2> QED
    BY <2>1, <2>2, FS_EmptySet DEF Linked
<1> QED
  BY <1>4, <1>5, <1>7, <1>8 DEF ListingInv, PagerTrue, CountsTrue

\* Every step keeps it.
LEMMA ListingStep == ListingInv /\ [DiscoveryNext]_discoveryVars => ListingInv'
<1> SUFFICES ASSUME ListingInv, [DiscoveryNext]_discoveryVars PROVE ListingInv'
  OBVIOUS
<1>1. SiteTrue /\ RequestTrue
  BY DEF ListingInv
<1>2. CASE UNCHANGED discoveryVars
  <2>1. listing'.status = listing.status /\ listing'.steady = listing.steady
    BY <1>2 DEF discoveryVars
  <2>2. listing' \in [status : {"READING", "COMPLETE", "FAILED"}, steady : {listing.steady}]
    BY <1>1, <1>2 DEF SiteTrue, discoveryVars
  <2>3. listing'.status = "COMPLETE" => request = None /\ TotalMatches
    BY <1>1, <2>1 DEF RequestTrue
  <2> QED
    BY <1>2, <2>2, <2>3, StatusKeeps DEF discoveryVars
<1>3. ASSUME NEW s \in {"COMPLETE", "FAILED"}, End(s),
             s = "COMPLETE" => request = None /\ TotalMatches,
             UNCHANGED <<site, published, withdrawn, moved, pager, request, found, prior, total>>
      PROVE  ListingInv'
  <2>1. /\ listing' \in [status : {"READING", "COMPLETE", "FAILED"}, steady : {listing.steady}]
        /\ listing'.status = s
    BY <1>1, <1>3 DEF SiteTrue, End
  <2> QED
    BY <1>3, <2>1, StatusKeeps
<1>4. CASE FinishListing
  BY <1>3, <1>4 DEF FinishListing
<1>5. CASE FetchFails
  BY <1>3, <1>5 DEF FetchFails
<1> QED
  BY <1>2, <1>4, <1>5, ReadKeeps, PublishKeeps, WithdrawKeeps, MoveKeeps DEF DiscoveryNext

\* The listing goes on from the site as it is, and what a pager has missed was paid for.
THEOREM ListingInvariant == DiscoverySpec => []ListingInv
BY ListingInit, ListingStep, PTL DEF DiscoverySpec

\* What a counting pager has found at the end, it found among what is listed and what is gone.
LEMMA CountedAccounts ==
    ASSUME SiteTrue, RequestTrue, Counted, pager \in OneTotal, listing.status = "COMPLETE"
    PROVE  ListingAccounted
<1>1. request = None /\ (total = None \/ Cardinality(found) = total)
  BY DEF RequestTrue, TotalMatches
<1>2. /\ ToSet(site) \in SUBSET Advert /\ withdrawn \in SUBSET Advert
      /\ ToSet(site) \cap withdrawn = {} /\ listing.steady \subseteq ToSet(site)
  BY ShownListed DEF SiteTrue
<1>3. found \in SUBSET (ToSet(site) \cup withdrawn)
  BY DEF Counted, Known
<1>4. OwnAdverts = Advert /\ Replaced = withdrawn /\ Shuffled = 0
  BY DEF OwnAdverts, Replaced, Shuffled, OneTotal, OneSurface
<1>5. Cardinality(found \ OwnAdverts) = 0 /\ Cardinality(withdrawn) \in Nat
  <2>1. found \ OwnAdverts = {}
    BY <1>2, <1>3, <1>4
  <2> QED
    BY <1>2, <2>1, FS_EmptySet, Counts
<1>6. Cardinality(ToSet(site)) = Len(site) /\ Len(site) \in Nat
  BY SiteCounted DEF SiteTrue
<1>7. (listing.steady \cap OwnAdverts) \ found \in SUBSET ((ToSet(site) \cup withdrawn) \ found)
  BY <1>2
<1>8. CASE site = <<>> \/ found = ToSet(site)
  <2>1. site = <<>> => ToSet(site) = {}
    BY DEF ToSet
  <2>2. (listing.steady \cap OwnAdverts) \ found = {} /\ (withdrawn = {} => found = ToSet(site))
    BY <1>2, <1>3, <1>8, <2>1
  <2> QED
    BY <1>4, <1>5, <2>2, FS_EmptySet DEF ListingAccounted
<1>9. CASE site # <<>> /\ found # ToSet(site)
  <2>1. total = Len(site)
    BY <1>1, <1>9 DEF Counted
  <2>2. Cardinality(found) = Cardinality(ToSet(site))
    BY <1>1, <1>6, <2>1, DiscoveryAssumption
  <2>3. /\ \A S \in SUBSET ((ToSet(site) \cup withdrawn) \ found) :
               Cardinality(S) <= Cardinality(withdrawn)
        /\ withdrawn = {} => found = ToSet(site)
    BY <1>2, <1>3, <2>2, MissedForGone
  <2>4. Cardinality((listing.steady \cap OwnAdverts) \ found) <= Cardinality(withdrawn)
    BY <1>7, <2>3
  <2> QED
    BY <1>4, <1>5, <2>3, <2>4 DEF ListingAccounted
<1> QED
  BY <1>8, <1>9

\* What a pager by links misses at the end, it had lost.
LEMMA LinkedAccounts ==
    ASSUME SiteTrue, RequestTrue, Linked, pager \in ByLink, request = None
    PROVE  ListingAccounted
<1>1. OwnAdverts = Advert /\ Replaced = withdrawn /\ Shuffled = moved
  BY DEF OwnAdverts, Replaced, Shuffled, ByLink
<1>2. (listing.steady \cap OwnAdverts) \ found = Lost
  <2>1. listing.steady \subseteq Advert
    BY ShownListed DEF SiteTrue
  <2> QED
    BY <1>1, <2>1 DEF Lost
<1>3. Cardinality(found \ OwnAdverts) <= Cardinality(withdrawn)
  <2>1. found \ OwnAdverts = {} /\ withdrawn \in SUBSET Advert
    BY <1>1 DEF RequestTrue, SiteTrue
  <2>2. Cardinality(found \ OwnAdverts) = 0 /\ Cardinality(withdrawn) \in Nat
    BY <2>1, FS_EmptySet, Counts
  <2> QED
    BY <2>2
<1> QED
  BY <1>1, <1>2, <1>3 DEF ListingAccounted, Linked

\* What is missed of two sections is paid for, if it is in each.
LEMMA SectionsAccount ==
    ASSUME SiteTrue, RequestTrue, PaidFor(1), PaidFor(2),
           pager \in {"SEEN", "COURTS", "SURFACES"}
    PROVE  ListingAccounted
<1>1. OwnAdverts = Advert /\ Shuffled = 0 /\ pager \notin OneSurface
  BY DEF OwnAdverts, Shuffled, ByLink, OneSurface
<1>2. \A a \in Advert : Section[a] \in 1..2
  BY DiscoveryAssumption
<1>3. (listing.steady \cap OwnAdverts) \ found = Missing(1) \cup Missing(2)
  <2>1. listing.steady \subseteq Advert
    BY ShownListed DEF SiteTrue
  <2> QED
    BY <1>1, <1>2, <2>1 DEF Missing, Part
<1>4. Replaced = Gone(1) \cup Gone(2) /\ Gone(1) \cap Gone(2) = {}
  <2>1. Replaced \subseteq Advert
    BY ShownListed DEF Replaced, SiteTrue
  <2> QED
    BY <1>2, <2>1 DEF Gone, Part
<1>5. \A s \in 1..2 : /\ IsFiniteSet(Missing(s)) /\ Cardinality(Missing(s)) \in Nat
                      /\ IsFiniteSet(Gone(s)) /\ Cardinality(Gone(s)) \in Nat
  <2>1. \A s \in 1..2 : Missing(s) \in SUBSET Advert /\ Gone(s) \in SUBSET Advert
    BY DEF Missing, Gone, Part
  <2> QED
    BY <2>1, Counts
<1>6. Cardinality(Missing(1) \cup Missing(2)) <= Cardinality(Missing(1)) + Cardinality(Missing(2))
  <2>1. Cardinality(Missing(1) \cup Missing(2)) =
            Cardinality(Missing(1)) + Cardinality(Missing(2)) - Cardinality(Missing(1) \cap Missing(2))
    BY <1>5, FS_Union
  <2>2. IsFiniteSet(Missing(1) \cap Missing(2))
    BY <1>5, FS_Intersection
  <2>3. Cardinality(Missing(1) \cap Missing(2)) \in Nat
    BY <2>2, FS_CardinalityType
  <2> QED
    BY <1>5, <2>1, <2>3
<1>7. Cardinality(Replaced) = Cardinality(Gone(1)) + Cardinality(Gone(2))
  <2>1. Cardinality(Gone(1) \cup Gone(2)) =
            Cardinality(Gone(1)) + Cardinality(Gone(2)) - Cardinality(Gone(1) \cap Gone(2))
    BY <1>5, FS_Union
  <2>2. Cardinality(Gone(1) \cap Gone(2)) = 0
    BY <1>4, FS_EmptySet
  <2> QED
    BY <1>4, <1>5, <2>1, <2>2
<1>8. Cardinality(Missing(1) \cup Missing(2)) \in Nat
  <2>1. Missing(1) \cup Missing(2) \in SUBSET Advert
    BY DEF Missing, Part
  <2> QED
    BY <2>1, Counts
<1>9. Cardinality((listing.steady \cap OwnAdverts) \ found) <= Cardinality(Replaced) + Shuffled
  <2>1. /\ Cardinality(Missing(1)) <= Cardinality(Gone(1))
        /\ Cardinality(Missing(2)) <= Cardinality(Gone(2))
    BY DEF PaidFor
  <2>2. Cardinality(Missing(1) \cup Missing(2)) <= Cardinality(Replaced) + 0
    <3>1. /\ Cardinality(Missing(1)) \in Nat /\ Cardinality(Missing(2)) \in Nat
          /\ Cardinality(Gone(1)) \in Nat /\ Cardinality(Gone(2)) \in Nat
      BY <1>5
    <3> QED
      BY <1>6, <1>7, <1>8, <2>1, <3>1
  <2> QED
    BY <1>1, <1>3, <2>2
<1>10. Cardinality(found \ OwnAdverts) <= Cardinality(withdrawn)
  <2>1. found \ OwnAdverts = {} /\ withdrawn \in SUBSET Advert
    BY <1>1 DEF RequestTrue, SiteTrue
  <2>2. Cardinality(found \ OwnAdverts) = 0 /\ Cardinality(withdrawn) \in Nat
    BY <2>1, FS_EmptySet, Counts
  <2> QED
    BY <2>2
<1> QED
  BY <1>1, <1>9, <1>10 DEF ListingAccounted

\* A complete listing accounts for the site, whatever the pager and however the site changes: an
\* advert that was there throughout is missed only for another that was withdrawn, was published
\* where a total may be an earlier one, or took another place where only links are followed; and
\* where one total or one page covers the site and nothing was withdrawn, the listing is the site.
THEOREM ListingsAreAccounted == DiscoverySpec => []ListingAccounted
<1>1. ASSUME ListingInv PROVE ListingAccounted
  <2> SUFFICES ASSUME listing.status = "COMPLETE" PROVE ListingAccounted
    BY DEF ListingAccounted
  <2>1. SiteTrue /\ RequestTrue /\ PagerTrue /\ CountsTrue /\ request = None /\ TotalMatches
    BY <1>1 DEF ListingInv, RequestTrue, PagerTrue
  <2>2. CASE pager \in OneTotal
    BY <2>1, <2>2, CountedAccounts DEF CountsTrue
  <2>3. CASE pager \in ByLink
    BY <2>1, <2>3, LinkedAccounts DEF PagerTrue
  <2>4. CASE pager \in {"SEEN", "COURTS", "SURFACES"}
    <3>1. PaidFor(1) /\ PaidFor(2)
      BY <2>1, <2>4 DEF CountsTrue, SeenSoFar, Summed, SectionsLeft
    <3> QED
      BY <2>1, <2>4, <3>1, SectionsAccount
  <2>5. CASE pager = "FILTER"
    <3>1. OwnAdverts = Part(1) /\ pager \notin OneSurface /\ Replaced = withdrawn /\ Shuffled = 0
      BY <2>5 DEF OwnAdverts, Part, OneSurface, Replaced, Shuffled, ByLink
    <3>2. Filtered
      BY <2>1, <2>5 DEF CountsTrue
    <3>3. /\ Cardinality((listing.steady \cap Part(1)) \ found) <= Cardinality(withdrawn)
          /\ Cardinality(found \ Part(1)) <= Cardinality(withdrawn)
      BY <2>1, <3>2 DEF Filtered
    <3>4. Cardinality(withdrawn) + Shuffled = Cardinality(withdrawn)
      <4>1. withdrawn \in SUBSET Advert
        BY <2>1 DEF SiteTrue
      <4>2. Cardinality(withdrawn) \in Nat
        BY <4>1, Counts
      <4> QED
        BY <3>1, <4>2
    <3> QED
      BY <3>1, <3>3, <3>4 DEF ListingAccounted
  <2> QED
    BY <2>1, <2>2, <2>3, <2>4, <2>5, DiscoveryAssumption DEF RequestTrue, OneTotal, OneSurface, ByLink
<1> QED
  BY <1>1, ListingInvariant, PTL

-----------------------------------------------------------------------------
(* The details.                                                            *)

\* What a posting says at one time.
Said == [title: Title, text: [of: Posting, version: Nat]]

\* What a posting says is among what it has said; an entry of the listing is one of these.
SaidSoFar ==
    /\ advert \in [Posting -> Said]
    /\ told \in [Posting -> SUBSET Said]
    /\ \A p \in Posting : advert[p] \in told[p]
    /\ DOMAIN row \subseteq Posting
    /\ \A p \in DOMAIN row : row[p] \in told[p]

\* Addresses lead to postings, and what is still to be fetched is listed.
Listed ==
    /\ leads \in [Posting -> Posting]
    /\ queue \in Seq(DOMAIN row)
    /\ rule \in Rules
    /\ silent \subseteq Posting

\* One record tells what its posting said, or one page of a posting that is taken for it.
Tells(r) == WordsOf(r, r.id) \/ \E q \in Confused(r.id) : OnePage(r, r.id, q)

\* A record of the run.
Made == [id: DOMAIN row, title: Title, text: [of: Posting, version: Nat]]

\* The records are well typed, and each tells its advert.
Recorded ==
    /\ recorded \in Seq(Made)
    /\ \A k \in DOMAIN recorded : Tells(recorded[k])

DetailInv == SaidSoFar /\ Listed /\ Recorded

\* The listing was just read.
LEMMA DetailInitInv == DetailInit => DetailInv
<1> SUFFICES ASSUME DetailInit PROVE DetailInv
  OBVIOUS
<1>1. PICK t \in [Posting -> Title] :
          advert = [p \in Posting |-> [title |-> t[p], text |-> [of |-> p, version |-> 0]]]
  BY DEF DetailInit
<1>2. PICK listed \in SUBSET Posting : row = [p \in listed |-> advert[p]] /\ queue \in SetToSeqs(listed)
  BY DEF DetailInit
<1>3. SaidSoFar
  BY <1>1, <1>2 DEF SaidSoFar, Said, DetailInit
<1>4. queue \in Seq(DOMAIN row)
  <2>1. Cardinality(listed) \in Nat
    BY DetailAssumption, FS_Subset, FS_CardinalityType
  <2>2. queue \in [1..Cardinality(listed) -> listed]
    BY <1>2 DEF SetToSeqs
  <2> QED
    BY <1>2, <2>1, <2>2
<1> QED
  BY <1>3, <1>4 DEF DetailInit, DetailInv, Listed, Recorded

\* The postings that are taken for another are postings.
LEMMA ConfusedPostings ==
    ASSUME DetailInv, NEW p
    PROVE  Confused(p) \subseteq Posting
<1>1. rule.id \in {"EXACT", "CONTAINED", "IF_TOLD", "NONE"}
  BY DEF DetailInv, Listed, Rules, Compares, UmantisDetail, StGallenDetail, BaselDetail,
     MirrorDetail, MirroredDetail, ThurgauDetail, ReflineDetail, StGallenCityDetail,
     ZurichCityDetail, WinterthurDetail, ApprenticeshipDetail, CourtDetail, SoliqueDetail,
     JsonLdDetail
<1> QED
  BY <1>1 DEF Confused, DetailInv, Listed

\* No adapter takes the text of a record from the entry and the title from the page.
LEMMA TextWithTitle ==
    ASSUME rule \in Rules, NEW taken \in rule.fromRow
    PROVE  taken = {} \/ taken = {"title"} \/ taken = {"title", "text"}
BY DEF Rules, Compares, PageTells, PageMayTell, UmantisDetail, StGallenDetail, BaselDetail,
   MirrorDetail, MirroredDetail, ThurgauDetail, ReflineDetail, StGallenCityDetail,
   ZurichCityDetail, WinterthurDetail, ApprenticeshipDetail, CourtDetail, SoliqueDetail,
   JsonLdDetail

\* A record is made of what the posting says now or of its entry, or of the page of a posting
\* that is taken for it.
LEMMA RecordTells ==
    ASSUME DetailInv, NEW p \in DOMAIN row, NEW taken \in rule.fromRow,
           Identified(p, leads[p]), Titled(p, leads[p], taken)
    PROVE  Record(p, leads[p], taken) \in Made /\ Tells(Record(p, leads[p], taken))
<1> DEFINE shown == leads[p]
           r == Record(p, shown, taken)
<1>1. p \in Posting /\ shown \in Posting /\ row[p] \in told[p] /\ row[p] \in Said
  BY DEF DetailInv, SaidSoFar, Listed
<1>2. advert[shown] \in told[shown] /\ advert[shown] \in Said
  BY <1>1 DEF DetailInv, SaidSoFar
<1>3. /\ r.id = p
      /\ r.title = (IF "title" \in taken THEN row[p].title ELSE advert[shown].title)
      /\ r.text = (IF "text" \in taken THEN row[p].text ELSE advert[shown].text)
  BY DEF Record
<1>4. r \in Made
  BY <1>1, <1>2 DEF Record, Said, Made
<1>5. taken = {} \/ taken = {"title"} \/ taken = {"title", "text"}
  BY TextWithTitle DEF DetailInv, Listed
<1> HIDE DEF r
<1>6. CASE shown = p
  <2>1. WordsOf(r, r.id)
    BY <1>1, <1>2, <1>3, <1>6 DEF WordsOf
  <2> QED
    BY <1>4, <2>1 DEF Tells, r
<1>7. CASE taken = {"title", "text"}
  <2>1. r.title = row[p].title /\ r.text = row[p].text
    BY <1>3, <1>7
  <2>2. WordsOf(r, r.id)
    BY <1>1, <1>3, <2>1 DEF WordsOf
  <2> QED
    BY <1>4, <2>2 DEF Tells, r
<1>8. CASE shown \in Confused(p) /\ "text" \notin taken
  <2>1. r.text = advert[shown].text
    BY <1>3, <1>8
  <2>2. CASE "title" \in taken
    <3>1. r.title = row[p].title
      BY <1>3, <2>2
    <3>2. OnePage(r, p, shown)
      BY <1>2, <2>1, <3>1 DEF OnePage
    <3> QED
      BY <1>3, <1>4, <1>8, <3>2 DEF Tells, r
  <2>3. CASE "title" \notin taken
    <3>1. r.title = advert[shown].title
      BY <1>3, <2>3
    <3>2. rule.title = "ANY" \/ Fits(advert[shown].title, row[p].title)
      BY <2>3 DEF Titled
    <3>3. OnePage(r, p, shown)
      BY <1>2, <2>1, <3>1, <3>2 DEF OnePage
    <3> QED
      BY <1>3, <1>4, <1>8, <3>3 DEF Tells, r
  <2> QED
    BY <2>2, <2>3
<1> QED
  BY <1>5, <1>6, <1>7, <1>8 DEF Identified

\* What a record tells it tells for good: what was said is not unsaid.
LEMMA TellsStays ==
    ASSUME NEW r, Tells(r), DetailInv, r.id \in DOMAIN row, UNCHANGED <<rule, silent, row>>,
           \A p \in Posting : told[p] \subseteq told'[p]
    PROVE  Tells(r)'
<1>1. r.id \in Posting
  BY DEF DetailInv, SaidSoFar
<1>2. CASE WordsOf(r, r.id)
  BY <1>1, <1>2 DEF WordsOf, Tells
<1>3. ASSUME NEW q \in Confused(r.id), OnePage(r, r.id, q)
      PROVE  Tells(r)'
  <2>1. q \in Posting /\ q \in Confused(r.id)'
    BY <1>3, ConfusedPostings DEF Confused
  <2>2. OnePage(r, r.id, q)'
    BY <1>3, <2>1 DEF OnePage, Fits
  <2> QED
    BY <2>1, <2>2 DEF Tells
<1> QED
  BY <1>2, <1>3 DEF Tells

\* Records made before a rewrite or a redirect still tell their advert after it.
LEMMA RecordedStays ==
    ASSUME DetailInv, UNCHANGED <<rule, silent, row, recorded>>,
           \A p \in Posting : told[p] \subseteq told'[p]
    PROVE  Recorded'
<1>1. recorded' \in Seq(Made) /\ Made' = Made
  BY DEF DetailInv, Recorded, Made
<1>2. \A k \in DOMAIN recorded : recorded[k] \in Made /\ recorded[k].id \in DOMAIN row
  <2>1. \A S : \A seq \in Seq(S) : \A k \in DOMAIN seq : seq[k] \in S
    OBVIOUS
  <2>2. \A k \in DOMAIN recorded : recorded[k] \in Made
    BY <2>1 DEF DetailInv, Recorded
  <2> QED
    BY <2>2 DEF Made
<1>3. \A k \in DOMAIN recorded : Tells(recorded[k])'
  BY <1>2, TellsStays DEF DetailInv, Recorded
<1> QED
  BY <1>1, <1>3 DEF Recorded

\* Every step of the details loop and of the source keeps the invariant.
LEMMA DetailStep == DetailInv /\ [DetailNext]_detailVars => DetailInv'
<1> SUFFICES ASSUME DetailInv, [DetailNext]_detailVars PROVE DetailInv'
  OBVIOUS
<1>1. CASE UNCHANGED <<advert, leads, told, rule, silent, row, queue, recorded>>
  <2>1. Recorded'
    BY <1>1, RecordedStays
  <2> QED
    BY <1>1, <2>1 DEF DetailInv, SaidSoFar, Listed
<1>2. CASE FetchDetail
  <2> DEFINE p == Head(queue)
  <2>1. p \in DOMAIN row /\ Tail(queue) \in Seq(DOMAIN row)
    BY <1>2 DEF FetchDetail, DetailInv, Listed
  <2>2. PICK taken \in rule.fromRow :
            \/ /\ Identified(p, leads[p]) /\ Titled(p, leads[p], taken)
               /\ recorded' = Append(recorded, Record(p, leads[p], taken))
               /\ queue' = Tail(queue)
            \/ UNCHANGED <<recorded, queue>>
    BY <1>2 DEF FetchDetail
  <2>3. UNCHANGED <<advert, leads, told, rule, silent, row>>
    BY <1>2 DEF FetchDetail
  <2>4. CASE UNCHANGED <<recorded, queue>>
    BY <1>1, <2>3, <2>4
  <2>5. CASE /\ Identified(p, leads[p]) /\ Titled(p, leads[p], taken)
             /\ recorded' = Append(recorded, Record(p, leads[p], taken))
             /\ queue' = Tail(queue)
    <3>1. Record(p, leads[p], taken) \in Made /\ Tells(Record(p, leads[p], taken))
      BY <2>1, <2>5, RecordTells
    <3>2. recorded' \in Seq(Made) /\ \A k \in DOMAIN recorded' : Tells(recorded'[k])
      BY <2>5, <3>1 DEF DetailInv, Recorded
    <3>3. Made' = Made /\ \A r : Tells(r)' = Tells(r)
      BY <2>3 DEF Made, Tells, WordsOf, Confused, OnePage, Fits
    <3>4. Recorded'
      BY <3>2, <3>3 DEF Recorded
    <3> QED
      BY <2>1, <2>3, <2>5, <3>4 DEF DetailInv, SaidSoFar, Listed
  <2> QED
    BY <2>2, <2>4, <2>5
<1>3. ASSUME NEW p \in Posting, NEW t \in Title, Rewrite(p, t)
      PROVE  DetailInv'
  <2>1. /\ advert' = [advert EXCEPT ![p].title = t, ![p].text.version = @ + 1]
        /\ told' = [told EXCEPT ![p] = @ \cup {advert'[p]}]
        /\ UNCHANGED <<leads, rule, silent, row, queue, recorded>>
    BY <1>3 DEF Rewrite
  <2>2. advert' \in [Posting -> Said] /\ \A q \in Posting : q # p => advert'[q] = advert[q]
    BY <2>1 DEF DetailInv, SaidSoFar, Said
  <2>3. told' \in [Posting -> SUBSET Said] /\ advert'[p] \in told'[p]
        /\ \A q \in Posting : told[q] \subseteq told'[q]
    BY <2>1, <2>2 DEF DetailInv, SaidSoFar
  <2>4. SaidSoFar'
    BY <2>1, <2>2, <2>3 DEF DetailInv, SaidSoFar
  <2>5. Recorded'
    BY <2>1, <2>3, RecordedStays
  <2> QED
    BY <2>1, <2>4, <2>5 DEF DetailInv, Listed
<1>4. ASSUME NEW p \in Posting, NEW q \in Posting, Redirect(p, q)
      PROVE  DetailInv'
  <2>1. leads' = [leads EXCEPT ![p] = q] /\ UNCHANGED <<advert, told, rule, silent, row, queue, recorded>>
    BY <1>4 DEF Redirect
  <2>2. Recorded'
    BY <2>1, RecordedStays
  <2> QED
    BY <2>1, <2>2 DEF DetailInv, SaidSoFar, Listed
<1> QED
  BY <1>1, <1>2, <1>3, <1>4 DEF DetailNext, DetailFails, FinishDetails, detailVars

\* Entries and records are things that postings have said.
THEOREM DetailsInvariant == DetailSpec => []DetailInv
BY DetailInitInv, DetailStep, PTL DEF DetailSpec

\* What is recorded under an identity is what that posting said while the run went on, or one
\* page of a posting that its adapter cannot tell from it.
THEOREM RecordsAlwaysTell == DetailSpec => []RecordsTellTheirAdvert
<1>1. DetailInv => RecordsTellTheirAdvert
  BY DEF DetailInv, Recorded, Tells, RecordsTellTheirAdvert, ToSet
<1> QED
  BY <1>1, DetailsInvariant, PTL

-----------------------------------------------------------------------------
(* The geocoder.                                                           *)

\* A batch has its locals in every state.
Shaped ==
    /\ DOMAIN batch = Resolver
    /\ \A b \in Resolver :
           DOMAIN batch[b] = {"pc", "todo", "read", "rows", "entries", "holds", "answer", "failure"}

\* An advisory lock has one holder.
OneHolder ==
    \A b, c \in Resolver : \A l \in batch[b].holds \cap batch[c].holds : b = c

\* The batch that has or makes the entry of a request holds the lock of the request, and
\* between the look at the cache and the entry nobody has made one.
RequestsLocked ==
    \A b \in Resolver :
        /\ \A e \in batch[b].entries : CacheLock(e.request) \in batch[b].holds
        /\ batch[b].pc \in {"FETCH", "STORE"} =>
               CacheLock(Asked(b)) \in batch[b].holds /\ Entry(b) = {}

\* What a batch sees of the cache, its own entries included, has one answer of a request.
OneEntry ==
    /\ \A e, f \in cache : e.request = f.request => e.answer = f.answer
    /\ \A b \in Resolver : \A e, f \in cache \cup batch[b].entries :
           e.request = f.request => e.answer = f.answer

\* A row rests on an entry that whoever sees the row sees as well.
RowsRest ==
    /\ \A r \in resolution : r.request # None =>
           \E e \in cache : e.request = r.request /\ e.answer = r.answer
    /\ \A b \in Resolver : \A r \in batch[b].rows : r.request # None =>
           \E e \in cache \cup batch[b].entries : e.request = r.request /\ e.answer = r.answer

\* Entries have their objects, and an object has the key of its bytes.
ObjectsKept ==
    /\ cache \subseteq objects
    /\ \A b \in Resolver : batch[b].entries \subseteq objects
    /\ \A x \in objects : x.key = ObjectKey(x.request, x.answer)

GeoInv ==
    /\ Shaped /\ OneHolder /\ RequestsLocked /\ OneEntry /\ RowsRest
    /\ ObjectsKept /\ LeftoversHarmless

\* The geocoder starts without rows, entries and locks.
LEMMA GeoInitInv == GeoInit => GeoInv
BY DEF GeoInit, GeoInv, NoBatch, Shaped, OneHolder, RequestsLocked, OneEntry, RowsRest, ObjectsKept,
       LeftoversHarmless

\* A batch without rows, entries and locks.
Blank(x) ==
    /\ DOMAIN x = DOMAIN NoBatch
    /\ x.rows = {} /\ x.entries = {} /\ x.holds = {}
    /\ x.pc \notin {"FETCH", "STORE"} /\ x.failure # "RAW_CONFLICT"

\* All locals of a batch are given new values.
Reset(b, x) == batch' = [batch EXCEPT ![b] = x]

\* A transaction that ends, or begins, holds nothing and has made nothing.
LEMMA BlankBatch ==
    ASSUME GeoInv, NEW b \in Resolver, NEW blank, Blank(blank), Reset(b, blank),
           UNCHANGED objects,
           \/ UNCHANGED <<cache, resolution>>
           \/ /\ cache' = cache \cup batch[b].entries
              /\ resolution' = resolution \cup batch[b].rows
    PROVE  GeoInv'
<1>1. /\ batch'[b] = blank /\ \A c \in Resolver : c # b => batch'[c] = batch[c]
      /\ DOMAIN batch' = Resolver
  BY DEF GeoInv, Shaped, Reset
<1> USE DEF Blank
<1>2. Shaped'
  BY <1>1 DEF GeoInv, Shaped, NoBatch
<1>3. OneHolder'
  BY <1>1 DEF GeoInv, OneHolder
<1>4. RequestsLocked'
  BY <1>1 DEF GeoInv, OneHolder, RequestsLocked, Entry, Asked, Current
<1>5. OneEntry'
  BY <1>1 DEF GeoInv, OneHolder, RequestsLocked, OneEntry
<1>6. RowsRest'
  BY <1>1 DEF GeoInv, RowsRest
<1>7. ObjectsKept'
  BY <1>1 DEF GeoInv, ObjectsKept
<1>8. LeftoversHarmless'
  BY <1>1 DEF GeoInv, LeftoversHarmless
<1> QED
  BY <1>2, <1>3, <1>4, <1>5, <1>6, <1>7, <1>8 DEF GeoInv

\* A batch keeps the invariant when it takes free locks, makes entries of requests that it
\* has locked and that have none, and rows that rest on what it sees.
LEMMA AdvanceKeeps ==
    ASSUME GeoInv, NEW b \in Resolver, NEW R, NEW E, NEW L, Advance(b, R, E, L),
           \A l \in L : \A c \in Resolver : c # b => l \notin batch[c].holds,
           \A e \in E : CacheLock(e.request) \in batch[b].holds \cup L,
           \A e, f \in cache \cup batch[b].entries \cup E :
               e.request = f.request => e.answer = f.answer,
           \A r \in R : r.request # None => \E e \in cache \cup batch[b].entries \cup E :
               e.request = r.request /\ e.answer = r.answer,
           E \subseteq objects', objects \subseteq objects',
           \A x \in objects' : x.key = ObjectKey(x.request, x.answer),
           UNCHANGED <<cache, resolution>>
    PROVE  GeoInv'
<1>1. /\ batch'[b].pc = "RESOLUTION"
      /\ batch'[b].rows = batch[b].rows \cup R
      /\ batch'[b].entries = batch[b].entries \cup E
      /\ batch'[b].holds = batch[b].holds \cup L
      /\ batch'[b].failure = batch[b].failure
      /\ \A c \in Resolver : c # b => batch'[c] = batch[c]
      /\ Shaped'
  <2> DEFINE x == batch[b]
             y == Advanced(x, R, E, L)
  <2>3. batch' = [batch EXCEPT ![b] = y]
    BY DEF Advance
  <2> HIDE DEF y
  <2>4. DOMAIN batch = Resolver /\ \A c \in Resolver : DOMAIN batch[c] = DOMAIN x
    BY DEF GeoInv, Shaped
  <2>5. /\ DOMAIN batch' = Resolver /\ batch'[b] = y
        /\ \A c \in Resolver : c # b => batch'[c] = batch[c]
    BY <2>3, <2>4
  <2>6. DOMAIN x = {"pc", "todo", "read", "rows", "entries", "holds", "answer", "failure"}
    BY DEF GeoInv, Shaped
  <2>7. DOMAIN y = DOMAIN x
    BY DEF y, Advanced
  <2>8. /\ y.pc = "RESOLUTION" /\ y.rows = x.rows \cup R /\ y.entries = x.entries \cup E
        /\ y.holds = x.holds \cup L /\ y.failure = x.failure
    BY <2>6 DEF y, Advanced
  <2>9. Shaped'
    BY <2>4, <2>5, <2>6, <2>7 DEF Shaped
  <2> QED
    BY <2>5, <2>8, <2>9
<1>2. OneHolder'
  BY <1>1 DEF GeoInv, OneHolder
<1>3. RequestsLocked'
  BY <1>1 DEF GeoInv, RequestsLocked, Entry, Asked, Current
<1>4. OneEntry'
  BY <1>1 DEF GeoInv, OneEntry
<1>5. RowsRest'
  <2>1. \A r \in batch'[b].rows : r.request # None =>
            \E e \in cache' \cup batch'[b].entries : e.request = r.request /\ e.answer = r.answer
    BY <1>1 DEF GeoInv, RowsRest
  <2> QED
    BY <1>1, <2>1 DEF GeoInv, RowsRest
<1>6. ObjectsKept'
  BY <1>1 DEF GeoInv, ObjectsKept
<1>7. LeftoversHarmless'
  BY <1>1 DEF GeoInv, LeftoversHarmless
<1> QED
  BY <1>1, <1>2, <1>3, <1>4, <1>5, <1>6, <1>7 DEF GeoInv

\* The place of a batch, what it read and was answered, and its locks.
Placed(b, pc, read, answer, L) ==
    /\ Shaped'
    /\ \A c \in Resolver : c # b => batch'[c] = batch[c]
    /\ batch'[b].pc = pc /\ batch'[b].read = read /\ batch'[b].answer = answer
    /\ batch'[b].holds = batch[b].holds \cup L
    /\ batch'[b].todo = batch[b].todo /\ batch'[b].rows = batch[b].rows
    /\ batch'[b].entries = batch[b].entries /\ batch'[b].failure = batch[b].failure

\* A batch keeps the invariant when only its place, what it read, what it was answered and
\* its locks change, and it looked at the cache before it goes on to the provider.
LEMMA PlaceKeeps ==
    ASSUME GeoInv, NEW b \in Resolver, NEW pc, NEW read, NEW answer, NEW L,
           Placed(b, pc, read, answer, L),
           \A l \in L : \A c \in Resolver : c # b => l \notin batch[c].holds,
           pc \in {"FETCH", "STORE"} => /\ read = batch[b].read
                                        /\ CacheLock(Asked(b)) \in batch[b].holds \cup L
                                        /\ Entry(b) = {},
           UNCHANGED <<cache, resolution, objects>>
    PROVE  GeoInv'
<1>1. /\ batch'[b].pc = pc /\ batch'[b].read = read /\ batch'[b].todo = batch[b].todo
      /\ batch'[b].rows = batch[b].rows
      /\ batch'[b].entries = batch[b].entries
      /\ batch'[b].holds = batch[b].holds \cup L
      /\ batch'[b].failure = batch[b].failure
      /\ \A c \in Resolver : c # b => batch'[c] = batch[c]
      /\ Shaped'
  BY DEF Placed
<1>2. OneHolder'
  BY <1>1 DEF GeoInv, OneHolder
<1>3. RequestsLocked'
  <2>1. ASSUME pc \in {"FETCH", "STORE"} PROVE Asked(b)' = Asked(b) /\ Entry(b)' = Entry(b)
    BY <1>1, <2>1 DEF Asked, Current, Entry
  <2>2. \A c \in Resolver : c # b => Asked(c)' = Asked(c) /\ Entry(c)' = Entry(c)
    BY <1>1 DEF Asked, Current, Entry
  <2>3. \A c \in Resolver : \A e \in batch'[c].entries : CacheLock(e.request) \in batch'[c].holds
    BY <1>1 DEF GeoInv, RequestsLocked
  <2>4. ASSUME NEW c \in Resolver, batch'[c].pc \in {"FETCH", "STORE"}
        PROVE  CacheLock(Asked(c)') \in batch'[c].holds /\ Entry(c)' = {}
    <3>1. CASE c = b
      BY <1>1, <2>1, <2>4, <3>1
    <3>2. CASE c # b
      BY <1>1, <2>2, <2>4, <3>2 DEF GeoInv, RequestsLocked
    <3> QED
      BY <3>1, <3>2
  <2> QED
    BY <2>3, <2>4 DEF RequestsLocked, CacheLock
<1>4. \A c \in Resolver : /\ batch'[c].rows = batch[c].rows
                          /\ batch'[c].entries = batch[c].entries
                          /\ batch'[c].failure = batch[c].failure
  BY <1>1
<1>5. OneEntry'
  BY <1>4 DEF GeoInv, OneEntry
<1>6. RowsRest'
  BY <1>4 DEF GeoInv, RowsRest
<1>7. ObjectsKept' /\ LeftoversHarmless'
  BY <1>4 DEF GeoInv, ObjectsKept, LeftoversHarmless
<1> QED
  BY <1>1, <1>2, <1>3, <1>5, <1>6, <1>7 DEF GeoInv

\* A rollback, which leaves objects behind, keeps the invariant.
LEMMA RollbackKeeps ==
    ASSUME GeoInv, NEW b \in Resolver, NEW failure, failure # "RAW_CONFLICT",
           Rollback(b, failure), UNCHANGED <<cache, resolution, objects>>
    PROVE  GeoInv'
<1> DEFINE blank == [NoBatch EXCEPT !.failure = failure]
<1>1. Blank(blank)
  BY DEF Blank, NoBatch
<1>2. Reset(b, blank)
  BY DEF Rollback, Reset
<1> HIDE DEF blank
<1> QED
  BY <1>1, <1>2, BlankBatch

\* A target is taken up under its lock: a row there already, one without a request, or a
\* request to look up.
LEMMA LockResolutionKeeps ==
    ASSUME GeoInv, NEW b \in Resolver, LockResolution(b)
    PROVE  GeoInv'
<1> DEFINE t == Current(b)
           there == {r \in resolution : r.target = t}
           m == material[t[1]]
           lock == ResolutionLock(t)
<1>1. \A c \in Resolver : c # b => lock \notin batch[c].holds
  BY DEF LockResolution, Free, Blocks, Wanted
<1>2. UNCHANGED <<cache, resolution, objects>>
  BY DEF LockResolution
<1>3. \/ Rollback(b, "FAILED")
      \/ Advance(b, {}, {}, {lock})
      \/ Advance(b, {Row(t, m, None)}, {}, {lock})
      \/ batch' = [batch EXCEPT ![b].pc = "CACHE", ![b].read = m, ![b].holds = @ \cup {lock}]
  BY DEF LockResolution
<1>4. CASE Rollback(b, "FAILED")
  BY <1>2, <1>4, RollbackKeeps
<1>5. CASE Advance(b, {}, {}, {lock})
  BY <1>1, <1>2, <1>5, AdvanceKeeps DEF GeoInv, OneEntry, ObjectsKept
<1>6. CASE Advance(b, {Row(t, m, None)}, {}, {lock})
  <2>1. Row(t, m, None).request = None
    BY DEF Row
  <2> QED
    BY <1>1, <1>2, <1>6, <2>1, AdvanceKeeps DEF GeoInv, OneEntry, ObjectsKept
<1>7. CASE batch' = [batch EXCEPT ![b].pc = "CACHE", ![b].read = m, ![b].holds = @ \cup {lock}]
  <2>1. Placed(b, "CACHE", m, batch[b].answer, {lock})
    BY <1>7 DEF GeoInv, Shaped, Placed
  <2>2. "CACHE" \notin {"FETCH", "STORE"} /\ \A l \in {lock} : l = lock
    OBVIOUS
  <2> HIDE DEF lock, m
  <2> QED
    BY <1>1, <1>2, <2>1, <2>2, PlaceKeeps
<1> QED
  BY <1>3, <1>4, <1>5, <1>6, <1>7

\* The cache is read under the lock of the request; an entry has its object.
LEMMA LockCacheKeeps ==
    ASSUME GeoInv, NEW b \in Resolver, LockCache(b)
    PROVE  GeoInv'
<1> DEFINE lock == CacheLock(Asked(b))
<1>1. \A c \in Resolver : c # b => lock \notin batch[c].holds
  BY DEF LockCache, Free, Blocks, Wanted
<1>2. UNCHANGED <<cache, resolution, objects>>
  BY DEF LockCache
<1>3. \A e \in Entry(b) : e \in objects
  BY DEF GeoInv, ObjectsKept, Entry
<1>4. \/ /\ Entry(b) = {}
         /\ batch' = [batch EXCEPT ![b].pc = "FETCH", ![b].holds = @ \cup {lock}]
      \/ \E e \in Entry(b) : Advance(b, {Resolved(b, e.answer)}, {}, {lock})
  BY <1>3 DEF LockCache
<1>5. CASE /\ Entry(b) = {}
           /\ batch' = [batch EXCEPT ![b].pc = "FETCH", ![b].holds = @ \cup {lock}]
  <2>1. Placed(b, "FETCH", batch[b].read, batch[b].answer, {lock})
    BY <1>5 DEF GeoInv, Shaped, Placed
  <2> QED
    BY <1>1, <1>2, <1>5, <2>1, PlaceKeeps
<1>6. ASSUME NEW e \in Entry(b), Advance(b, {Resolved(b, e.answer)}, {}, {lock})
      PROVE  GeoInv'
  <2> DEFINE r == Resolved(b, e.answer)
  <2>1. r.request # None => r.request = Asked(b) /\ r.answer = e.answer
    BY DEF Resolved, Row, Asked
  <2>2. e \in cache \cup batch[b].entries /\ e.request = Asked(b)
    BY DEF Entry
  <2> HIDE DEF r, lock
  <2> QED
    BY <1>1, <1>2, <1>6, <2>1, <2>2, AdvanceKeeps DEF GeoInv, OneEntry, ObjectsKept, r
<1> QED
  BY <1>4, <1>5, <1>6

\* The lock is kept while the provider is asked.
LEMMA FetchKeeps ==
    ASSUME GeoInv, NEW b \in Resolver, Fetch(b)
    PROVE  GeoInv'
<1>1. PICK a \in Answers : batch' = [batch EXCEPT ![b].pc = "STORE", ![b].answer = a]
  BY DEF Fetch
<1>2. Placed(b, "STORE", batch[b].read, a, {})
  BY <1>1 DEF GeoInv, Shaped, Placed
<1>3. CacheLock(Asked(b)) \in batch[b].holds /\ Entry(b) = {}
  BY DEF Fetch, GeoInv, RequestsLocked
<1>4. UNCHANGED <<cache, resolution, objects>>
  BY DEF Fetch
<1> QED
  BY <1>2, <1>3, <1>4, PlaceKeeps

\* An answer gets its object, whatever earlier batches left, and the first entry of its request.
LEMMA StoreKeeps ==
    ASSUME GeoInv, NEW b \in Resolver, Store(b)
    PROVE  GeoInv'
<1> DEFINE answer == batch[b].answer
           object == [key |-> ObjectKey(Asked(b), answer), request |-> Asked(b), answer |-> answer]
           r == Resolved(b, answer)
<1>1. /\ object.request = Asked(b) /\ object.answer = answer
      /\ object.key = ObjectKey(object.request, object.answer)
  OBVIOUS
<1>2. \A x \in objects : x.key = object.key => x.answer = answer
  BY <1>1 DEF GeoInv, ObjectsKept, ObjectKey
<1>3. /\ Advance(b, {r}, {object}, {})
      /\ objects' = objects \cup {object}
      /\ UNCHANGED <<cache, resolution>>
  BY <1>2 DEF Store
<1>4. CacheLock(Asked(b)) \in batch[b].holds /\ Entry(b) = {}
  BY DEF Store, GeoInv, RequestsLocked
<1>5. r.request # None => r.request = Asked(b) /\ r.answer = answer
  BY DEF Resolved, Row, Asked
<1> HIDE DEF object, r, answer
<1>6. \A e \in {object} : CacheLock(e.request) \in batch[b].holds \cup {}
  BY <1>1, <1>4
<1>7. \A e, f \in cache \cup batch[b].entries \cup {object} :
          e.request = f.request => e.answer = f.answer
  <2>1. \A e \in cache \cup batch[b].entries : e.request # object.request
    BY <1>1, <1>4 DEF Entry
  <2>2. \A e, f \in cache \cup batch[b].entries : e.request = f.request => e.answer = f.answer
    BY DEF GeoInv, OneEntry
  <2> QED
    BY <2>1, <2>2
<1>8. \A x \in objects' : x.key = ObjectKey(x.request, x.answer)
  BY <1>1, <1>3 DEF GeoInv, ObjectsKept
<1> QED
  BY <1>1, <1>3, <1>5, <1>6, <1>7, <1>8, AdvanceKeeps

\* A commit shows entries of requests that no other batch has locked.
LEMMA CommitBatchKeeps ==
    ASSUME GeoInv, NEW b \in Resolver, CommitBatch(b)
    PROVE  GeoInv'
<1>1. Blank(NoBatch)
  BY DEF Blank, NoBatch
<1>2. Reset(b, NoBatch)
  BY DEF CommitBatch, Reset
<1> QED
  BY <1>1, <1>2, BlankBatch DEF CommitBatch

\* A batch begins with nothing.
LEMMA BeginKeeps ==
    ASSUME GeoInv, NEW b \in Resolver, NEW targets, Begin(b, targets)
    PROVE  GeoInv'
<1> DEFINE blank == [NoBatch EXCEPT !.pc = "RESOLUTION", !.todo = targets]
<1>1. Blank(blank)
  BY DEF Blank, NoBatch
<1>2. Reset(b, blank) /\ UNCHANGED <<objects, cache, resolution>>
  BY DEF Begin, Reset
<1> HIDE DEF blank
<1> QED
  BY <1>1, <1>2, BlankBatch

\* Every step keeps the invariant of the geocoder.
LEMMA GeoStepKeeps == GeoInv /\ [GeoNext]_geoVars => GeoInv'
<1> SUFFICES ASSUME GeoInv, [GeoNext]_geoVars PROVE GeoInv'
  OBVIOUS
<1>1. CASE UNCHANGED <<resolution, cache, objects, batch>>
  BY <1>1 DEF GeoInv, Shaped, OneHolder, RequestsLocked, OneEntry, RowsRest, ObjectsKept,
       LeftoversHarmless, Entry, Asked, Current
<1>2. ASSUME NEW b \in Resolver, GeoStep(b) \/ Fail(b) PROVE GeoInv'
  <2>1. "FAILED" # "RAW_CONFLICT"
    OBVIOUS
  <2>2. CASE Fail(b) \/ BreakDeadlock(b)
    BY <2>1, <2>2, RollbackKeeps DEF Fail, BreakDeadlock
  <2> QED
    BY <1>2, <2>2, LockResolutionKeeps, LockCacheKeeps, FetchKeeps, StoreKeeps, CommitBatchKeeps
       DEF GeoStep
<1>3. ASSUME NEW o \in Observation, ImportDirectory(o) PROVE GeoInv'
  BY <1>1, <1>3 DEF ImportDirectory
<1> QED
  BY <1>1, <1>2, <1>3, BeginKeeps DEF GeoNext, geoVars

\* Locks exclude, entries are made under them, rows rest on entries and entries on objects.
THEOREM GeocoderInvariant == GeoSpec => []GeoInv
BY GeoInitInv, GeoStepKeeps, PTL DEF GeoSpec

\* Resolutions that rest on a request rest on the one answer that the cache has of it.
THEOREM RequestsHaveOneAnswer == GeoSpec => []OneAnswerPerRequest
<1>1. ASSUME GeoInv PROVE OneAnswerPerRequest
  <2> SUFFICES ASSUME NEW r \in resolution, r.request # None
               PROVE  {e.answer : e \in {x \in cache : x.request = r.request}} = {r.answer}
    BY DEF OneAnswerPerRequest
  <2>1. PICK f \in cache : f.request = r.request /\ f.answer = r.answer
    BY <1>1 DEF GeoInv, RowsRest
  <2>2. \A e \in cache : e.request = r.request => e.answer = f.answer
    BY <1>1, <2>1 DEF GeoInv, OneEntry
  <2> QED
    BY <2>1, <2>2
<1> QED
  BY <1>1, GeocoderInvariant, PTL

\* Objects that a rollback left in the RAW store fail no later batch.
THEOREM LeftoversNeverHarm == GeoSpec => []LeftoversHarmless
BY GeocoderInvariant, PTL DEF GeoInv

=============================================================================

