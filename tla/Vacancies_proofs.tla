--------------------------- MODULE Vacancies_proofs ---------------------------
(***************************************************************************)
(* Proofs about VacancyEpisodes and VacancyIdentity: what a vacancy is     *)
(* made of, and which postings are one vacancy, for all postings, cutoffs  *)
(* and kinds of evidence, any chronology, and any number of runs, people   *)
(* and decisions.                                                          *)
(***************************************************************************)
EXTENDS VacancyIdentity, VacancyEpisodes, WellFoundedInduction, FiniteSetTheorems, TLAPS

-----------------------------------------------------------------------------
(* The episodes of a vacancy.                                              *)

\* A set of numbers has a least one.
LEMMA LeastOne ==
    ASSUME NEW S \in SUBSET Nat, S # {}
    PROVE  Min(S) \in S /\ \A n \in S : Min(S) <= n
<1> DEFINE R == {z \in Nat \X Nat : z[1] < z[2]}
<1>1. IsWellFoundedOn(R, Nat)
  BY NatLessThanWellFounded DEF OpToRel
<1>2. \E x \in S : \A y \in S : <<y, x>> \notin R
  BY <1>1, WFMin
<1>3. PICK x \in S : \A y \in S : <<y, x>> \notin R
  BY <1>2
<1>4. ASSUME NEW y \in S PROVE x <= y
  <2>1. <<y, x>> \in Nat \X Nat /\ <<y, x>> \notin R
    BY <1>3
  <2>2. ~(y < x)
    BY <2>1
  <2> QED
    BY <2>2
<1> QED
  BY <1>4 DEF Min

\* A bounded set of numbers has a greatest one.
LEMMA GreatestOne ==
    ASSUME NEW S \in SUBSET Nat, S # {}, NEW b \in Nat, \A n \in S : n <= b
    PROVE  Max(S) \in S /\ \A n \in S : n <= Max(S)
<1> DEFINE T == {b - n : n \in S}
<1>1. ASSUME NEW n \in S PROVE b - n \in Nat
  OBVIOUS
<1>2. T \in SUBSET Nat /\ T # {}
  BY <1>1
<1>3. Min(T) \in T /\ \A u \in T : Min(T) <= u
  BY <1>2, LeastOne
<1>4. PICK m \in S : Min(T) = b - m
  BY <1>3
<1>5. ASSUME NEW n \in S PROVE n <= m
  <2>1. b - n \in T
    OBVIOUS
  <2>2. b - m <= b - n
    BY <1>3, <1>4, <2>1
  <2> QED
    BY <2>2
<1> QED
  BY <1>4, <1>5 DEF Max

\* An event of a posting.
Event == [posting: Advertised, type: {"NEW", "STILL_ACTIVE", "CLOSED_OBSERVED"}, at: Nat]

\* The chronology grows by events of today, and a posting is new first.
HistoryTrue ==
    /\ today \in Nat
    /\ history \in Seq(Event)
    /\ \A i, j \in DOMAIN history : i < j => history[i].at < history[j].at
    /\ \A i \in DOMAIN history : history[i].at <= today
    /\ \A i \in DOMAIN history : history[i].type # "NEW" =>
           \E j \in DOMAIN history : j < i /\ history[j].posting = history[i].posting

\* Events are what they are, and their positions are numbers.
LEMMA Positions ==
    ASSUME HistoryTrue
    PROVE  /\ DOMAIN history = 1..Len(history) /\ Len(history) \in Nat
           /\ \A i \in DOMAIN history : history[i] \in Event
           /\ \A P, c : /\ Seen(P, c) \in SUBSET Nat
                        /\ \A i \in Seen(P, c) : i <= Len(history) /\ i # 0
<1>1. DOMAIN history = 1..Len(history) /\ Len(history) \in Nat
  BY DEF HistoryTrue
<1>2. \A i \in DOMAIN history : history[i] \in Event
  BY DEF HistoryTrue
<1> QED
  BY <1>1, <1>2 DEF Seen

\* A posting is first seen when it is new, which is a sighting by any cutoff that has it.
LEMMA FirstIsNew ==
    ASSUME HistoryTrue, NEW STATE c, c \in Int, c <= today, NEW p \in Chosen(c)
    PROVE  \E i \in Sightings({p}, c) : FirstSeen(p) = history[i].at /\ FirstSeen(p) \in Nat
<1> DEFINE S == Seen({p}, today)
           m == Min(S)
<1>1. PICK k : k \in Seen({p}, c)
  BY DEF Chosen
<1>2. k \in S
  BY <1>1 DEF Seen, HistoryTrue
<1>3. S \in SUBSET Nat
  BY Positions
<1>4. m \in S /\ \A n \in S : m <= n
  BY <1>2, <1>3, LeastOne
<1> HIDE DEF m
<1>5. m \in DOMAIN history /\ history[m] \in Event /\ history[m].posting = p
  BY <1>4, Positions DEF Seen
<1>6. history[m].at <= c
  <2>1. m \in Nat /\ k \in Nat /\ m <= k
    BY <1>2, <1>3, <1>4
  <2>2. k \in DOMAIN history /\ history[k].at <= c /\ history[k] \in Event
    BY <1>1, Positions DEF Seen
  <2>3. CASE m = k
    BY <2>2, <2>3
  <2>4. CASE m < k
    <3>1. history[m].at < history[k].at
      BY <1>5, <2>2, <2>4 DEF HistoryTrue
    <3> QED
      BY <1>5, <2>2, <3>1 DEF Event
  <2> QED
    BY <2>1, <2>3, <2>4
<1>7. history[m].type = "NEW"
  <2> SUFFICES ASSUME history[m].type # "NEW" PROVE FALSE
    OBVIOUS
  <2>1. PICK j \in DOMAIN history : j < m /\ history[j].posting = p
    BY <1>5 DEF HistoryTrue
  <2>2. j \in S
    BY <2>1 DEF Seen, HistoryTrue
  <2> QED
    BY <1>3, <1>4, <2>1, <2>2
<1>8. m \in Sightings({p}, c)
  BY <1>5, <1>6, <1>7 DEF Sightings, Sighting, Seen
<1> QED
  BY <1>5, <1>8 DEF FirstSeen, m, Event

\* And last seen at a time.
LEMMA LastIsTime ==
    ASSUME HistoryTrue, NEW STATE c, c \in Int, c <= today, NEW p \in Chosen(c)
    PROVE  LastSeen(p, c) \in Nat /\ LastSeen(p, c) <= today
<1>1. Sightings({p}, c) # {}
  BY FirstIsNew
<1>2. Sightings({p}, c) \in SUBSET Nat /\ \A i \in Sightings({p}, c) : i <= Len(history)
  BY Positions DEF Sightings
<1>3. Max(Sightings({p}, c)) \in Sightings({p}, c)
  BY <1>1, <1>2, Positions, GreatestOne
<1>4. Max(Sightings({p}, c)) \in DOMAIN history
  BY <1>3 DEF Sightings, Seen
<1> QED
  BY <1>4, Positions DEF LastSeen, Event, HistoryTrue

\* The times of some postings of a cutoff.
LEMMA TimesOfGroup ==
    ASSUME HistoryTrue, NEW c \in Int, c <= today, NEW P, P \cap Chosen(c) # {}
    PROVE  /\ \E y \in Sightings(P, c) :
                  Min({FirstSeen(p) : p \in P \cap Chosen(c)}) = history[y].at
           /\ Min({FirstSeen(p) : p \in P \cap Chosen(c)}) \in Nat
           /\ Max({LastSeen(p, c) : p \in P \cap Chosen(c)}) \in Nat
<1> DEFINE F == {FirstSeen(p) : p \in P \cap Chosen(c)}
           L == {LastSeen(p, c) : p \in P \cap Chosen(c)}
<1>1. F \in SUBSET Nat /\ F # {}
  BY FirstIsNew
<1>2. Min(F) \in F
  BY <1>1, LeastOne
<1>3. PICK p \in P \cap Chosen(c) : Min(F) = FirstSeen(p)
  BY <1>2
<1>4. PICK y \in Sightings({p}, c) : FirstSeen(p) = history[y].at
  BY FirstIsNew
<1>5. y \in Sightings(P, c)
  BY <1>4 DEF Sightings, Seen
<1>6. L \in SUBSET Nat /\ L # {} /\ \A t \in L : t <= today
  BY LastIsTime
<1>7. Max(L) \in L
  BY <1>6, GreatestOne DEF HistoryTrue
<1> QED
  BY <1>1, <1>2, <1>3, <1>4, <1>5, <1>6, <1>7

\* The newest closure of a posting is one of its group.
LEMMA ClosureOfGroup ==
    ASSUME HistoryTrue, NEW c, NEW P, NEW p \in P
    PROVE  Closure(p, c) = 0 \/ Closure(p, c) \in Closures(P, c)
<1>1. Closures({p}, c) \in SUBSET Nat /\ \A i \in Closures({p}, c) : i <= Len(history)
  BY Positions DEF Closures
<1>2. Closures({p}, c) # {} => Max(Closures({p}, c)) \in Closures({p}, c)
  BY <1>1, Positions, GreatestOne
<1>3. Closures({p}, c) \subseteq Closures(P, c)
  BY DEF Closures, Seen
<1> QED
  BY <1>2, <1>3 DEF Closure

-----------------------------------------------------------------------------
\* An episode as the table holds it.
EpisodeRow ==
    [opened: Nat, last: Nat, closed: Nat \cup {None}, status: {"ACTIVE", "CLOSED_OBSERVED"}]

\* An episode opened with a sighting, after a closure that the one before had already opened by.
Opens(e, P, c) == \E y \in Sightings(P, c) : e.opened = history[y].at

\* The episode after it: one posting was closed no sooner than that, and then one was seen again.
Reopens(e, f, P, c) ==
    \E x \in Closures(P, c), y \in Sightings(P, c) :
        e.opened <= history[x].at /\ x < y /\ f.opened = history[y].at

\* Every episode opened so, none was closed before, and all but the last are closed.
EpisodesTrue(es, P, c) ==
    /\ \A k \in DOMAIN es : /\ Opens(es[k], P, c)
                            /\ es[k].closed # None => es[k].opened <= es[k].closed
    /\ \A k \in DOMAIN es : k < Len(es) => es[k].closed # None /\ Reopens(es[k], es[k + 1], P, c)

\* What was true of a group stays so of a larger one at a later cutoff.
LEMMA EpisodesStay ==
    ASSUME NEW es, NEW P, NEW Q, P \subseteq Q, NEW c \in Int, NEW d \in Int, c <= d, HistoryTrue,
           EpisodesTrue(es, P, c)
    PROVE  EpisodesTrue(es, Q, d)
<1>1. Seen(P, c) \subseteq Seen(Q, d)
  BY Positions DEF Seen, Event
<1>2. Sightings(P, c) \subseteq Sightings(Q, d) /\ Closures(P, c) \subseteq Closures(Q, d)
  BY <1>1 DEF Sightings, Closures
<1> QED
  BY <1>2 DEF EpisodesTrue, Opens, Reopens

\* Positions stand in the order of their times.
LEMMA InOrder ==
    ASSUME HistoryTrue, NEW i \in DOMAIN history, NEW j \in DOMAIN history
    PROVE  /\ i \in Nat /\ j \in Nat /\ history[i].at \in Nat /\ history[j].at \in Nat
           /\ i <= j => history[i].at <= history[j].at
           /\ i < j => history[i].at < history[j].at
<1>1. i \in Nat /\ j \in Nat /\ history[i].at \in Nat /\ history[j].at \in Nat
  BY Positions DEF Event
<1>2. i < j => history[i].at < history[j].at
  BY DEF HistoryTrue
<1>3. i = j => history[i].at = history[j].at
  OBVIOUS
<1> QED
  BY <1>1, <1>2, <1>3

\* A position is the last one or before it.
LEMMA LastOrBefore ==
    \A n \in Nat : \A k \in 1..n : k = n \/ (k \in 1..(n - 1) /\ k + 1 \in 1..n)
OBVIOUS

\* An element appended to a sequence comes last.
LEMMA AppendedLast ==
    ASSUME NEW S, NEW s \in Seq(S), NEW e \in S
    PROVE  /\ Append(s, e) \in Seq(S) /\ Len(Append(s, e)) = Len(s) + 1
           /\ Append(s, e)[Len(s) + 1] = e
           /\ \A k \in 1..Len(s) : Append(s, e)[k] = s[k]
OBVIOUS

\* The situation of a reconciliation: the canonical posting is a member.
Situation(known, p, P, c, last) ==
    /\ p \in P /\ last \in Nat
    /\ known \in Seq(EpisodeRow) /\ known # <<>> /\ EpisodesTrue(known, P, c)

\* The sightings after a closure.
After(P, closure, c) == {i \in Sightings(P, c) : i > closure}

\* The first sighting after a closure.
LEMMA FirstAfter ==
    ASSUME HistoryTrue, NEW P, NEW c, NEW closure, After(P, closure, c) # {}
    PROVE  Min(After(P, closure, c)) \in After(P, closure, c)
<1>1. After(P, closure, c) \in SUBSET Nat
  BY Positions DEF After, Sightings
<1> QED
  BY <1>1, LeastOne

\* What the reconciliation of the episodes does, case by case.
Reopening(known, next, closure, after, last) ==
    LET n == Len(known)
        closed == history[closure].at
    IN  /\ closure # 0 /\ after # {} /\ known[n].opened <= closed
        /\ \E ended \in EpisodeRow :
               /\ ended.opened = known[n].opened
               /\ ended.closed = IF known[n].closed = None THEN closed ELSE known[n].closed
               /\ next = Append([known EXCEPT ![n] = ended], Episode(history[Min(after)].at, last))

\* Or the closure ends the last episode.
Ending(known, next, closure, after) ==
    LET n == Len(known)
        closed == history[closure].at
    IN  /\ closure # 0 /\ after = {}
        /\ \E ended \in EpisodeRow :
               /\ ended.opened = known[n].opened /\ ended.closed = closed
               /\ ended.status = "CLOSED_OBSERVED"
               /\ next = [known EXCEPT ![n] = ended]

\* It reopens, it ends, or it leaves the episodes alone.
LEMMA SyncCases ==
    ASSUME HistoryTrue, NEW known, NEW p, NEW P, NEW c, NEW last, Situation(known, p, P, c, last),
           NEW closure, closure = Closure(p, c), NEW after, after = After(P, closure, c),
           NEW next, next = SyncedEpisodes(known, closure, after, last)
    PROVE  \/ Reopening(known, next, closure, after, last)
           \/ Ending(known, next, closure, after)
           \/ /\ next = known
              /\ ~(closure # 0 /\ after # {} /\ known[Len(known)].opened <= history[closure].at)
              /\ ~(closure # 0 /\ after = {} /\ known[Len(known)].status # "CLOSED_OBSERVED")
<1> DEFINE n == Len(known)
           closed == history[closure].at
<1>1. known[n] \in EpisodeRow
  BY DEF Situation
<1>2. closure # 0 => closed \in Nat
  BY ClosureOfGroup, Positions DEF Closures, Seen, Event, Situation
<1>3. closure # 0 => /\ ClosedAt(known[n], closed) \in EpisodeRow
                     /\ ClosedAt(known[n], closed).opened = known[n].opened
                     /\ ClosedAt(known[n], closed).closed = closed
                     /\ ClosedAt(known[n], closed).status = "CLOSED_OBSERVED"
  BY <1>1, <1>2 DEF EpisodeRow, ClosedAt
<1>4. CASE closure # 0 /\ after # {} /\ known[n].opened <= closed
  <2> DEFINE ended == IF known[n].closed = None THEN ClosedAt(known[n], closed) ELSE known[n]
  <2>1. next = Append([known EXCEPT ![n] = ended], Episode(history[Min(after)].at, last))
    BY <1>4 DEF SyncedEpisodes, MayReopen
  <2>2. /\ ended \in EpisodeRow /\ ended.opened = known[n].opened
        /\ ended.closed = IF known[n].closed = None THEN closed ELSE known[n].closed
    BY <1>1, <1>3, <1>4
  <2> HIDE DEF ended
  <2> QED
    BY <1>4, <2>1, <2>2 DEF Reopening
<1>5. CASE closure # 0 /\ after = {} /\ known[n].status # "CLOSED_OBSERVED"
  <2>1. next = [known EXCEPT ![n] = ClosedAt(known[n], closed)]
    BY <1>5 DEF SyncedEpisodes
  <2> QED
    BY <1>3, <1>5, <2>1 DEF Ending
<1>6. CASE /\ ~(closure # 0 /\ after # {} /\ known[n].opened <= closed)
           /\ ~(closure # 0 /\ after = {} /\ known[n].status # "CLOSED_OBSERVED")
  BY <1>6 DEF SyncedEpisodes, MayReopen
<1> QED
  BY <1>4, <1>5, <1>6

\* Reconciled episodes are true to the events of the group.
LEMMA SyncTrue ==
    ASSUME HistoryTrue, NEW known, NEW p, NEW P, NEW c, NEW last, Situation(known, p, P, c, last),
           NEW closure, closure = Closure(p, c), NEW after, after = After(P, closure, c),
           NEW next, next = SyncedEpisodes(known, closure, after, last)
    PROVE  next \in Seq(EpisodeRow) /\ next # <<>> /\ EpisodesTrue(next, P, c)
<1> DEFINE n == Len(known)
           closed == history[closure].at
<1>1. /\ known \in Seq(EpisodeRow) /\ n \in Nat /\ n # 0 /\ n \in DOMAIN known
      /\ DOMAIN known = 1..n
      /\ \A k \in DOMAIN known : known[k] \in EpisodeRow
      /\ EpisodesTrue(known, P, c)
  BY DEF Situation
<1>2. \A k \in 1..n : k = n \/ (k \in 1..(n - 1) /\ k + 1 \in 1..n)
  BY <1>1, LastOrBefore
<1>3. \A k \in 1..(n + 1) : k = n + 1 \/ k \in 1..n
  BY <1>1
<1>4. closure # 0 => closure \in Closures(P, c) /\ closure \in DOMAIN history
  BY ClosureOfGroup DEF Closures, Seen, Situation
<1>5. CASE Reopening(known, next, closure, after, last)
  <2>1. PICK ended \in EpisodeRow :
            /\ ended.opened = known[n].opened
            /\ ended.closed = IF known[n].closed = None THEN closed ELSE known[n].closed
            /\ next = Append([known EXCEPT ![n] = ended], Episode(history[Min(after)].at, last))
    BY <1>5 DEF Reopening
  <2>2. closure # 0 /\ after # {} /\ known[n].opened <= closed
    BY <1>5 DEF Reopening
  <2> DEFINE y == Min(after)
             latest == Episode(history[y].at, last)
  <2>3. y \in After(P, closure, c)
    BY <2>2, FirstAfter
  <2>4. y \in Sightings(P, c) /\ y > closure /\ y \in DOMAIN history
    BY <2>3 DEF After, Sightings, Seen
  <2>5. history[y].at \in Nat /\ closed \in Nat /\ closed < history[y].at
    BY <1>4, <2>2, <2>4, InOrder
  <2>6. latest \in EpisodeRow /\ latest.opened = history[y].at /\ latest.closed = None
    BY <2>5 DEF Episode, EpisodeRow, Situation
  <2> HIDE DEF y, latest
  <2>7. /\ next \in Seq(EpisodeRow) /\ Len(next) = n + 1 /\ next[n + 1] = latest /\ next[n] = ended
        /\ \A k \in 1..(n - 1) : next[k] = known[k]
    <3> DEFINE front == [known EXCEPT ![n] = ended]
    <3>1. /\ front \in Seq(EpisodeRow) /\ Len(front) = n /\ front[n] = ended
          /\ \A k \in 1..(n - 1) : front[k] = known[k]
      BY <1>1
    <3>2. next = Append(front, latest)
      BY <2>1 DEF latest, y
    <3> HIDE DEF front
    <3>3. /\ next \in Seq(EpisodeRow) /\ Len(next) = Len(front) + 1
          /\ next[Len(front) + 1] = latest
          /\ \A k \in 1..Len(front) : next[k] = front[k]
      BY <2>6, <3>1, <3>2, AppendedLast
    <3>4. n \in 1..n /\ \A k \in 1..(n - 1) : k \in 1..n
      BY <1>1
    <3> QED
      BY <3>1, <3>3, <3>4
  <2>8. ASSUME NEW k \in 1..n PROVE next[k].opened = known[k].opened
    <3>1. CASE k = n
      BY <2>1, <2>7, <3>1
    <3>2. CASE k \in 1..(n - 1)
      BY <2>7, <3>2
    <3> QED
      BY <1>2, <3>1, <3>2
  <2>9. ended.closed # None /\ ended.opened <= ended.closed
    BY <1>1, <2>1, <2>2, <2>5, EpisodesAssumption DEF EpisodesTrue
  <2>10. ASSUME NEW k \in 1..(n + 1)
        PROVE  Opens(next[k], P, c) /\ (next[k].closed # None => next[k].opened <= next[k].closed)
    <3>1. CASE k = n + 1
      BY <2>4, <2>6, <2>7, <3>1 DEF Opens
    <3>2. CASE k = n
      BY <1>1, <2>1, <2>7, <2>9, <3>2 DEF Opens, EpisodesTrue
    <3>3. CASE k \in 1..(n - 1)
      BY <1>1, <2>7, <3>3 DEF EpisodesTrue
    <3> QED
      BY <1>2, <1>3, <3>1, <3>2, <3>3
  <2>11. ASSUME NEW k \in 1..n
         PROVE  next[k].closed # None /\ Reopens(next[k], next[k + 1], P, c)
    <3>1. CASE k = n
      <4>1. Reopens(ended, latest, P, c)
        BY <1>4, <2>1, <2>2, <2>4, <2>6 DEF Reopens
      <4> QED
        BY <2>7, <2>9, <3>1, <4>1
    <3>2. CASE k \in 1..(n - 1)
      <4>1. known[k].closed # None /\ Reopens(known[k], known[k + 1], P, c)
        BY <1>1, <3>2 DEF EpisodesTrue
      <4>2. next[k] = known[k] /\ next[k + 1].opened = known[k + 1].opened
        BY <1>1, <2>7, <2>8, <3>2
      <4> QED
        BY <4>1, <4>2 DEF Reopens
    <3> QED
      BY <1>2, <3>1, <3>2
  <2>12. DOMAIN next = 1..(n + 1)
    BY <1>1, <2>7
  <2> QED
    BY <1>1, <2>7, <2>10, <2>11, <2>12 DEF EpisodesTrue
<1>6. CASE Ending(known, next, closure, after)
  <2>1. PICK ended \in EpisodeRow :
            /\ ended.opened = known[n].opened /\ ended.closed = closed
            /\ next = [known EXCEPT ![n] = ended]
    BY <1>6 DEF Ending
  <2>2. closure # 0 /\ after = {}
    BY <1>6 DEF Ending
  <2>3. PICK y \in Sightings(P, c) : known[n].opened = history[y].at
    BY <1>1 DEF EpisodesTrue, Opens
  <2>4. y <= closure /\ y \in DOMAIN history
    BY <1>4, <2>2, Positions DEF After, Sightings, Seen
  <2>5. ended.opened <= closed /\ closed \in Nat
    BY <1>4, <2>1, <2>2, <2>3, <2>4, InOrder
  <2>6. /\ next \in Seq(EpisodeRow) /\ Len(next) = n /\ next[n] = ended /\ DOMAIN next = 1..n
        /\ \A k \in 1..(n - 1) : next[k] = known[k]
    BY <1>1, <2>1
  <2>7. ASSUME NEW k \in 1..n
        PROVE  Opens(next[k], P, c) /\ (next[k].closed # None => next[k].opened <= next[k].closed)
    <3>1. CASE k = n
      BY <2>1, <2>3, <2>5, <2>6, <3>1 DEF Opens
    <3>2. CASE k \in 1..(n - 1)
      BY <1>1, <2>6, <3>2 DEF EpisodesTrue
    <3> QED
      BY <1>2, <3>1, <3>2
  <2>8. ASSUME NEW k \in 1..n, k < n
        PROVE  next[k].closed # None /\ Reopens(next[k], next[k + 1], P, c)
    <3>1. known[k].closed # None /\ Reopens(known[k], known[k + 1], P, c)
      BY <1>1, <2>8 DEF EpisodesTrue
    <3>2. next[k] = known[k] /\ next[k + 1].opened = known[k + 1].opened
      BY <1>1, <2>1, <2>6, <2>8
    <3> QED
      BY <3>1, <3>2 DEF Reopens
  <2> QED
    BY <1>1, <2>6, <2>7, <2>8 DEF EpisodesTrue
<1>7. CASE next = known
  BY <1>1, <1>7
<1> QED
  BY <1>5, <1>6, <1>7, SyncCases

\* Reconciling episodes again changes nothing.
LEMMA SyncAgain ==
    ASSUME HistoryTrue, NEW known, NEW p, NEW P, NEW c, NEW last, Situation(known, p, P, c, last),
           NEW closure, closure = Closure(p, c), NEW after, after = After(P, closure, c),
           NEW next, next = SyncedEpisodes(known, closure, after, last)
    PROVE  SyncedEpisodes(next, closure, after, last) = next
<1> DEFINE n == Len(known)
           closed == history[closure].at
<1>1. known \in Seq(EpisodeRow) /\ n \in Nat /\ n # 0 /\ DOMAIN known = 1..n
  BY DEF Situation
<1>2. CASE Reopening(known, next, closure, after, last)
  <2>1. PICK ended \in EpisodeRow :
            next = Append([known EXCEPT ![n] = ended], Episode(history[Min(after)].at, last))
    BY <1>2 DEF Reopening
  <2>2. closure # 0 /\ after # {}
    BY <1>2 DEF Reopening
  <2>3. closure \in DOMAIN history
    BY <2>2, ClosureOfGroup DEF Closures, Seen, Situation
  <2>4. Min(after) > closure /\ Min(after) \in DOMAIN history
    BY <2>2, FirstAfter DEF After, Sightings, Seen
  <2>5. ~(history[Min(after)].at <= closed)
    BY <2>3, <2>4, InOrder
  <2>6. next[Len(next)].opened = history[Min(after)].at
    <3> DEFINE front == [known EXCEPT ![n] = ended]
               latest == Episode(history[Min(after)].at, last)
    <3>1. front \in Seq(EpisodeRow)
      BY <1>1
    <3>2. next = Append(front, latest) /\ latest.opened = history[Min(after)].at
      BY <2>1 DEF Episode
    <3> HIDE DEF front, latest
    <3> QED
      BY <3>1, <3>2
  <2> QED
    BY <2>2, <2>5, <2>6 DEF SyncedEpisodes, MayReopen
<1>3. CASE Ending(known, next, closure, after)
  <2>1. PICK ended \in EpisodeRow :
            next = [known EXCEPT ![n] = ended] /\ ended.status = "CLOSED_OBSERVED"
    BY <1>3 DEF Ending
  <2>2. next[Len(next)] = ended
    BY <1>1, <2>1
  <2>3. after = {}
    BY <1>3 DEF Ending
  <2> QED
    BY <2>1, <2>2, <2>3 DEF SyncedEpisodes
<1>4. CASE next = known
  BY <1>4
<1> QED
  BY <1>2, <1>3, <1>4, SyncCases

\* No event is both a closure and a sighting.
LEMMA KindsApart == ASSUME HistoryTrue, NEW P, NEW c PROVE Sightings(P, c) \cap Closures(P, c) = {}
BY DEF Sightings, Closures, Sighting

\* Before a closure that a sighting follows there is a dark one, after every sighting before it.
LEMMA DarkBefore ==
    ASSUME HistoryTrue, NEW P, NEW c, NEW x \in Closures(P, c), NEW y \in Sightings(P, c), x < y
    PROVE  \E d \in Dark(P, c) : d <= x /\ \A s \in Sightings(P, c) : s < x => s < d
<1> DEFINE D == {i \in Closures(P, c) : i <= x /\ \A s \in Sightings(P, c) : s < x => s < i}
           d == Min(D)
<1>1. Closures(P, c) \in SUBSET Nat /\ Sightings(P, c) \in SUBSET Nat
  BY Positions DEF Closures, Sightings
<1>2. x \in D
  BY <1>1
<1>3. d \in D /\ \A i \in D : d <= i
  BY <1>1, <1>2, LeastOne
<1> HIDE DEF d
<1>4. d \in Closures(P, c) /\ d <= x /\ \A s \in Sightings(P, c) : s < x => s < d
  BY <1>3
<1>5. ASSUME NEW k \in Closures(P, c), k < d
      PROVE  \E j \in Sightings(P, c) : k < j /\ j < d
  <2>1. k \notin D
    BY <1>1, <1>3, <1>4, <1>5
  <2>2. k <= x
    BY <1>1, <1>4, <1>5
  <2>3. PICK s \in Sightings(P, c) : s < x /\ ~(s < k)
    BY <2>1, <2>2
  <2>4. s # k
    BY KindsApart
  <2> QED
    BY <1>1, <1>4, <2>3, <2>4
<1>6. d < y
  BY <1>1, <1>4
<1>7. d \in Dark(P, c)
  BY <1>4, <1>5, <1>6 DEF Dark
<1> QED
  BY <1>4, <1>7

\* Episodes open one after the other.
LEMMA OpenInTurn ==
    ASSUME HistoryTrue, NEW P, NEW c, NEW es \in Seq(EpisodeRow), EpisodesTrue(es, P, c)
    PROVE  /\ \A k \in 1..Len(es) : k < Len(es) => es[k].opened < es[k + 1].opened
           /\ \A j, k \in 1..Len(es) : j < k => es[j].opened < es[k].opened
<1>1. \A k \in 1..Len(es) : es[k].opened \in Nat
  <2>1. \A k \in 1..Len(es) : es[k] \in EpisodeRow
    OBVIOUS
  <2> QED
    BY <2>1 DEF EpisodeRow
<1>2. ASSUME NEW k \in 1..Len(es), k < Len(es) PROVE es[k].opened < es[k + 1].opened
  <2>1. PICK x \in Closures(P, c), y \in Sightings(P, c) :
            es[k].opened <= history[x].at /\ x < y /\ es[k + 1].opened = history[y].at
    BY <1>2 DEF EpisodesTrue, Reopens
  <2>2. x \in DOMAIN history /\ y \in DOMAIN history
    BY DEF Closures, Sightings, Seen
  <2>3. history[x].at < history[y].at /\ history[x].at \in Nat /\ history[y].at \in Nat
    BY <2>1, <2>2, InOrder
  <2> QED
    BY <1>1, <2>1, <2>3
<1> DEFINE S == {k \in 1..Len(es) : \E j \in 1..Len(es) : j < k /\ ~(es[j].opened < es[k].opened)}
<1>3. S = {}
  <2> SUFFICES ASSUME S # {} PROVE FALSE
    OBVIOUS
  <2>1. S \in SUBSET Nat
    OBVIOUS
  <2> DEFINE k == Min(S)
  <2>2. k \in S /\ \A n \in S : k <= n
    BY <2>1, LeastOne
  <2> HIDE DEF k
  <2>3. PICK j \in 1..Len(es) : j < k /\ ~(es[j].opened < es[k].opened)
    BY <2>2
  <2>4. k - 1 \in 1..Len(es) /\ k - 1 < Len(es) /\ k \in 1..Len(es)
    BY <2>2, <2>3
  <2>5. es[k - 1].opened < es[k].opened
    BY <1>2, <2>4
  <2>6. j # k - 1
    BY <2>3, <2>5
  <2>7. k - 1 \notin S
    BY <2>1, <2>2
  <2>8. es[j].opened < es[k - 1].opened
    BY <2>3, <2>4, <2>6, <2>7
  <2> QED
    BY <1>1, <2>3, <2>4, <2>5, <2>8
<1> QED
  BY <1>2, <1>3

\* A vacancy has no more episodes than its postings had dark times.
LEMMA EpisodesCounted ==
    ASSUME HistoryTrue, NEW P, NEW c, NEW es \in Seq(EpisodeRow), es # <<>>, EpisodesTrue(es, P, c)
    PROVE  Len(es) <= EpisodeNumber(P, c)
<1> DEFINE m == Len(es) - 1
           Gap(k, x, y) == /\ x \in Closures(P, c) /\ y \in Sightings(P, c) /\ x < y
                           /\ es[k].opened <= history[x].at /\ es[k + 1].opened = history[y].at
           Before(k, d) == \E x, y : /\ Gap(k, x, y) /\ d <= x
                                     /\ \A s \in Sightings(P, c) : s < x => s < d
           f == [k \in 1..m |-> CHOOSE d \in Dark(P, c) : Before(k, d)]
<1>1. m \in Nat
  OBVIOUS
<1>2. \A k \in 1..Len(es) : es[k].opened \in Nat
  <2>1. \A k \in 1..Len(es) : es[k] \in EpisodeRow
    OBVIOUS
  <2> QED
    BY <2>1 DEF EpisodeRow
<1>3. ASSUME NEW k \in 1..m PROVE f[k] \in Dark(P, c) /\ Before(k, f[k])
  <2>1. PICK x \in Closures(P, c), y \in Sightings(P, c) : Gap(k, x, y)
    BY <1>1 DEF EpisodesTrue, Reopens
  <2>2. \E d \in Dark(P, c) : Before(k, d)
    BY <2>1, DarkBefore
  <2> QED
    BY <2>2
<1>4. f \in [1..m -> Dark(P, c)]
  BY <1>3
<1> HIDE DEF f
<1>5. ASSUME NEW j \in 1..m, NEW k \in 1..m, j < k PROVE f[j] < f[k]
  <2>1. PICK x, y : Gap(j, x, y) /\ f[j] <= x
    BY <1>3
  <2>2. PICK u, v : Gap(k, u, v) /\ \A s \in Sightings(P, c) : s < u => s < f[k]
    BY <1>3
  <2>3. es[j + 1].opened <= es[k].opened
    <3>1. j + 1 \in 1..Len(es) /\ k \in 1..Len(es) /\ (j + 1 = k \/ j + 1 < k)
      BY <1>1, <1>5
    <3>2. es[j + 1].opened \in Nat /\ es[k].opened \in Nat
      BY <1>2, <3>1
    <3>3. j + 1 < k => es[j + 1].opened < es[k].opened
      BY <3>1, OpenInTurn
    <3> QED
      BY <3>1, <3>2, <3>3
  <2>4. /\ x \in DOMAIN history /\ y \in DOMAIN history /\ u \in DOMAIN history
        /\ y \in Sightings(P, c) /\ u \in Closures(P, c)
    BY <2>1, <2>2 DEF Sightings, Closures, Seen
  <2>5. history[y].at <= history[u].at
    <3>1. es[j + 1].opened \in Nat /\ es[k].opened \in Nat
      BY <1>1, <1>2
    <3>2. history[u].at \in Nat
      BY <2>4, InOrder
    <3> QED
      BY <2>1, <2>2, <2>3, <3>1, <3>2
  <2>6. y <= u /\ y # u
    BY <2>4, <2>5, InOrder, KindsApart
  <2>7. y < f[k]
    BY <2>2, <2>4, <2>6, InOrder
  <2>8. f[j] \in Nat /\ f[k] \in Nat /\ x \in Nat /\ y \in Nat
    BY <1>3, <2>4, Positions DEF Dark, Closures
  <2> QED
    BY <2>1, <2>7, <2>8
<1>6. Dark(P, c) \in SUBSET Nat /\ \A d \in Dark(P, c) : d <= Len(history)
  BY Positions DEF Dark, Closures
<1>7. IsFiniteSet(Dark(P, c))
  BY <1>6, Positions, FS_BoundedSetOfNaturals
<1>8. f \in Injection(1..m, Dark(P, c))
  <2>1. f \in [1..m -> Dark(P, c)]
    BY <1>4
  <2>2. ASSUME NEW j \in 1..m, NEW k \in 1..m, f[j] = f[k] PROVE j = k
    <3>1. f[j] \in Nat /\ f[k] \in Nat
      BY <1>3, <1>6
    <3>2. ~(j < k) /\ ~(k < j)
      BY <1>5, <2>2, <3>1
    <3> QED
      BY <1>1, <3>2
  <2> QED
    BY <2>1, <2>2 DEF Injection, IsInjective
<1>9. Cardinality(1..m) <= Cardinality(Dark(P, c)) /\ Cardinality(Dark(P, c)) \in Nat
  BY <1>7, <1>8, FS_Injection, FS_CardinalityType
<1>10. Cardinality(1..m) = m
  <2>1. Cardinality(1..m) = IF 1 > m THEN 0 ELSE m - 1 + 1
    BY <1>1, FS_Interval
  <2> QED
    BY <1>1, <2>1
<1> QED
  BY <1>1, <1>9, <1>10 DEF EpisodeNumber

-----------------------------------------------------------------------------
\* A vacancy as the table holds it, and tables with a row for some of the postings.
Row ==
    [first: Nat, last: Nat, canonical: Advertised, merged: Advertised \cup {None},
     status: {"ACTIVE", "CLOSED_OBSERVED"}, closed: Nat \cup {None}, episodes: Seq(EpisodeRow)]

\* A table that is keyed by some of the postings.
TableOf(S) == UNION {[D -> S] : D \in SUBSET Advertised}

\* The postings of the cutoff are the members; each vacancy that is not merged has its founder.
GraphTrue(g, c) ==
    /\ g \in [linked: TableOf(Nat), of: TableOf(Advertised), vacancy: TableOf(Row)]
    /\ DOMAIN g.linked = Chosen(c) /\ DOMAIN g.of = Chosen(c)
    /\ \A p \in DOMAIN g.of : g.of[p] \in Effective(g)
    /\ \A v \in Effective(g) : v \in DOMAIN g.of /\ g.of[v] = v

\* And each has episodes that are true to the events of its members.
VacanciesTrue(g, c) ==
    \A v \in Effective(g) : EpisodesTrue(g.vacancy[v].episodes, Members(g, v), c)

\* Functions on some of the postings.
LEMMA Tables ==
    \A S, f : f \in TableOf(S) <=> /\ DOMAIN f \subseteq Advertised
                                   /\ f = [p \in DOMAIN f |-> f[p]]
                                   /\ \A p \in DOMAIN f : f[p] \in S
<1> SUFFICES ASSUME NEW S, NEW f
             PROVE  f \in TableOf(S) <=> /\ DOMAIN f \subseteq Advertised
                                         /\ f = [p \in DOMAIN f |-> f[p]]
                                         /\ \A p \in DOMAIN f : f[p] \in S
  OBVIOUS
<1>1. f \in TableOf(S) <=> \E D \in SUBSET Advertised : f \in [D -> S]
  BY DEF TableOf
<1> QED
  BY <1>1

\* The canonical posting of some members is one of them.
LEMMA ForemostIsOne ==
    ASSUME NEW P \in SUBSET Advertised, P # {}, NEW age, \A p \in P : age[p] \in Nat
    PROVE  Foremost(age, P) \in P
<1> DEFINE R == {Rank[p] : p \in P}
           A == {p \in P : Rank[p] = Min(R)}
           T == {age[p] : p \in A}
           B == {p \in A : age[p] = Min(T)}
<1>1. \A p \in P : Rank[p] \in Nat /\ p \in Nat
  BY EpisodesAssumption
<1>2. R \in SUBSET Nat /\ R # {}
  BY <1>1
<1>3. Min(R) \in R /\ \A r \in R : Min(R) <= r
  BY <1>2, LeastOne
<1>4. A # {} /\ \A q \in P : q \in A \/ Min(R) < Rank[q]
  <2>1. PICK p \in P : Rank[p] = Min(R)
    BY <1>3
  <2>2. ASSUME NEW q \in P PROVE q \in A \/ Min(R) < Rank[q]
    <3>1. Rank[q] \in R
      OBVIOUS
    <3>2. Min(R) <= Rank[q] /\ Min(R) \in Nat /\ Rank[q] \in Nat
      BY <1>1, <1>2, <1>3, <3>1
    <3> QED
      BY <3>2
  <2> QED
    BY <2>1, <2>2
<1>5. T \in SUBSET Nat /\ T # {}
  BY <1>4
<1>6. Min(T) \in T /\ \A t \in T : Min(T) <= t
  BY <1>5, LeastOne
<1>7. B # {} /\ \A q \in A : q \in B \/ Min(T) < age[q]
  <2>1. PICK p \in A : age[p] = Min(T)
    BY <1>6
  <2>2. ASSUME NEW q \in A PROVE q \in B \/ Min(T) < age[q]
    <3>1. age[q] \in T
      OBVIOUS
    <3>2. Min(T) <= age[q] /\ Min(T) \in Nat /\ age[q] \in Nat
      BY <1>5, <1>6, <3>1
    <3> QED
      BY <3>2
  <2> QED
    BY <2>1, <2>2
<1>8. B \in SUBSET Nat
  BY <1>1
<1>9. Min(B) \in B /\ \A q \in B : Min(B) <= q
  BY <1>7, <1>8, LeastOne
<1>10. \A q \in P : Precedence(age, Min(B), q)
  BY <1>4, <1>7, <1>9 DEF Precedence
<1>11. \E p \in P : \A q \in P : Precedence(age, p, q)
  BY <1>9, <1>10
<1> QED
  BY <1>11 DEF Foremost

\* What the invariant says of one vacancy.
LEMMA OneVacancy ==
    ASSUME NEW c, NEW g, GraphTrue(g, c), NEW v \in Effective(g)
    PROVE  /\ v \in Members(g, v) /\ Members(g, v) \subseteq Chosen(c)
           /\ Members(g, v) \subseteq Advertised
           /\ g.vacancy[v] \in Row /\ g.vacancy[v].merged = None /\ v \in DOMAIN g.vacancy
           /\ Canonical(g, v) \in Members(g, v)
<1>1. /\ v \in Members(g, v) /\ Members(g, v) \subseteq Chosen(c)
      /\ Members(g, v) \subseteq Advertised
      /\ g.vacancy[v].merged = None /\ v \in DOMAIN g.vacancy
  BY DEF GraphTrue, Members, Effective, Chosen
<1>2. g.vacancy \in TableOf(Row) /\ g.linked \in TableOf(Nat) /\ DOMAIN g.linked = Chosen(c)
  BY DEF GraphTrue
<1>3. g.vacancy[v] \in Row
  BY <1>1, <1>2, Tables
<1>4. \A p \in Members(g, v) : g.linked[p] \in Nat
  BY <1>1, <1>2, Tables
<1>5. Canonical(g, v) \in Members(g, v)
  BY <1>1, <1>4, ForemostIsOne DEF Canonical
<1> QED
  BY <1>1, <1>3, <1>5

\* The row of a reconciled vacancy: well typed, still not merged, with true episodes, and to
\* reconcile it again changes nothing.
LEMMA ReconciledRow ==
    ASSUME HistoryTrue, NEW c \in Int, c <= today, NEW g, GraphTrue(g, c), NEW v \in Effective(g),
           EpisodesTrue(g.vacancy[v].episodes, Members(g, v), c)
    PROVE  LET row == Reconciled(g, v, c)
           IN  /\ row = Synced(g.vacancy[v], Canonical(g, v), Members(g, v), c)
               /\ row \in Row /\ row.merged = None
               /\ EpisodesTrue(row.episodes, Members(g, v), c)
               /\ Synced(row, Canonical(g, v), Members(g, v), c) = row
<1> DEFINE P == Members(g, v)
           p == Canonical(g, v)
           old == g.vacancy[v]
           first == Min({FirstSeen(q) : q \in P \cap Chosen(c)})
           last == Max({LastSeen(q, c) : q \in P \cap Chosen(c)})
           known == IF old.episodes = <<>> THEN <<Episode(first, last)>> ELSE old.episodes
           closure == Closure(p, c)
           after == After(P, closure, c)
           next == SyncedEpisodes(known, closure, after, last)
           dead == closure # 0 /\ after = {}
           row == [first |-> first, last |-> last, canonical |-> p, merged |-> old.merged,
                   status |-> IF dead THEN "CLOSED_OBSERVED" ELSE "ACTIVE",
                   closed |-> IF dead THEN history[closure].at ELSE None,
                   episodes |-> next]
<1>1. /\ v \in P /\ P \subseteq Chosen(c) /\ P \subseteq Advertised
      /\ old \in Row /\ old.merged = None /\ p \in P
  BY OneVacancy
<1>2. P \cap Chosen(c) # {}
  BY <1>1
<1>3. first \in Nat /\ last \in Nat /\ \E y \in Sightings(P, c) : first = history[y].at
  BY <1>2, TimesOfGroup
<1>4. Reconciled(g, v, c) = Synced(old, p, P, c)
  BY <1>2 DEF Reconciled
<1>5. Synced(old, p, P, c) = row
  BY DEF Synced, After
<1> HIDE DEF P, p, first, last
<1>6. known \in Seq(EpisodeRow) /\ known # <<>> /\ EpisodesTrue(known, P, c)
  <2>1. CASE old.episodes = <<>>
    <3> DEFINE e == Episode(first, last)
    <3>1. e \in EpisodeRow /\ e.opened = first /\ e.closed = None
      BY <1>3 DEF Episode, EpisodeRow
    <3> HIDE DEF e
    <3>2. known = <<e>>
      BY <2>1 DEF e
    <3>3. EpisodesTrue(<<e>>, P, c)
      BY <1>3, <3>1 DEF EpisodesTrue, Opens
    <3>4. <<e>> \in Seq(EpisodeRow) /\ <<e>> # <<>>
      BY <3>1
    <3> HIDE DEF known
    <3> QED
      BY <3>2, <3>3, <3>4
  <2>2. CASE old.episodes # <<>>
    BY <1>1, <2>2 DEF Row, P
  <2> QED
    BY <2>1, <2>2
<1> HIDE DEF known
<1>7. Situation(known, p, P, c, last)
  BY <1>1, <1>3, <1>6 DEF Situation
<1>8. next \in Seq(EpisodeRow) /\ next # <<>> /\ EpisodesTrue(next, P, c)
  BY <1>7, SyncTrue
<1>9. SyncedEpisodes(next, closure, after, last) = next
  BY <1>7, SyncAgain
<1>10. closure # 0 => history[closure].at \in Nat
  BY <1>1, ClosureOfGroup, Positions DEF Closures, Seen, Event
<1> HIDE DEF next
<1>11. row \in Row
  BY <1>1, <1>3, <1>8, <1>10 DEF Row
<1>12. Synced(row, p, P, c) = row
  <2>1. row.episodes # <<>> /\ row.episodes = next /\ row.merged = old.merged
    BY <1>8
  <2>2. Synced(row, p, P, c) =
            [first |-> first, last |-> last, canonical |-> p, merged |-> row.merged,
             status |-> IF dead THEN "CLOSED_OBSERVED" ELSE "ACTIVE",
             closed |-> IF dead THEN history[closure].at ELSE None,
             episodes |-> SyncedEpisodes(row.episodes, closure, after, last)]
    BY <2>1 DEF Synced, After, first, last
  <2> QED
    BY <1>9, <2>1, <2>2
<1> QED
  BY <1>1, <1>4, <1>5, <1>8, <1>11, <1>12 DEF P, p

-----------------------------------------------------------------------------
\* Postings chosen by a cutoff are chosen by a later one.
LEMMA ChosenGrow ==
    ASSUME HistoryTrue, NEW c \in Int, NEW d \in Int, c <= d
    PROVE  Chosen(c) \subseteq Chosen(d) /\ Chosen(c) \subseteq Advertised
BY Positions DEF Chosen, Seen, Event

\* A run links the new postings of its cutoff.
LEMMA LinkKeeps ==
    ASSUME HistoryTrue, NEW b \in Int, NEW c \in Int, b <= c, c <= today,
           NEW g, GraphTrue(g, b), VacanciesTrue(g, b)
    PROVE  GraphTrue(LinkAll(g, c), c) /\ VacanciesTrue(LinkAll(g, c), c)
<1> DEFINE h == LinkAll(g, c)
           new == Chosen(c) \ DOMAIN g.of
<1>1. /\ h.linked = [p \in DOMAIN g.of \cup new |-> IF p \in new THEN c ELSE g.linked[p]]
      /\ h.of = [p \in DOMAIN g.of \cup new |-> IF p \in new THEN p ELSE g.of[p]]
      /\ h.vacancy = [p \in DOMAIN g.vacancy \cup new |->
                          IF p \in new THEN Founded(p) ELSE g.vacancy[p]]
      /\ h = [linked |-> h.linked, of |-> h.of, vacancy |-> h.vacancy]
  BY DEF LinkAll
<1> HIDE DEF h
<1>2. /\ g.linked \in TableOf(Nat) /\ g.of \in TableOf(Advertised) /\ g.vacancy \in TableOf(Row)
      /\ DOMAIN g.linked = Chosen(b) /\ DOMAIN g.of = Chosen(b)
  BY DEF GraphTrue
<1>3. /\ Chosen(b) \subseteq Chosen(c) /\ Chosen(c) \subseteq Advertised
      /\ DOMAIN g.of \cup new = Chosen(c)
  BY <1>2, ChosenGrow
<1>4. ASSUME NEW p \in new
      PROVE  Founded(p) \in Row /\ Founded(p).merged = None /\ Founded(p).episodes = <<>>
  <2>1. today \in Int /\ p \in Chosen(c) /\ p \in Advertised
    BY <1>3 DEF HistoryTrue
  <2>2. p \in Chosen(today)
    BY <2>1, Positions DEF Chosen, Seen, Event
  <2>3. FirstSeen(p) \in Nat
    BY <1>3, <2>1, FirstIsNew
  <2>4. today <= today
    BY <2>1
  <2>5. LastSeen(p, today) \in Nat
    BY <2>2, <2>1, <2>4, LastIsTime
  <2>6. FirstSeen(p) \in Nat /\ LastSeen(p, today) \in Nat
    BY <2>3, <2>5
  <2>7. <<>> \in Seq(EpisodeRow)
    OBVIOUS
  <2> QED
    BY <2>6, <2>7, <2>1 DEF Founded, Row
<1>5. c \in Nat \/ new = {}
  <2> SUFFICES ASSUME NEW p \in new PROVE c \in Nat
    OBVIOUS
  <2>1. PICK i : i \in Seen({p}, c)
    BY DEF Chosen
  <2>2. history[i].at \in Nat /\ history[i].at <= c
    BY <2>1, Positions DEF Seen, Event
  <2> QED
    BY <2>2
<1>6. h.linked \in TableOf(Nat) /\ DOMAIN h.linked = Chosen(c)
  <2>1. \A p \in DOMAIN g.of : g.linked[p] \in Nat
    BY <1>2, Tables
  <2>2. h.linked \in [Chosen(c) -> Nat]
    BY <1>1, <1>3, <1>5, <2>1
  <2> QED
    BY <1>3, <2>2 DEF TableOf
<1>7. h.of \in TableOf(Advertised) /\ DOMAIN h.of = Chosen(c)
  <2>1. \A p \in DOMAIN g.of : g.of[p] \in Advertised
    BY <1>2, Tables
  <2>2. h.of \in [Chosen(c) -> Advertised]
    BY <1>1, <1>3, <2>1
  <2> QED
    BY <1>3, <2>2 DEF TableOf
<1>8. h.vacancy \in TableOf(Row) /\ DOMAIN h.vacancy = DOMAIN g.vacancy \cup new
  <2>1. DOMAIN g.vacancy \subseteq Advertised /\ \A p \in DOMAIN g.vacancy : g.vacancy[p] \in Row
    BY <1>2, Tables
  <2> DEFINE D == DOMAIN g.vacancy \cup new
  <2>2. h.vacancy \in [D -> Row]
    BY <1>1, <1>4, <2>1
  <2> QED
    BY <1>3, <2>1, <2>2 DEF TableOf
<1>9. Effective(g) \subseteq Chosen(b) /\ \A v \in Effective(g) : g.of[v] = v
  BY <1>2 DEF GraphTrue
<1>10. Effective(h) = Effective(g) \cup new
  <2>1. ASSUME NEW v \in new PROVE v \in Effective(h)
    BY <1>1, <1>4, <1>8 DEF Effective
  <2>2. ASSUME NEW v \in Effective(g) PROVE v \in Effective(h)
    BY <1>1, <1>2, <1>8, <1>9 DEF Effective
  <2>3. ASSUME NEW v \in Effective(h), v \notin new PROVE v \in Effective(g)
    BY <1>1, <1>8, <2>3 DEF Effective
  <2> QED
    BY <2>1, <2>2, <2>3
<1>11. GraphTrue(h, c)
  <2>1. ASSUME NEW p \in Chosen(c) PROVE h.of[p] \in Effective(h)
    BY <1>1, <1>3, <1>10 DEF GraphTrue
  <2>2. ASSUME NEW v \in Effective(h) PROVE v \in DOMAIN h.of /\ h.of[v] = v
    BY <1>1, <1>2, <1>3, <1>7, <1>9, <1>10
  <2> QED
    BY <1>1, <1>6, <1>7, <1>8, <2>1, <2>2 DEF GraphTrue
<1>12. ASSUME NEW v \in Effective(h)
       PROVE  EpisodesTrue(h.vacancy[v].episodes, Members(h, v), c)
  <2>1. CASE v \in new
    <3>1. h.vacancy[v].episodes = <<>>
      BY <1>1, <1>4, <2>1
    <3>2. EpisodesTrue(<<>>, Members(h, v), c)
      BY DEF EpisodesTrue
    <3> QED
      BY <3>1, <3>2
  <2>2. CASE v \notin new
    <3>1. v \in Effective(g) /\ h.vacancy[v] = g.vacancy[v]
      BY <1>1, <1>10, <2>2 DEF Effective
    <3>2. Members(g, v) \subseteq Members(h, v)
      BY <1>1 DEF Members
    <3>3. EpisodesTrue(g.vacancy[v].episodes, Members(g, v), b)
      BY <3>1 DEF VacanciesTrue
    <3> QED
      BY <3>1, <3>2, <3>3, EpisodesStay
  <2> QED
    BY <2>1, <2>2
<1> QED
  BY <1>11, <1>12 DEF VacanciesTrue, h

\* The members of one vacancy move to another.
LEMMA MovedKeeps ==
    ASSUME HistoryTrue, NEW c \in Int, NEW g, GraphTrue(g, c), VacanciesTrue(g, c),
           NEW l \in Effective(g), NEW w \in Effective(g), l # w
    PROVE  LET h == Moved(g, l, w)
           IN  /\ GraphTrue(h, c) /\ VacanciesTrue(h, c)
               /\ Effective(h) = Effective(g) \ {l} /\ h.linked = g.linked
               /\ \A v \in Effective(h) \ {w} : /\ Members(h, v) = Members(g, v)
                                                /\ h.vacancy[v] = g.vacancy[v]
<1> DEFINE h == Moved(g, l, w)
<1>1. /\ g \in [linked: TableOf(Nat), of: TableOf(Advertised), vacancy: TableOf(Row)]
      /\ DOMAIN g.linked = Chosen(c) /\ DOMAIN g.of = Chosen(c)
  BY DEF GraphTrue
<1>2. /\ h.linked = g.linked
      /\ h.of = [p \in DOMAIN g.of |-> IF g.of[p] = l THEN w ELSE g.of[p]]
      /\ h.vacancy = [g.vacancy EXCEPT ![l] = [g.vacancy[l] EXCEPT !.merged = w]]
      /\ h = [linked |-> h.linked, of |-> h.of, vacancy |-> h.vacancy]
  BY <1>1 DEF Moved
<1> HIDE DEF h
<1>3. /\ DOMAIN g.vacancy \subseteq Advertised /\ \A v \in DOMAIN g.vacancy : g.vacancy[v] \in Row
      /\ g.vacancy = [v \in DOMAIN g.vacancy |-> g.vacancy[v]]
      /\ DOMAIN g.of \subseteq Advertised /\ \A p \in DOMAIN g.of : g.of[p] \in Advertised
  BY <1>1, Tables
<1>4. /\ l \in DOMAIN g.vacancy /\ w \in DOMAIN g.vacancy /\ w \in Advertised /\ w # None
      /\ l \in DOMAIN g.of /\ w \in DOMAIN g.of /\ g.of[w] = w /\ g.of[l] = l
  BY <1>3, EpisodesAssumption DEF Effective, GraphTrue
<1> DEFINE gone == [g.vacancy[l] EXCEPT !.merged = w]
<1>5. gone \in Row /\ gone.merged = w
  <2>1. PICK r \in Row : r = g.vacancy[l]
    BY <1>3, <1>4
  <2>2. [r EXCEPT !.merged = w] \in Row /\ [r EXCEPT !.merged = w].merged = w
    BY <1>4 DEF Row
  <2> QED
    BY <2>1, <2>2
<1> HIDE DEF gone
<1>6. DOMAIN h.vacancy = DOMAIN g.vacancy /\ \A v \in DOMAIN g.vacancy :
          h.vacancy[v] = IF v = l THEN gone ELSE g.vacancy[v]
  BY <1>2, <1>3 DEF gone
<1>7. h.vacancy \in TableOf(Row)
  <2>1. h.vacancy = [v \in DOMAIN h.vacancy |-> h.vacancy[v]]
    BY <1>2, <1>3
  <2> QED
    BY <1>3, <1>5, <1>6, <2>1, Tables
<1>8. h.of \in TableOf(Advertised) /\ DOMAIN h.of = Chosen(c)
  <2>1. h.of \in [DOMAIN g.of -> Advertised]
    BY <1>2, <1>3, <1>4
  <2> QED
    BY <1>1, <1>3, <2>1 DEF TableOf
<1>9. Effective(h) = Effective(g) \ {l}
  BY <1>4, <1>5, <1>6 DEF Effective
<1>10. GraphTrue(h, c)
  <2>1. ASSUME NEW p \in DOMAIN h.of PROVE h.of[p] \in Effective(h)
    BY <1>1, <1>2, <1>8, <1>9, <2>1 DEF GraphTrue
  <2>2. ASSUME NEW v \in Effective(h) PROVE v \in DOMAIN h.of /\ h.of[v] = v
    BY <1>1, <1>2, <1>8, <1>9 DEF GraphTrue
  <2> QED
    BY <1>1, <1>2, <1>7, <1>8, <2>1, <2>2 DEF GraphTrue
<1>11. \A v \in Effective(h) : Members(g, v) \subseteq Members(h, v)
  BY <1>2, <1>9 DEF Members
<1>12. \A v \in Effective(h) \ {w} : Members(h, v) = Members(g, v) /\ h.vacancy[v] = g.vacancy[v]
  BY <1>2, <1>6, <1>9 DEF Members, Effective
<1>13. ASSUME NEW v \in Effective(h)
       PROVE  EpisodesTrue(h.vacancy[v].episodes, Members(h, v), c)
  <2>1. v \in Effective(g) /\ h.vacancy[v] = g.vacancy[v]
    BY <1>6, <1>9 DEF Effective
  <2>2. EpisodesTrue(g.vacancy[v].episodes, Members(g, v), c)
    BY <2>1 DEF VacanciesTrue
  <2> QED
    BY <1>11, <2>1, <2>2, EpisodesStay
<1> QED
  BY <1>2, <1>9, <1>10, <1>12, <1>13 DEF VacanciesTrue, h

\* Some vacancies are reconciled, each by itself.
LEMMA ReconcileKeeps ==
    ASSUME HistoryTrue, NEW c \in Int, c <= today, NEW g, GraphTrue(g, c), VacanciesTrue(g, c),
           NEW W, W \subseteq Effective(g)
    PROVE  LET h == Reconcile(g, W, c)
           IN  /\ GraphTrue(h, c) /\ VacanciesTrue(h, c) /\ Effective(h) = Effective(g)
               /\ \A v \in W : Reconciled(h, v, c) = h.vacancy[v]
               /\ \A v \in Effective(g) \ W : /\ Reconciled(h, v, c) = Reconciled(g, v, c)
                                              /\ h.vacancy[v] = g.vacancy[v]
<1> DEFINE h == Reconcile(g, W, c)
           R(v) == Reconciled(g, v, c)
<1>1. /\ h.linked = g.linked /\ h.of = g.of
      /\ h.vacancy = [v \in DOMAIN g.vacancy |-> IF v \in W THEN R(v) ELSE g.vacancy[v]]
      /\ h = [linked |-> h.linked, of |-> h.of, vacancy |-> h.vacancy]
  BY DEF Reconcile
<1> HIDE DEF h
<1>2. ASSUME NEW v \in Effective(g)
      PROVE  /\ R(v) = Synced(g.vacancy[v], Canonical(g, v), Members(g, v), c)
             /\ R(v) \in Row /\ R(v).merged = None
             /\ EpisodesTrue(R(v).episodes, Members(g, v), c)
             /\ Synced(R(v), Canonical(g, v), Members(g, v), c) = R(v)
  BY ReconciledRow DEF VacanciesTrue
<1> HIDE DEF R
<1>3. /\ g.vacancy \in TableOf(Row) /\ g.linked \in TableOf(Nat) /\ g.of \in TableOf(Advertised)
      /\ DOMAIN g.linked = Chosen(c) /\ DOMAIN g.of = Chosen(c)
  BY DEF GraphTrue
<1>4. DOMAIN g.vacancy \subseteq Advertised /\ \A v \in DOMAIN g.vacancy : g.vacancy[v] \in Row
  BY <1>3, Tables
<1>5. h.vacancy \in TableOf(Row)
  <2> DEFINE D == DOMAIN g.vacancy
  <2>1. h.vacancy \in [D -> Row]
    BY <1>1, <1>2, <1>4
  <2> QED
    BY <1>4, <2>1 DEF TableOf
<1>6. Effective(h) = Effective(g)
  BY <1>1, <1>2 DEF Effective
<1>7. \A v : Members(h, v) = Members(g, v)
  BY <1>1 DEF Members
<1>8. \A v : Canonical(h, v) = Canonical(g, v)
  BY <1>1, <1>7 DEF Canonical
<1>9. GraphTrue(h, c)
  BY <1>1, <1>3, <1>5, <1>6 DEF GraphTrue
<1>10. \A v \in Effective(g) : h.vacancy[v] = IF v \in W THEN R(v) ELSE g.vacancy[v]
  BY <1>1 DEF Effective
<1>11. VacanciesTrue(h, c)
  BY <1>2, <1>6, <1>7, <1>10 DEF VacanciesTrue
<1>12. ASSUME NEW v \in Effective(g)
       PROVE  Reconciled(h, v, c) = Synced(h.vacancy[v], Canonical(g, v), Members(g, v), c)
  <2>1. Reconciled(h, v, c) = Synced(h.vacancy[v], Canonical(h, v), Members(h, v), c)
    BY <1>6, <1>9, <1>11, ReconciledRow DEF VacanciesTrue
  <2> QED
    BY <1>7, <1>8, <2>1
<1>13. \A v \in W : Reconciled(h, v, c) = h.vacancy[v]
  BY <1>2, <1>10, <1>12
<1>14. \A v \in Effective(g) \ W : /\ Reconciled(h, v, c) = Reconciled(g, v, c)
                                   /\ h.vacancy[v] = g.vacancy[v]
  BY <1>2, <1>10, <1>12 DEF R
<1> QED
  BY <1>6, <1>9, <1>11, <1>13, <1>14 DEF h

\* The vacancies of a pair merge.
LEMMA MergedKeeps ==
    ASSUME HistoryTrue, NEW c \in Int, NEW g, GraphTrue(g, c), VacanciesTrue(g, c),
           NEW p \in DOMAIN g.of, NEW q \in DOMAIN g.of, NEW w \in Winners(g, p, q)
    PROVE  LET h == Merged(g, p, q, w)
           IN  /\ GraphTrue(h, c) /\ VacanciesTrue(h, c)
               /\ w \in Effective(h) /\ h.linked = g.linked
               /\ \A v \in Effective(h) \ {w} : /\ v \in Effective(g)
                                                /\ Members(h, v) = Members(g, v)
                                                /\ h.vacancy[v] = g.vacancy[v]
<1>1. g.of[p] \in Effective(g) /\ g.of[q] \in Effective(g)
  BY DEF GraphTrue
<1>2. w \in {g.of[p], g.of[q]}
  BY DEF Winners
<1>3. CASE g.of[p] = g.of[q]
  <2>1. Merged(g, p, q, w) = g
    BY <1>3 DEF Merged
  <2> QED
    BY <1>1, <1>2, <1>3, <2>1
<1>4. CASE g.of[p] # g.of[q]
  <2>1. PICK l \in {g.of[p], g.of[q]} : l # w /\ Merged(g, p, q, w) = Moved(g, l, w)
    BY <1>2, <1>4 DEF Merged
  <2>2. l \in Effective(g) /\ w \in Effective(g)
    BY <1>1, <1>2
  <2> QED
    BY <2>1, <2>2, MovedKeeps
<1> QED
  BY <1>3, <1>4

-----------------------------------------------------------------------------
\* Time goes on, or an event of today is appended to the chronology.
Grows ==
    \/ history' = history /\ today' \in {today, today + 1}
    \/ /\ today' = today
       /\ \E e \in Event : /\ history' = Append(history, e) /\ e.at = today
                           /\ \A i \in DOMAIN history : history[i].at < today
                           /\ e.type # "NEW" =>
                                  \E j \in DOMAIN history : history[j].posting = e.posting

\* What a chronology that grows keeps.
LEMMA GrownHistory ==
    ASSUME HistoryTrue, Grows
    PROVE  /\ today' \in Nat /\ today <= today'
           /\ \A i \in DOMAIN history : i \in DOMAIN history' /\ history'[i] = history[i]
           /\ \A i \in DOMAIN history' \ DOMAIN history :
                  /\ i = Len(history) + 1 /\ history'[i].at = today
                  /\ \A j \in DOMAIN history : history[j].at < today
           /\ HistoryTrue'
<1>1. today \in Nat /\ history \in Seq(Event) /\ DOMAIN history = 1..Len(history)
  BY DEF HistoryTrue
<1>2. CASE history' = history /\ today' \in {today, today + 1}
  <2>1. \A i \in DOMAIN history : history[i].at \in Nat
    BY Positions DEF Event
  <2>2. today' \in Nat /\ today <= today'
    BY <1>1, <1>2
  <2>3. \A i \in DOMAIN history : history[i].at <= today'
    BY <1>1, <2>1, <2>2 DEF HistoryTrue
  <2> QED
    BY <1>1, <1>2, <2>2, <2>3 DEF HistoryTrue
<1>3. ASSUME today' = today, NEW e \in Event, history' = Append(history, e), e.at = today,
             \A i \in DOMAIN history : history[i].at < today,
             e.type # "NEW" => \E j \in DOMAIN history : history[j].posting = e.posting
      PROVE  /\ \A i \in DOMAIN history : i \in DOMAIN history' /\ history'[i] = history[i]
             /\ \A i \in DOMAIN history' \ DOMAIN history :
                    i = Len(history) + 1 /\ history'[i].at = today
             /\ HistoryTrue'
  <2> DEFINE n == Len(history)
  <2>1. /\ history' \in Seq(Event) /\ Len(history') = n + 1 /\ history'[n + 1] = e
        /\ \A i \in 1..n : history'[i] = history[i]
    BY <1>1, <1>3, AppendedLast
  <2>2. n \in Nat /\ DOMAIN history' = 1..(n + 1) /\ \A i \in 1..(n + 1) : i = n + 1 \/ i \in 1..n
    BY <1>1, <2>1
  <2>3. \A i \in 1..n : i \in 1..(n + 1) /\ i < n + 1
    BY <2>2
  <2>4. ASSUME NEW i \in DOMAIN history', NEW j \in DOMAIN history', i < j
        PROVE  history'[i].at < history'[j].at
    <3>1. i \in 1..n
      BY <2>2, <2>4
    <3>2. CASE j \in 1..n
      BY <1>1, <2>1, <2>4, <3>1, <3>2 DEF HistoryTrue
    <3>3. CASE j = n + 1
      BY <1>1, <1>3, <2>1, <3>1, <3>3
    <3> QED
      BY <2>2, <3>2, <3>3
  <2>5. ASSUME NEW i \in DOMAIN history' PROVE history'[i].at <= today'
    <3>1. CASE i \in 1..n
      BY <1>1, <1>3, <2>1, <3>1 DEF HistoryTrue
    <3>2. CASE i = n + 1
      BY <1>1, <1>3, <2>1, <3>2
    <3> QED
      BY <2>2, <3>1, <3>2
  <2>6. ASSUME NEW i \in DOMAIN history', history'[i].type # "NEW"
        PROVE  \E j \in DOMAIN history' : j < i /\ history'[j].posting = history'[i].posting
    <3>1. CASE i \in 1..n
      <4>1. PICK j \in 1..n : j < i /\ history[j].posting = history[i].posting
        BY <1>1, <2>1, <2>6, <3>1 DEF HistoryTrue
      <4> QED
        BY <2>1, <2>2, <2>3, <3>1, <4>1
    <3>2. CASE i = n + 1
      BY <1>1, <1>3, <2>1, <2>2, <2>3, <2>6, <3>2
    <3> QED
      BY <2>2, <3>1, <3>2
  <2> QED
    BY <1>1, <1>3, <2>1, <2>2, <2>3, <2>4, <2>5, <2>6 DEF HistoryTrue
<1> QED
  BY <1>1, <1>2, <1>3 DEF Grows

\* The evidence of a cutoff that is over is final.
LEMMA FinalEvidence ==
    ASSUME HistoryTrue, Grows, NEW c \in Int, c < today
    PROVE  /\ \A P : /\ Seen(P, c)' = Seen(P, c) /\ Sightings(P, c)' = Sightings(P, c)
                     /\ Closures(P, c)' = Closures(P, c)
           /\ Chosen(c)' = Chosen(c)
           /\ \A p \in Chosen(c) : FirstSeen(p)' = FirstSeen(p)
           /\ \A p : LastSeen(p, c)' = LastSeen(p, c) \/ p \notin Chosen(c)
           /\ \A p : Closure(p, c)' = Closure(p, c)
<1>1. ASSUME NEW P PROVE Seen(P, c)' = Seen(P, c)
  <2>1. today \in Int
    BY DEF HistoryTrue
  <2> QED
    BY <2>1, GrownHistory DEF Seen
<1>2. ASSUME NEW P
      PROVE  Sightings(P, c)' = Sightings(P, c) /\ Closures(P, c)' = Closures(P, c)
  <2>1. \A i \in Seen(P, c) : history'[i] = history[i]
    BY GrownHistory DEF Seen
  <2> QED
    BY <1>1, <2>1 DEF Sightings, Closures, Sighting
<1>3. Chosen(c)' = Chosen(c)
  BY <1>1 DEF Chosen
<1>4. ASSUME NEW p \in Chosen(c) PROVE FirstSeen(p)' = FirstSeen(p)
  <2> DEFINE S == Seen({p}, today)
             T == {i \in DOMAIN history' : history'[i].posting \in {p} /\ history'[i].at <= today'}
  <2>1. S \in SUBSET Nat /\ S # {} /\ S \subseteq DOMAIN history
    <3>1. PICK k : k \in Seen({p}, c)
      BY DEF Chosen
    <3>2. k \in S
      BY <3>1 DEF Seen, HistoryTrue
    <3> QED
      BY <3>2, Positions DEF Seen
  <2>2. S \subseteq T
    BY GrownHistory DEF Seen, HistoryTrue
  <2>3. DOMAIN history' \in SUBSET Nat /\ Len(history) \in Nat /\ DOMAIN history = 1..Len(history)
    BY GrownHistory DEF HistoryTrue
  <2>4. ASSUME NEW i \in T, i \notin S PROVE \A s \in S : s < i
    <3>1. i \notin DOMAIN history
      <4> SUFFICES ASSUME i \in DOMAIN history PROVE FALSE
        OBVIOUS
      <4>1. history'[i] = history[i] /\ history[i].at <= today
        BY GrownHistory DEF HistoryTrue
      <4> QED
        BY <2>4, <4>1 DEF Seen
    <3>2. i \in DOMAIN history'
      OBVIOUS
    <3>3. i = Len(history) + 1
      BY <3>1, <3>2, GrownHistory
    <3>4. \A s \in 1..Len(history) : s < Len(history) + 1
      BY <2>3
    <3> QED
      BY <2>1, <2>3, <3>3, <3>4
  <2>5. Min(S) \in S /\ \A n \in S : Min(S) <= n
    BY <2>1, LeastOne
  <2>6. T \in SUBSET Nat /\ T # {}
    BY <2>1, <2>2, <2>3
  <2>7. Min(T) \in T /\ \A n \in T : Min(T) <= n
    BY <2>6, LeastOne
  <2>8. Min(T) = Min(S)
    <3>1. Min(S) \in T /\ Min(S) \in Nat /\ Min(T) \in Nat /\ Min(T) <= Min(S)
      BY <2>1, <2>2, <2>5, <2>6, <2>7
    <3>2. Min(T) \in S
      BY <2>4, <2>5, <2>7, <3>1
    <3>3. Min(S) <= Min(T)
      BY <2>5, <3>2
    <3> QED
      BY <3>1, <3>3
  <2>9. FirstSeen(p)' = history'[Min(T)].at
    BY DEF FirstSeen, Seen
  <2>10. history'[Min(S)] = history[Min(S)]
    BY <2>1, <2>5, GrownHistory
  <2> QED
    BY <2>8, <2>9, <2>10 DEF FirstSeen
<1>5. ASSUME NEW p \in Chosen(c) PROVE LastSeen(p, c)' = LastSeen(p, c)
  <2>1. c <= today
    BY DEF HistoryTrue
  <2>2. Sightings({p}, c) # {}
    BY <2>1, FirstIsNew
  <2>3. Sightings({p}, c) \in SUBSET Nat /\ \A i \in Sightings({p}, c) : i <= Len(history)
    BY Positions DEF Sightings
  <2>4. Max(Sightings({p}, c)) \in Sightings({p}, c)
    BY <2>2, <2>3, Positions, GreatestOne
  <2>5. history'[Max(Sightings({p}, c))] = history[Max(Sightings({p}, c))]
    BY <2>4, GrownHistory DEF Sightings, Seen
  <2> QED
    BY <1>2, <2>5 DEF LastSeen
<1>6. ASSUME NEW p PROVE Closure(p, c)' = Closure(p, c)
  BY <1>2 DEF Closure
<1> QED
  BY <1>1, <1>2, <1>3, <1>4, <1>5, <1>6

\* What is made of the last episode depends on final evidence only.
LEMMA FinalEpisodes ==
    ASSUME HistoryTrue, Grows, NEW known, NEW closure, closure = 0 \/ closure \in DOMAIN history,
           NEW after, after # {} => Min(after) \in DOMAIN history, NEW last
    PROVE  SyncedEpisodes(known, closure, after, last)' =
               SyncedEpisodes(known, closure, after, last)
<1>1. closure # 0 => history'[closure] = history[closure]
  BY GrownHistory
<1>2. after # {} => history'[Min(after)] = history[Min(after)]
  BY GrownHistory
<1>3. CASE closure = 0
  BY <1>3 DEF SyncedEpisodes
<1>4. CASE closure # 0 /\ after = {}
  BY <1>1, <1>4 DEF SyncedEpisodes
<1>5. CASE closure # 0 /\ after # {}
  BY <1>1, <1>2, <1>5 DEF SyncedEpisodes
<1> QED
  BY <1>3, <1>4, <1>5

\* And so does the row of a vacancy.
LEMMA FinalRow ==
    ASSUME HistoryTrue, Grows, NEW c \in Int, c < today, NEW row, NEW p, NEW P
    PROVE  Synced(row, p, P, c)' = Synced(row, p, P, c)
<1> DEFINE F == {FirstSeen(q) : q \in P \cap Chosen(c)}
           L == {LastSeen(q, c) : q \in P \cap Chosen(c)}
           closure == Closure(p, c)
           after == {i \in Sightings(P, c) : i > closure}
           dead == closure # 0 /\ after = {}
           known == IF row.episodes = <<>> THEN <<Episode(Min(F), Max(L))>> ELSE row.episodes
<1>1. F' = F /\ L' = L
  BY FinalEvidence
<1>2. closure' = closure /\ after' = after
  BY FinalEvidence
<1>3. closure = 0 \/ closure \in DOMAIN history
  <2>1. p \in {p}
    OBVIOUS
  <2>2. closure = 0 \/ closure \in Closures({p}, c)
    BY <2>1, ClosureOfGroup
  <2> QED
    BY <2>2 DEF Closures, Seen
<1>4. after # {} => Min(after) \in DOMAIN history
  <2>1. after \in SUBSET Nat
    BY Positions DEF Sightings
  <2>2. after \subseteq DOMAIN history
    BY DEF Sightings, Seen
  <2> HIDE DEF after
  <2> QED
    BY <2>1, <2>2, LeastOne
<1>5. closure # 0 => history'[closure] = history[closure]
  BY <1>3, GrownHistory
<1>6. PICK f, l, x, a, k : f = Min(F) /\ l = Max(L) /\ x = closure /\ a = after /\ k = known
  OBVIOUS
<1>7. f = Min(F)' /\ l = Max(L)' /\ x = closure' /\ a = after' /\ k = known'
  BY <1>1, <1>2, <1>6
<1>8. Synced(row, p, P, c) =
          [first |-> f, last |-> l, canonical |-> p, merged |-> row.merged,
           status |-> IF x # 0 /\ a = {} THEN "CLOSED_OBSERVED" ELSE "ACTIVE",
           closed |-> IF x # 0 /\ a = {} THEN history[x].at ELSE None,
           episodes |-> SyncedEpisodes(k, x, a, l)]
  BY <1>6 DEF Synced
<1>9. Synced(row, p, P, c)' =
          [first |-> f, last |-> l, canonical |-> p, merged |-> row.merged,
           status |-> IF x # 0 /\ a = {} THEN "CLOSED_OBSERVED" ELSE "ACTIVE",
           closed |-> IF x # 0 /\ a = {} THEN history'[x].at ELSE None,
           episodes |-> SyncedEpisodes(k, x, a, l)']
  BY <1>7 DEF Synced
<1>10. SyncedEpisodes(k, x, a, l)' = SyncedEpisodes(k, x, a, l)
  BY <1>3, <1>4, <1>6, FinalEpisodes
<1> QED
  BY <1>5, <1>6, <1>8, <1>9, <1>10

\* And what the episodes say of it.
LEMMA FinalTruth ==
    ASSUME HistoryTrue, Grows, NEW c \in Int, c < today, NEW es, NEW P, EpisodesTrue(es, P, c)
    PROVE  EpisodesTrue(es, P, c)'
<1>1. \A i \in DOMAIN history : history'[i] = history[i]
  BY GrownHistory
<1>2. Sightings(P, c)' = Sightings(P, c) /\ Closures(P, c)' = Closures(P, c)
  BY FinalEvidence
<1>3. /\ \A i \in Sightings(P, c) : history'[i] = history[i]
      /\ \A i \in Closures(P, c) : history'[i] = history[i]
  BY <1>1 DEF Sightings, Closures, Seen
<1>4. \A e : Opens(e, P, c) => Opens(e, P, c)'
  BY <1>2, <1>3 DEF Opens
<1>5. \A e, f : Reopens(e, f, P, c) => Reopens(e, f, P, c)'
  BY <1>2, <1>3 DEF Reopens
<1> QED
  BY <1>4, <1>5 DEF EpisodesTrue

-----------------------------------------------------------------------------
\* A projection: true to the evidence of the last applied run, with nothing left to reconcile.
Good(g, c) ==
    /\ GraphTrue(g, c) /\ VacanciesTrue(g, c)
    /\ \A v \in Effective(g) : Reconciled(g, v, c) = g.vacancy[v]

\* What later events do not change.
LEMMA GoodStays ==
    ASSUME HistoryTrue, Grows, NEW c \in Int, c < today, NEW g, Good(g, c)
    PROVE  Good(g, c)'
<1>1. GraphTrue(g, c)'
  BY FinalEvidence DEF Good, GraphTrue
<1>2. VacanciesTrue(g, c)'
  <2>1. ASSUME NEW v \in Effective(g)
        PROVE  EpisodesTrue(g.vacancy[v].episodes, Members(g, v), c)'
    <3>1. EpisodesTrue(g.vacancy[v].episodes, Members(g, v), c)
      BY DEF Good, VacanciesTrue
    <3> QED
      BY <3>1, FinalTruth
  <2> QED
    BY <2>1 DEF VacanciesTrue
<1>3. ASSUME NEW v \in Effective(g)
      PROVE  Reconciled(g, v, c)' = g.vacancy[v]
  <2>1. Reconciled(g, v, c)' = Reconciled(g, v, c)
    <3>1. Chosen(c)' = Chosen(c)
      BY FinalEvidence
    <3>2. Synced(g.vacancy[v], Canonical(g, v), Members(g, v), c)' =
              Synced(g.vacancy[v], Canonical(g, v), Members(g, v), c)
      BY FinalRow
    <3> QED
      BY <3>1, <3>2 DEF Reconciled
  <2> QED
    BY <2>1 DEF Good
<1> QED
  BY <1>1, <1>2, <1>3 DEF Good

\* The invariant: the projection is good for the evidence of its cutoff, which is over.
EpisodesInv ==
    /\ HistoryTrue
    /\ \E g, c : /\ g = Projection /\ c = applied.asOf
                 /\ c \in Int /\ c < today /\ Good(g, c)

\* An empty database has nothing to reconcile.
LEMMA EpisodesStart == EpisodesInit => EpisodesInv
<1> SUFFICES ASSUME EpisodesInit PROVE EpisodesInv
  OBVIOUS
<1>1. history = <<>> /\ today = 0
  BY DEF EpisodesInit
<1>2. HistoryTrue
  <2>1. <<>> \in Seq(Event) /\ DOMAIN <<>> = {}
    OBVIOUS
  <2> QED
    BY <1>1, <2>1 DEF HistoryTrue
<1>3. Projection = [linked |-> <<>>, of |-> <<>>, vacancy |-> <<>>] /\ applied.asOf = -1
  BY DEF EpisodesInit, Projection
<1>4. Chosen(-1) = {}
  BY <1>1 DEF Chosen, Seen
<1>5. \A S : <<>> \in TableOf(S)
  <2>1. DOMAIN <<>> = {} /\ <<>> = [p \in {} |-> <<>>[p]]
    OBVIOUS
  <2> QED
    BY <2>1, Tables
<1> DEFINE g == [linked |-> <<>>, of |-> <<>>, vacancy |-> <<>>]
<1>6. g.linked = <<>> /\ g.of = <<>> /\ g.vacancy = <<>>
      /\ g \in [linked: TableOf(Nat), of: TableOf(Advertised), vacancy: TableOf(Row)]
  BY <1>5
<1>7. g = Projection
  BY <1>3
<1> HIDE DEF g
<1>8. DOMAIN <<>> = {}
  OBVIOUS
<1>9. Good(g, -1)
  BY <1>4, <1>6, <1>8 DEF Good, GraphTrue, VacanciesTrue, Effective
<1>10. -1 \in Int /\ -1 < today
  BY <1>1
<1> QED
  BY <1>2, <1>3, <1>7, <1>9, <1>10 DEF EpisodesInv

\* A step that leaves a good projection.
LEMMA EpisodesKept ==
    ASSUME HistoryTrue, Grows, NEW g, NEW c \in Int, c < today, Good(g, c),
           Projection' = g, applied'.asOf = c
    PROVE  EpisodesInv'
<1>1. HistoryTrue' /\ c < today'
  BY GrownHistory DEF HistoryTrue
<1>2. Good(g, c)'
  BY GoodStays
<1> QED
  BY <1>1, <1>2 DEF EpisodesInv

\* A graph written to the tables is the projection.
LEMMA GraphWritten ==
    ASSUME NEW h, NEW c, Good(h, c), SetGraph(h)
    PROVE  Projection' = h
<1>1. h = [linked |-> h.linked, of |-> h.of, vacancy |-> h.vacancy]
  BY DEF Good, GraphTrue
<1> QED
  BY <1>1 DEF SetGraph, Projection

\* A run leaves a good projection of its cutoff, if it applies.
LEMMA ReconciledGood ==
    ASSUME HistoryTrue, NEW c \in Int, c <= today, NEW g, GraphTrue(g, c), VacanciesTrue(g, c)
    PROVE  Good(ReconcileAll(g, c), c)
BY ReconcileKeeps DEF ReconcileAll, Good

\* Each action keeps the invariant: events of today leave the evidence of the cutoff alone, a run
\* or a merge leaves a projection it has reconciled.
LEMMA EpisodesStep == EpisodesInv /\ [EpisodesNext]_episodeVars => EpisodesInv'
<1> SUFFICES ASSUME EpisodesInv, [EpisodesNext]_episodeVars PROVE EpisodesInv'
  OBVIOUS
<1>1. HistoryTrue
  BY DEF EpisodesInv
<1>2. PICK g, b : /\ g = Projection /\ b = applied.asOf
                  /\ b \in Int /\ b < today /\ Good(g, b)
  BY DEF EpisodesInv
<1>3. g.linked = linked /\ g.of = vacancyOf /\ g.vacancy = vacancy
  BY <1>2 DEF Projection
<1>4. today \in Int
  BY <1>1 DEF HistoryTrue
<1>5. CASE NextDay
  <2>1. Grows /\ Projection' = g /\ applied'.asOf = b
    BY <1>2, <1>5 DEF NextDay, Grows, Projection
  <2> QED
    BY <1>1, <1>2, <2>1, EpisodesKept
<1>6. ASSUME NEW p \in Advertised, NEW type \in {"NEW", "STILL_ACTIVE", "CLOSED_OBSERVED"},
             Happen(p, type)
      PROVE  EpisodesInv'
  <2> DEFINE e == [posting |-> p, type |-> type, at |-> today]
  <2>1. e \in Event /\ e.at = today
    BY <1>1 DEF Event, HistoryTrue
  <2>2. e.type # "NEW" => \E j \in DOMAIN history : history[j].posting = e.posting
    BY <1>6 DEF Happen, Seen
  <2>3. /\ history' = Append(history, e) /\ today' = today
        /\ \A i \in DOMAIN history : history[i].at < today
    BY <1>6 DEF Happen
  <2> HIDE DEF e
  <2>4. Grows
    BY <2>1, <2>2, <2>3 DEF Grows
  <2>5. Projection' = g /\ applied'.asOf = b
    BY <1>2, <1>6 DEF Happen, Projection
  <2> QED
    BY <1>1, <1>2, <2>4, <2>5, EpisodesKept
<1>7. ASSUME NEW c \in 0..LastDay, NEW pair \in {{}} \cup {{p, q} : p, q \in Advertised},
             RunCutoff(c, pair)
      PROVE  EpisodesInv'
  <2>1. c \in Int /\ c < today /\ c <= today /\ pair \subseteq Chosen(c)
    BY <1>4, <1>7, EpisodesAssumption DEF RunCutoff
  <2>2. Grows
    BY <1>7 DEF RunCutoff, Grows
  <2>3. CASE c >= applied.asOf
    <3> DEFINE h == LinkAll(Projection, c)
    <3>1. b <= c /\ GraphTrue(g, b) /\ VacanciesTrue(g, b)
      BY <1>2, <2>1, <2>3 DEF Good
    <3>2. GraphTrue(h, c) /\ VacanciesTrue(h, c)
      BY <1>1, <1>2, <2>1, <3>1, LinkKeeps
    <3>3. /\ applied'.asOf = c
          /\ \/ SetGraph(ReconcileAll(h, c))
             \/ \E p, q \in pair : \E w \in Winners(h, p, q) :
                    SetGraph(ReconcileAll(Merged(h, p, q, w), c))
      BY <1>7, <2>3 DEF RunCutoff
    <3>4. PICK k : k = h
      OBVIOUS
    <3> HIDE DEF h
    <3>5. CASE SetGraph(ReconcileAll(k, c))
      <4>1. Good(ReconcileAll(k, c), c)
        BY <1>1, <2>1, <3>2, <3>4, ReconciledGood
      <4>2. Projection' = ReconcileAll(k, c)
        BY <3>5, <4>1, GraphWritten
      <4> QED
        BY <1>1, <2>1, <2>2, <3>3, <4>1, <4>2, EpisodesKept
    <3>6. ASSUME NEW p \in pair, NEW q \in pair, NEW w \in Winners(k, p, q),
                 SetGraph(ReconcileAll(Merged(k, p, q, w), c))
          PROVE  EpisodesInv'
      <4>1. GraphTrue(k, c) /\ VacanciesTrue(k, c)
        BY <3>2, <3>4
      <4>2. p \in DOMAIN k.of /\ q \in DOMAIN k.of
        BY <2>1, <4>1 DEF GraphTrue
      <4>3. PICK m : m = Merged(k, p, q, w)
        OBVIOUS
      <4>4. GraphTrue(m, c) /\ VacanciesTrue(m, c)
        BY <1>1, <2>1, <4>1, <4>2, <4>3, MergedKeeps
      <4>5. PICK r : r = ReconcileAll(m, c)
        OBVIOUS
      <4>6. Good(r, c)
        BY <1>1, <2>1, <4>4, <4>5, ReconciledGood
      <4>7. Projection' = r
        BY <3>6, <4>3, <4>5, <4>6, GraphWritten
      <4> QED
        BY <1>1, <2>1, <2>2, <3>3, <4>6, <4>7, EpisodesKept
    <3> QED
      BY <3>3, <3>4, <3>5, <3>6
  <2>4. CASE ~(c >= applied.asOf)
    <3>1. Projection' = g /\ applied'.asOf = b
      BY <1>2, <1>7, <2>4 DEF RunCutoff, Projection
    <3> QED
      BY <1>1, <1>2, <2>2, <3>1, EpisodesKept
  <2> QED
    BY <2>3, <2>4
<1>8. ASSUME NEW p \in Advertised, NEW q \in Advertised, ResolveMerge(p, q)
      PROVE  EpisodesInv'
  <2>1. GraphTrue(g, b) /\ VacanciesTrue(g, b) /\ b <= today
    BY <1>2, <1>4 DEF Good
  <2>2. {p, q} \subseteq Chosen(b)
    BY <1>2, <1>8 DEF ResolveMerge
  <2>3. p \in DOMAIN g.of /\ q \in DOMAIN g.of
    BY <2>1, <2>2 DEF GraphTrue
  <2>4. PICK w \in Winners(g, p, q) : SetGraph(Reconcile(Merged(g, p, q, w), {w}, b))
    BY <1>2, <1>8 DEF ResolveMerge
  <2>5. PICK m : m = Merged(g, p, q, w)
    OBVIOUS
  <2>6. /\ GraphTrue(m, b) /\ VacanciesTrue(m, b) /\ w \in Effective(m) /\ m.linked = g.linked
        /\ \A v \in Effective(m) \ {w} : /\ v \in Effective(g) /\ Members(m, v) = Members(g, v)
                                         /\ m.vacancy[v] = g.vacancy[v]
    BY <1>1, <1>2, <2>1, <2>3, <2>5, MergedKeeps
  <2>7. ASSUME NEW v \in Effective(m) \ {w} PROVE Reconciled(m, v, b) = m.vacancy[v]
    <3>1. v \in Effective(g) /\ Members(m, v) = Members(g, v) /\ m.vacancy[v] = g.vacancy[v]
      BY <2>6
    <3>2. Canonical(m, v) = Canonical(g, v)
      BY <2>6, <3>1 DEF Canonical
    <3>3. Reconciled(m, v, b) = Reconciled(g, v, b)
      BY <3>1, <3>2 DEF Reconciled
    <3> QED
      BY <1>2, <3>1, <3>3 DEF Good
  <2>8. PICK r : r = Reconcile(m, {w}, b)
    OBVIOUS
  <2>9. Good(r, b)
    <3>1. /\ GraphTrue(r, b) /\ VacanciesTrue(r, b) /\ Effective(r) = Effective(m)
          /\ Reconciled(r, w, b) = r.vacancy[w]
          /\ \A v \in Effective(m) \ {w} : /\ Reconciled(r, v, b) = Reconciled(m, v, b)
                                           /\ r.vacancy[v] = m.vacancy[v]
      <4>1. {w} \subseteq Effective(m)
        BY <2>6
      <4> QED
        BY <1>1, <1>2, <2>1, <2>6, <2>8, <4>1, ReconcileKeeps
    <3> QED
      BY <2>7, <3>1 DEF Good
  <2>10. Projection' = r
    BY <2>4, <2>5, <2>8, <2>9, GraphWritten
  <2>11. Grows /\ applied'.asOf = b
    BY <1>2, <1>8 DEF ResolveMerge, Grows
  <2> QED
    BY <1>1, <1>2, <2>9, <2>10, <2>11, EpisodesKept
<1>9. CASE UNCHANGED episodeVars
  <2>1. Grows /\ Projection' = g /\ applied'.asOf = b
    BY <1>2, <1>9 DEF episodeVars, Grows, Projection
  <2> QED
    BY <1>1, <1>2, <2>1, EpisodesKept
<1> QED
  BY <1>5, <1>6, <1>7, <1>8, <1>9 DEF EpisodesNext

\* Every state satisfies the invariant.
THEOREM EpisodesInvariant == EpisodesSpec => []EpisodesInv
BY EpisodesStart, EpisodesStep, PTL DEF EpisodesSpec

\* A vacancy has no more episodes than its postings came back, they open one after the other and
\* none ends before it opened, whatever the order of runs, merges and events.
THEOREM EpisodesAreReal == EpisodesSpec => []EpisodesReal
<1>1. EpisodesInv => EpisodesReal
  <2> SUFFICES ASSUME EpisodesInv PROVE EpisodesReal
    OBVIOUS
  <2>1. PICK g, c : g = Projection /\ c = applied.asOf /\ c \in Int /\ c < today /\ Good(g, c)
    BY DEF EpisodesInv
  <2>2. HistoryTrue /\ vacancy = g.vacancy
    BY <2>1 DEF EpisodesInv, Projection
  <2>3. ASSUME NEW v \in Effective(g), g.vacancy[v].episodes # <<>>
        PROVE  LET es == g.vacancy[v].episodes
               IN  /\ Len(es) <= EpisodeNumber(Members(g, v), c)
                   /\ \A i \in 1..Len(es) :
                          /\ es[i].closed # None => es[i].opened <= es[i].closed
                          /\ i < Len(es) => es[i].closed # None /\ es[i].opened < es[i + 1].opened
    <3> DEFINE es == g.vacancy[v].episodes
    <3>1. GraphTrue(g, c) /\ EpisodesTrue(es, Members(g, v), c)
      BY <2>1 DEF Good, VacanciesTrue
    <3>2. es \in Seq(EpisodeRow) /\ DOMAIN es = 1..Len(es)
      BY <3>1, OneVacancy DEF Row
    <3> HIDE DEF es
    <3>3. Len(es) <= EpisodeNumber(Members(g, v), c)
      BY <2>2, <2>3, <3>1, <3>2, EpisodesCounted DEF es
    <3>4. \A i \in 1..Len(es) : i < Len(es) => es[i].opened < es[i + 1].opened
      BY <2>2, <3>1, <3>2, OpenInTurn
    <3> QED
      BY <3>1, <3>2, <3>3, <3>4 DEF EpisodesTrue, es
  <2> QED
    BY <2>1, <2>2, <2>3 DEF EpisodesReal
<1> QED
  BY <1>1, EpisodesInvariant, PTL

\* To reconcile again what a run or a merge left changes nothing.
THEOREM ReconciliationsSettle == EpisodesSpec => []Settled
<1>1. EpisodesInv => Settled
  <2> SUFFICES ASSUME EpisodesInv PROVE Settled
    OBVIOUS
  <2>1. PICK g, c : g = Projection /\ c = applied.asOf /\ Good(g, c)
    BY DEF EpisodesInv
  <2>2. vacancy = g.vacancy
    BY <2>1 DEF Projection
  <2> QED
    BY <2>1, <2>2 DEF Settled, Good
<1> QED
  BY <1>1, EpisodesInvariant, PTL

-----------------------------------------------------------------------------
(* The identity of a vacancy.                                              *)


USE IdentityAssumption DEF Never

-----------------------------------------------------------------------------
(* Clusters: what uniting two of them does.                                *)

LEMMA UnionTyped ==
    ASSUME NEW root \in [Posting -> Posting], NEW pr \in Pair
    PROVE  Union(root, pr) \in [Posting -> Posting]
BY DEF Union, Pair

\* Uniting a pair puts its sides into one cluster and takes no cluster apart.
LEMMA UnionUnites ==
    ASSUME NEW root \in [Posting -> Posting], NEW pr \in Pair
    PROVE  /\ Union(root, pr)[pr[1]] = Union(root, pr)[pr[2]]
           /\ \A p, q \in Posting : root[p] = root[q] => Union(root, pr)[p] = Union(root, pr)[q]
BY DEF Union, Pair

\* It joins nothing but the clusters of the two sides.
LEMMA UnionJoinsOnly ==
    ASSUME NEW root \in [Posting -> Posting], NEW pr \in Pair,
           NEW p \in Posting, NEW q \in Posting,
           Union(root, pr)[p] = Union(root, pr)[q]
    PROVE  \/ root[p] = root[q]
           \/ root[p] = root[pr[1]] /\ root[q] = root[pr[2]]
           \/ root[p] = root[pr[2]] /\ root[q] = root[pr[1]]
BY DEF Union, Pair

\* The clusters stay the connected components of the united pairs.
LEMMA UnionComponents ==
    ASSUME NEW root \in [Posting -> Posting], NEW merged \in SUBSET Pair, NEW pr \in Pair,
           Components(root, merged)
    PROVE  Components(Union(root, pr), merged \cup {pr})
<1>0. /\ Union(root, pr)[pr[1]] = Union(root, pr)[pr[2]]
      /\ \A p, q \in Posting : root[p] = root[q] => Union(root, pr)[p] = Union(root, pr)[q]
  BY UnionUnites
<1>1. \A q \in merged \cup {pr} : Union(root, pr)[q[1]] = Union(root, pr)[q[2]]
  <2> TAKE q \in merged \cup {pr}
  <2>1. CASE q = pr
    BY <2>1, <1>0
  <2>2. CASE q \in merged
    <3>1. root[q[1]] = root[q[2]] /\ q[1] \in Posting /\ q[2] \in Posting
      BY <2>2 DEF Components, Pair
    <3> QED BY <3>1, <1>0
  <2> QED BY <2>1, <2>2
<1>2. ASSUME NEW S \in SUBSET Posting,
             \A q \in merged \cup {pr} : q[1] \in S <=> q[2] \in S,
             NEW p \in Posting, NEW q \in Posting, Union(root, pr)[p] = Union(root, pr)[q]
      PROVE  p \in S <=> q \in S
  <2>1. \A x, y \in Posting : root[x] = root[y] => (x \in S <=> y \in S)
    BY <1>2 DEF Components
  <2>2. pr[1] \in S <=> pr[2] \in S
    BY <1>2
  <2>3. pr[1] \in Posting /\ pr[2] \in Posting
    BY DEF Pair
  <2> QED BY <1>2, <2>1, <2>2, <2>3, UnionJoinsOnly
<1> QED BY <1>1, <1>2 DEF Components

-----------------------------------------------------------------------------
(* The projection: what a merge does to it.                                *)

LEMMA LinkTyped ==
    ASSUME NEW g \in Graph, NEW S \in SUBSET Posting
    PROVE  /\ Link(g, S) \in Graph
           /\ Link(g, S).vacancyOf = [p \in Posting |->
                  IF p \in S /\ g.vacancyOf[p] = None THEN p ELSE g.vacancyOf[p]]
BY DEF Link, Graph

LEMMA MergeTyped ==
    ASSUME NEW g \in Graph, NEW v \in Posting \cup {None}, NEW w \in Posting \cup {None}
    PROVE  Merge(g, v, w) \in Graph
BY DEF Merge, Graph

\* Whatever is merged, members of one vacancy stay members of one.
LEMMA MergeKeepsTogether ==
    ASSUME NEW g \in Graph, NEW v, NEW w, NEW p \in Posting, NEW q \in Posting,
           g.vacancyOf[p] = g.vacancyOf[q]
    PROVE  Merge(g, v, w).vacancyOf[p] = Merge(g, v, w).vacancyOf[q]
BY DEF Merge, Graph

LEMMA UniteFields ==
    ASSUME NEW r \in Run, NEW pr \in Pair
    PROVE  /\ Unite(r, pr) \in Run
           /\ Unite(r, pr).cutoff = r.cutoff
           /\ Unite(r, pr).apply = r.apply
           /\ Unite(r, pr).todo = r.todo
           /\ Unite(r, pr).known = r.known
           /\ Unite(r, pr).pending = r.pending
           /\ Unite(r, pr).root = Union(r.root, pr)
           /\ Unite(r, pr).merged = r.merged \cup {pr}
           /\ r.apply => Unite(r, pr).graph = Merge(r.graph, r.held[pr[1]], r.held[pr[2]])
<1> DEFINE g == Merge(r.graph, r.held[pr[1]], r.held[pr[2]])
           root == Union(r.root, pr)
           held == [r.held EXCEPT ![pr[1]] = g.vacancyOf[pr[1]], ![pr[2]] = g.vacancyOf[pr[2]]]
<1>1. pr[1] \in Posting /\ pr[2] \in Posting /\ r.root \in [Posting -> Posting]
      /\ r.graph \in Graph /\ r.held \in [Posting -> Posting \cup {None}]
  BY DEF Run, Pair
<1>2. g \in Graph /\ root \in [Posting -> Posting]
  BY <1>1, MergeTyped, UnionTyped
<1>3. held \in [Posting -> Posting \cup {None}]
  BY <1>1, <1>2 DEF Graph
<1>4. Unite(r, pr) = IF ~r.apply THEN [r EXCEPT !.root = root, !.merged = @ \cup {pr}]
                     ELSE [r EXCEPT !.root = root, !.merged = @ \cup {pr},
                                    !.graph = g, !.held = held]
  BY DEF Unite, Run
<1> HIDE DEF g, root, held
<1>5. /\ Unite(r, pr) \in Run
      /\ Unite(r, pr).cutoff = r.cutoff /\ Unite(r, pr).apply = r.apply
      /\ Unite(r, pr).todo = r.todo /\ Unite(r, pr).known = r.known
      /\ Unite(r, pr).pending = r.pending
      /\ Unite(r, pr).root = root /\ Unite(r, pr).merged = r.merged \cup {pr}
      /\ r.apply => Unite(r, pr).graph = g
  <2> DEFINE merged == r.merged \cup {pr}
  <2>1. merged \in SUBSET Pair
    BY DEF Run
  <2>2. r.apply \in BOOLEAN
    BY DEF Run
  <2>3. CASE ~r.apply
    <3>1. Unite(r, pr) = [r EXCEPT !.root = root, !.merged = merged]
      BY <1>4, <2>3
    <3> HIDE DEF merged
    <3>2. [r EXCEPT !.root = root, !.merged = merged] \in Run
      BY <1>2, <2>1 DEF Run
    <3> QED BY <2>3, <3>1, <3>2 DEF Run, merged
  <2>4. CASE r.apply
    <3>1. Unite(r, pr) = [r EXCEPT !.root = root, !.merged = merged, !.graph = g, !.held = held]
      BY <1>4, <2>4
    <3> HIDE DEF merged
    <3>2. [r EXCEPT !.root = root, !.merged = merged, !.graph = g, !.held = held] \in Run
      BY <1>2, <1>3, <2>1 DEF Run
    <3> QED BY <2>4, <3>1, <3>2 DEF Run, merged
  <2> QED BY <2>2, <2>3, <2>4
<1> QED BY <1>5 DEF g, root

-----------------------------------------------------------------------------
(* The inductive invariant.                                                *)

\* What g unites, h unites too.
Keeps(g, h) ==
    \A p, q \in Posting :
        g.vacancyOf[p] # None /\ g.vacancyOf[p] = g.vacancyOf[q] => h.vacancyOf[p] = h.vacancyOf[q]

\* A decision that a run of cutoff c must take over for a pair.
Binds(h, c) == h.at <= c /\ h.material = facts[c][h.pair]

\* Facts are drawn about postings of the cutoff only.
Drawn ==
    \A c \in Cutoff, pr \in Pair :
        facts[c][pr] # None => pr[1] \in Selected(c) /\ pr[2] \in Selected(c)

\* The transaction of a run: it belongs to a cutoff without a result, it does not fall
\* behind the projection, and its clusters are those of the pairs behind it.
UnderWay ==
    /\ run.cutoff = Never => run = NoRun
    /\ run.cutoff # Never => ~result[run.cutoff].done
    /\ \A pr \in run.todo : pr[1] \in Selected(run.cutoff) /\ pr[2] \in Selected(run.cutoff)
    /\ \A pr \in run.pending : pr \notin run.todo /\ facts[run.cutoff][pr] \in ReviewMaterial
    /\ run.apply => run.cutoff > watermark /\ Keeps(graph, run.graph)
    /\ run.known \subseteq human
    /\ Components(run.root, run.merged)

\* HumanRespected of the run under way, for the pairs it has behind it.
RespectsSoFar ==
    \A h \in run.known : h.pair \notin run.todo /\ Binds(h, run.cutoff) =>
        /\ h.pair \notin run.pending
        /\ h.outcome = "MERGE" => run.root[h.pair[1]] = run.root[h.pair[2]]

\* The ledger: what is recorded belongs to runs that are done, and a review item stays
\* pending until the one decision about it commits.
Recorded ==
    /\ watermark # Never => result[watermark].done
    /\ \A c \in Cutoff : ~result[c].done => result[c].known = {}
    /\ \A c \in Cutoff, pr \in Pair :
           review[c][pr] # "NONE" => result[c].done /\ facts[c][pr] \in ReviewMaterial
    /\ \A h \in open : review[h.run][h.pair] = "PENDING"
    /\ \A h, i \in open : h.run = i.run /\ h.pair = i.pair => h = i
    /\ \A h \in human : review[h.run][h.pair] \notin {"NONE", "PENDING"}

IInv ==
    /\ TypeOK
    /\ Drawn
    /\ UnderWay
    /\ RespectsSoFar
    /\ Recorded
    /\ ClustersAreComponents
    /\ ReviewsSeparate
    /\ HumanRespected

-----------------------------------------------------------------------------
(* It holds initially.                                                     *)

LEMMA NoRunTyped == NoRun \in Run /\ Components(NoRun.root, NoRun.merged)
<1>1. EmptyGraph \in Graph
  BY DEF EmptyGraph, Graph
<1>2. NoRun \in Run
  BY <1>1 DEF NoRun, Run
<1>3. Components([p \in Posting |-> p], {})
  BY DEF Components
<1> QED BY <1>2, <1>3 DEF NoRun

LEMMA InitialInvariant == Init => IInv
<1> SUFFICES ASSUME Init PROVE IInv
  OBVIOUS
<1>1. /\ NoResult \in Result
      /\ NoResult.root = [p \in Posting |-> p] /\ NoResult.merged = {}
      /\ NoResult.known = {} /\ ~NoResult.done
  BY DEF NoResult, Result
<1>2. firstSeen \in [Posting -> Nat]
  BY DEF Init
<1>3. TypeOK
  <2>1. EmptyGraph \in Graph
    BY DEF EmptyGraph, Graph
  <2>2. /\ facts \in [Cutoff -> [Pair -> Material \cup {None}]]
        /\ review \in [Cutoff -> [Pair -> Status]]
        /\ result \in [Cutoff -> Result]
    BY <1>1 DEF Init, Status
  <2>3. clock \in Nat /\ watermark \in Cutoff \cup {Never} /\ graph \in Graph /\ run \in Run
        /\ human \subseteq Decision /\ open \subseteq Decision /\ applications \subseteq Application
    BY <2>1, NoRunTyped DEF Init
  <2> QED BY <1>2, <2>2, <2>3 DEF TypeOK
<1>4. Drawn
  BY DEF Init, Drawn
<1>5. UnderWay /\ RespectsSoFar
  BY NoRunTyped DEF Init, UnderWay, RespectsSoFar, NoRun
<1>6. Recorded
  BY <1>1 DEF Init, Recorded
<1>7. ClustersAreComponents
  <2>1. Components(NoResult.root, NoResult.merged)
    BY <1>1 DEF Components
  <2>2. \A c \in Cutoff : result[c] = NoResult
    BY DEF Init
  <2> QED BY <2>1, <2>2 DEF ClustersAreComponents
<1>8. ReviewsSeparate /\ HumanRespected
  BY <1>1 DEF Init, ReviewsSeparate, HumanRespected
<1> QED BY <1>3, <1>4, <1>5, <1>6, <1>7, <1>8 DEF IInv

-----------------------------------------------------------------------------
(* The steps of a run preserve it.                                         *)

\* What an invariant says of the records of a state, field by field.
LEMMA Fields ==
    ASSUME TypeOK
    PROVE  /\ run.cutoff \in Cutoff \cup {Never} /\ run.apply \in BOOLEAN
           /\ run.todo \in SUBSET Pair /\ run.pending \in SUBSET Pair
           /\ run.root \in [Posting -> Posting] /\ run.merged \in SUBSET Pair
           /\ run.known \in SUBSET Decision /\ run.applied \in SUBSET Application
           /\ run.graph \in Graph /\ run.held \in [Posting -> Posting \cup {None}]
           /\ \A c \in Cutoff : /\ result[c] \in Result
                                /\ result[c].known \in SUBSET Decision
                                /\ result[c].root \in [Posting -> Posting]
                                /\ result[c].merged \in SUBSET Pair
                                /\ result[c].done \in BOOLEAN
BY DEF TypeOK, Run, Result

LEMMA DecisionFields ==
    ASSUME NEW h \in Decision
    PROVE  /\ h.run \in Cutoff /\ h.pair \in Pair /\ h.material \in ReviewMaterial
           /\ h.outcome \in {"MERGE", "KEEP_SEPARATE"} /\ h.at \in Nat
           /\ h.material # None
BY DEF Decision

\* Steps that touch neither runs nor their results leave what is said of them alone.
LEMMA ResultsStay ==
    ASSUME IInv, UNCHANGED <<facts, result, review>>
    PROVE  ClustersAreComponents' /\ ReviewsSeparate' /\ HumanRespected'
<1>1. ClustersAreComponents'
  BY DEF IInv, ClustersAreComponents, Components
<1>2. ReviewsSeparate'
  BY DEF IInv, ReviewsSeparate
<1>3. HumanRespected'
  BY DEF IInv, HumanRespected
<1> QED BY <1>1, <1>2, <1>3

LEMMA RunStays ==
    ASSUME IInv, UNCHANGED <<firstSeen, facts, graph, watermark, result, human, run>>
    PROVE  Drawn' /\ UnderWay' /\ RespectsSoFar'
<1>1. Drawn'
  BY DEF IInv, Drawn, Selected
<1>2. UnderWay'
  BY DEF IInv, UnderWay, Selected, Keeps, Components
<1>3. RespectsSoFar'
  BY DEF IInv, RespectsSoFar, Binds
<1> QED BY <1>1, <1>2, <1>3

LEMMA TickPreserves == IInv /\ Tick => IInv'
<1> SUFFICES ASSUME IInv, Tick PROVE IInv'
  OBVIOUS
<1>1. TypeOK'
  BY DEF IInv, TypeOK, Tick
<1>2. UNCHANGED <<firstSeen, facts, graph, watermark, result, review, human, open, run>>
  BY DEF Tick
<1>3. Recorded'
  BY <1>2 DEF IInv, Recorded
<1> QED BY <1>1, <1>2, <1>3, ResultsStay, RunStays DEF IInv

LEMMA BeginPreserves == \A c \in Cutoff : IInv /\ Begin(c) => IInv'
<1> SUFFICES ASSUME NEW c \in Cutoff, IInv, Begin(c) PROVE IInv'
  OBVIOUS
<1> DEFINE apply == c >= watermark
           g == IF apply THEN Link(graph, Selected(c)) ELSE graph
           todo == {pr \in Pair : {pr[1], pr[2]} \subseteq Selected(c)}
<1>1. run' = [NoRun EXCEPT !.cutoff = c, !.apply = apply, !.known = human,
                           !.todo = todo, !.graph = g, !.held = g.vacancyOf]
  BY DEF Begin
<1>2. UNCHANGED <<clock, firstSeen, facts, graph, watermark, result, review, human, open,
                  applications>>
  BY DEF Begin
<1>3. g \in Graph /\ g.vacancyOf \in [Posting -> Posting \cup {None}] /\ Keeps(graph, g)
  <2>1. graph \in Graph /\ Selected(c) \in SUBSET Posting
    BY DEF IInv, TypeOK, Selected
  <2>2. Keeps(graph, Link(graph, Selected(c)))
    <3>1. \A p \in Posting : graph.vacancyOf[p] # None =>
             Link(graph, Selected(c)).vacancyOf[p] = graph.vacancyOf[p]
      BY <2>1 DEF Link, Graph
    <3> QED BY <3>1 DEF Keeps
  <2> QED BY <2>1, <2>2, LinkTyped DEF Keeps, Graph
<1>4. apply \in BOOLEAN /\ todo \in SUBSET Pair /\ human \in SUBSET Decision
  BY DEF IInv, TypeOK
<1>5. ~result[c].done
  BY DEF Begin
<1>6. apply => c > watermark
  <2>1. c # watermark
    BY <1>5 DEF IInv, Recorded
  <2>2. c \in Nat /\ watermark \in Int
    BY DEF IInv, TypeOK
  <2> QED BY <2>1, <2>2
<1> HIDE DEF apply, g
<1>7. /\ run' \in Run /\ run'.cutoff = c /\ run'.apply = apply /\ run'.known = human
      /\ run'.todo = todo /\ run'.graph = g /\ run'.pending = {}
      /\ run'.root = NoRun.root /\ run'.merged = NoRun.merged
  <2> HIDE DEF todo
  <2>1. NoRun \in Run
    BY NoRunTyped
  <2>2. run' \in Run
    BY <1>1, <1>3, <1>4, <2>1 DEF Run
  <2> QED BY <1>1, <2>2 DEF NoRun
<1>8. TypeOK'
  BY <1>2, <1>7 DEF IInv, TypeOK
<1>9. UnderWay'
  <2>1. \A pr \in todo : pr[1] \in Selected(c) /\ pr[2] \in Selected(c)
    OBVIOUS
  <2>3. c # Never
    OBVIOUS
  <2> HIDE DEF todo
  <2>4. Components(run.root, run.merged)'
    BY <1>7, NoRunTyped DEF Components
  <2>5. run'.apply => run'.cutoff > watermark' /\ Keeps(graph, run.graph)'
    BY <1>2, <1>3, <1>6, <1>7 DEF Keeps
  <2>6. \A pr \in run'.todo : pr[1] \in Selected(run.cutoff)' /\ pr[2] \in Selected(run.cutoff)'
    BY <1>2, <1>7, <2>1 DEF Selected
  <2> QED BY <1>2, <1>5, <1>7, <2>3, <2>4, <2>5, <2>6 DEF UnderWay
<1>10. RespectsSoFar'
  <2>1. ASSUME NEW h \in human, h.pair \notin todo, Binds(h, c) PROVE FALSE
    <3>1. h.pair \in Pair /\ h.material # None
      BY <1>4, DecisionFields
    <3>2. facts[c][h.pair] # None
      BY <2>1, <3>1 DEF Binds
    <3> QED BY <2>1, <3>1, <3>2 DEF IInv, Drawn
  <2>2. \A h \in human : Binds(h, c)' = Binds(h, c)
    BY <1>2 DEF Binds
  <2> HIDE DEF todo
  <2> QED BY <1>2, <1>7, <2>1, <2>2 DEF RespectsSoFar, Binds
<1>11. Drawn' /\ Recorded'
  BY <1>2 DEF IInv, Drawn, Recorded, Selected
<1>12. ClustersAreComponents' /\ ReviewsSeparate' /\ HumanRespected'
  BY <1>2, ResultsStay
<1> QED BY <1>8, <1>9, <1>10, <1>11, <1>12 DEF IInv

\* What becomes of a run by the assessment of a pair, before the pair is put behind it.
Follows(r, pr, m) ==
    /\ r.cutoff = run.cutoff /\ r.apply = run.apply /\ r.todo = run.todo /\ r.known = run.known
    /\ Components(r.root, r.merged)
    /\ \A p, q \in Posting : run.root[p] = run.root[q] => r.root[p] = r.root[q]
    /\ r.pending \subseteq run.pending \cup {pr}
    /\ pr \in r.pending => m \in ReviewMaterial /\ PriorHuman(pr, m) = {}
    /\ r.apply => \A p, q \in Posting : run.graph.vacancyOf[p] = run.graph.vacancyOf[q] =>
                                           r.graph.vacancyOf[p] = r.graph.vacancyOf[q]
    /\ \A h \in PriorHuman(pr, m) : h.outcome = "MERGE" => r.root[pr[1]] = r.root[pr[2]]

\* An assessment belongs to a run, and draws or repeats the facts of its pair.
LEMMA AssessmentDraws ==
    ASSUME IInv, NEW pr \in Pair, NEW m \in Material, Assesses(pr, m)
    PROVE  /\ run.cutoff \in Cutoff /\ ~result[run.cutoff].done
           /\ pr \in run.todo /\ pr[1] \in Selected(run.cutoff) /\ pr[2] \in Selected(run.cutoff)
           /\ facts' \in [Cutoff -> [Pair -> Material \cup {None}]]
           /\ facts'[run.cutoff][pr] = m
           /\ \A c \in Cutoff, q \in Pair : c # run.cutoff \/ q # pr => facts'[c][q] = facts[c][q]
           /\ m # None
<1>1. run.cutoff # Never
  BY DEF IInv, UnderWay, NoRun, Assesses
<1>2. run.cutoff \in Cutoff
  BY <1>1, Fields DEF IInv
<1>3. facts \in [Cutoff -> [Pair -> Material \cup {None}]]
  BY DEF IInv, TypeOK
<1>4. m # None
  BY DEF Material
<1> QED BY <1>1, <1>2, <1>3, <1>4 DEF IInv, UnderWay, Assesses

LEMMA AssessmentPreserves ==
    ASSUME IInv, NEW pr \in Pair, NEW m \in Material, Assesses(pr, m),
           NEW r \in Run, Follows(r, pr, m), Proceed(r, pr)
    PROVE  IInv'
<1> DEFINE c == run.cutoff
<1>1. /\ c \in Cutoff /\ ~result[c].done
      /\ pr \in run.todo /\ pr[1] \in Selected(c) /\ pr[2] \in Selected(c)
      /\ facts' \in [Cutoff -> [Pair -> Material \cup {None}]]
      /\ facts'[c][pr] = m
      /\ \A d \in Cutoff, q \in Pair : d # c \/ q # pr => facts'[d][q] = facts[d][q]
      /\ m # None
  BY AssessmentDraws
<1>2. UNCHANGED <<clock, firstSeen, graph, watermark, result, review, human, open, applications>>
  BY DEF Proceed
<1>3. /\ run' \in Run /\ run'.cutoff = c /\ run'.apply = r.apply /\ run'.known = run.known
      /\ run'.todo = run.todo \ {pr} /\ run'.root = r.root /\ run'.merged = r.merged
      /\ run'.graph = r.graph /\ run'.pending = r.pending /\ r.apply = run.apply
  <2>1. run' = [r EXCEPT !.todo = @ \ {pr}]
    BY DEF Proceed
  <2>2. r.todo \ {pr} \in SUBSET Pair
    BY DEF Run
  <2> DEFINE todo == r.todo \ {pr}
  <2>3. run' = [r EXCEPT !.todo = todo]
    BY <2>1
  <2> HIDE DEF todo
  <2>4. run' \in Run
    BY <2>2, <2>3 DEF Run, todo
  <2>5. r.todo = run.todo /\ r.cutoff = c /\ r.known = run.known /\ r.apply = run.apply
    BY DEF Follows
  <2> QED BY <2>1, <2>4, <2>5 DEF Run
<1>4. \A d \in Cutoff : Selected(d)' = Selected(d)
  BY <1>2 DEF Selected
<1> HIDE DEF c
<1>5. TypeOK'
  BY <1>1, <1>2, <1>3 DEF IInv, TypeOK
<1>6. Drawn'
  BY <1>1, <1>2, <1>4 DEF IInv, Drawn
<1>7. UnderWay'
  <2>1. run'.cutoff # Never /\ ~result'[run'.cutoff].done
    BY <1>1, <1>2, <1>3
  <2>2. \A q \in run'.todo : q[1] \in Selected(run.cutoff)' /\ q[2] \in Selected(run.cutoff)'
    BY <1>2, <1>3 DEF IInv, UnderWay, Selected, c
  <2>3. ASSUME NEW q \in run'.pending
        PROVE  q \notin run'.todo /\ facts'[run'.cutoff][q] \in ReviewMaterial
    <3>1. CASE q = pr
      BY <1>1, <1>3, <2>3, <3>1 DEF Follows
    <3>2. CASE q # pr
      <4>1. q \in run.pending /\ q \in Pair
        BY <1>3, <2>3, <3>2, Fields DEF Follows, IInv
      <4> QED BY <1>1, <1>3, <3>2, <4>1 DEF IInv, UnderWay, c
    <3> QED BY <3>1, <3>2
  <2>4. run'.apply => run'.cutoff > watermark' /\ Keeps(graph, run.graph)'
    <3>1. r.apply => c > watermark /\ Keeps(graph, run.graph)
      BY <1>3 DEF IInv, UnderWay, c
    <3>2. r.apply => Keeps(graph, r.graph)
      BY <3>1 DEF Follows, Keeps
    <3> QED BY <1>2, <1>3, <3>1, <3>2 DEF Keeps
  <2>5. run'.known \subseteq human'
    BY <1>2, <1>3 DEF IInv, UnderWay
  <2>6. Components(run.root, run.merged)'
    BY <1>3 DEF Follows, Components
  <2> QED BY <2>1, <2>2, <2>3, <2>4, <2>5, <2>6 DEF UnderWay
<1>8. RespectsSoFar'
  <2> SUFFICES ASSUME NEW h \in run.known, h.pair \notin run.todo \ {pr}, h.at <= c,
                      h.material = facts'[c][h.pair]
               PROVE  /\ h.pair \notin r.pending
                      /\ h.outcome = "MERGE" => r.root[h.pair[1]] = r.root[h.pair[2]]
    BY <1>3 DEF RespectsSoFar, Binds
  <2>1. h \in human /\ h \in Decision /\ h.pair \in Pair
    BY Fields, DecisionFields DEF IInv, UnderWay
  <2>2. CASE h.pair = pr
    <3>1. h \in PriorHuman(pr, m)
      BY <1>1, <2>1, <2>2 DEF PriorHuman, c
    <3> QED BY <2>2, <3>1 DEF Follows
  <2>3. CASE h.pair # pr
    <3>1. h.pair \notin run.todo /\ Binds(h, run.cutoff)
      BY <1>1, <2>1, <2>3 DEF Binds, c
    <3>2. /\ h.pair \notin run.pending
          /\ h.outcome = "MERGE" => run.root[h.pair[1]] = run.root[h.pair[2]]
      BY <3>1 DEF IInv, RespectsSoFar
    <3>3. h.pair[1] \in Posting /\ h.pair[2] \in Posting
      BY <2>1 DEF Pair
    <3> QED BY <2>3, <3>2, <3>3 DEF Follows
  <2> QED BY <2>2, <2>3
<1>9. Recorded'
  <2>1. \A d \in Cutoff, q \in Pair :
          review'[d][q] # "NONE" => result'[d].done /\ facts'[d][q] \in ReviewMaterial
    BY <1>1, <1>2 DEF IInv, Recorded
  <2> QED BY <1>2, <2>1 DEF IInv, Recorded
<1>10. ClustersAreComponents' /\ ReviewsSeparate'
  BY <1>2 DEF IInv, ClustersAreComponents, ReviewsSeparate, Components
<1>11. HumanRespected'
  <2> SUFFICES ASSUME NEW d \in Cutoff, NEW h \in result[d].known, h.at <= d,
                      h.material = facts'[d][h.pair]
               PROVE  /\ review[d][h.pair] = "NONE"
                      /\ h.outcome = "MERGE" => result[d].root[h.pair[1]] = result[d].root[h.pair[2]]
    BY <1>2 DEF HumanRespected
  <2>1. d # c
    BY <1>1 DEF IInv, Recorded
  <2>2. h.pair \in Pair
    BY Fields, DecisionFields DEF IInv
  <2>3. h.material = facts[d][h.pair]
    BY <1>1, <2>1, <2>2
  <2> QED BY <2>3 DEF IInv, HumanRespected
<1> QED BY <1>5, <1>6, <1>7, <1>8, <1>9, <1>10, <1>11 DEF IInv

\* Uniting the pair is such an outcome, whatever else the run has noted about it.
LEMMA UniteFollows ==
    ASSUME IInv, NEW pr \in Pair, NEW m \in Material, NEW r \in Run,
           r.cutoff = run.cutoff, r.apply = run.apply, r.todo = run.todo, r.known = run.known,
           r.root = run.root, r.merged = run.merged, r.graph = run.graph, r.pending = run.pending,
           pr \notin run.pending
    PROVE  Unite(r, pr) \in Run /\ Follows(Unite(r, pr), pr, m)
<1>1. /\ run.root \in [Posting -> Posting] /\ run.merged \in SUBSET Pair /\ run.graph \in Graph
      /\ Components(run.root, run.merged)
  BY Fields DEF IInv, UnderWay
<1>2. /\ Unite(r, pr) \in Run
      /\ Unite(r, pr).cutoff = r.cutoff /\ Unite(r, pr).apply = r.apply
      /\ Unite(r, pr).todo = r.todo /\ Unite(r, pr).known = r.known
      /\ Unite(r, pr).pending = r.pending
      /\ Unite(r, pr).root = Union(r.root, pr) /\ Unite(r, pr).merged = r.merged \cup {pr}
      /\ r.apply => Unite(r, pr).graph = Merge(r.graph, r.held[pr[1]], r.held[pr[2]])
  BY UniteFields
<1>3. Components(Unite(r, pr).root, Unite(r, pr).merged)
  <2>1. Components(Union(run.root, pr), run.merged \cup {pr})
    BY <1>1, UnionComponents
  <2> QED BY <1>2, <2>1
<1>4. /\ \A p, q \in Posting : run.root[p] = run.root[q] =>
             Unite(r, pr).root[p] = Unite(r, pr).root[q]
      /\ Unite(r, pr).root[pr[1]] = Unite(r, pr).root[pr[2]]
  BY <1>1, <1>2, UnionUnites
<1>5. r.apply => \A p, q \in Posting : run.graph.vacancyOf[p] = run.graph.vacancyOf[q] =>
                     Unite(r, pr).graph.vacancyOf[p] = Unite(r, pr).graph.vacancyOf[q]
  BY <1>1, <1>2, MergeKeepsTogether
<1> QED BY <1>2, <1>3, <1>4, <1>5 DEF Follows

LEMMA InheritPreserves == \A pr \in Pair, m \in Material : IInv /\ Inherit(pr, m) => IInv'
<1> SUFFICES ASSUME NEW pr \in Pair, NEW m \in Material, IInv, Inherit(pr, m) PROVE IInv'
  OBVIOUS
<1>1. PICK h \in PriorHuman(pr, m) :
          /\ PriorHuman(pr, m) = {h}
          /\ LET r == [run EXCEPT !.applied = @ \cup
                         {[run |-> run.cutoff, pair |-> pr, source |-> h]}]
             IN  Proceed(IF h.outcome = "MERGE" THEN Unite(r, pr) ELSE r, pr)
  BY DEF Inherit
<1> DEFINE noted == run.applied \cup {[run |-> run.cutoff, pair |-> pr, source |-> h]}
           r == [run EXCEPT !.applied = noted]
           next == IF h.outcome = "MERGE" THEN Unite(r, pr) ELSE r
<1>2. Assesses(pr, m)
  BY DEF Inherit
<1>3. run.cutoff \in Cutoff /\ pr \in run.todo
  BY <1>2, AssessmentDraws
<1>4. noted \in SUBSET Application
  BY <1>3, Fields DEF IInv, TypeOK, PriorHuman, Application
<1>5. pr \notin run.pending
  BY <1>3 DEF IInv, UnderWay
<1> HIDE DEF noted
<1>6. /\ r \in Run
      /\ r.cutoff = run.cutoff /\ r.apply = run.apply /\ r.todo = run.todo /\ r.known = run.known
      /\ r.root = run.root /\ r.merged = run.merged /\ r.graph = run.graph /\ r.pending = run.pending
  <2>1. run \in Run
    BY DEF IInv, TypeOK
  <2> QED BY <1>4, <2>1 DEF Run
<1>7. Proceed(next, pr)
  BY <1>1 DEF noted
<1> HIDE DEF r
<1>8. next \in Run /\ Follows(next, pr, m)
  <2>1. CASE h.outcome = "MERGE"
    BY <1>5, <1>6, <2>1, UniteFollows
  <2>2. CASE h.outcome # "MERGE"
    <3>1. Components(r.root, r.merged)
      BY <1>6 DEF IInv, UnderWay
    <3> QED BY <1>1, <1>5, <1>6, <2>2, <3>1 DEF Follows
  <2> QED BY <2>1, <2>2
<1> HIDE DEF next
<1> QED BY <1>2, <1>7, <1>8, AssessmentPreserves

LEMMA JudgePreserves == \A pr \in Pair, m \in Material : IInv /\ Judge(pr, m) => IInv'
<1> SUFFICES ASSUME NEW pr \in Pair, NEW m \in Material, IInv, Judge(pr, m) PROVE IInv'
  OBVIOUS
<1>1. Assesses(pr, m) /\ PriorHuman(pr, m) = {}
  BY DEF Judge
<1>2. run.cutoff \in Cutoff /\ pr \in run.todo /\ run \in Run
  BY <1>1, AssessmentDraws DEF IInv, TypeOK
<1>3. pr \notin run.pending
  BY <1>2 DEF IInv, UnderWay
<1>4. Components(run.root, run.merged)
  BY DEF IInv, UnderWay
<1>5. CASE m = "AUTO_MERGE"
  <2>1. Proceed(Unite(run, pr), pr)
    BY <1>5 DEF Judge
  <2> QED BY <1>1, <1>2, <1>3, <2>1, UniteFollows, AssessmentPreserves
<1>6. CASE m # "AUTO_MERGE" /\ m \in ReviewMaterial
  <2> DEFINE pending == run.pending \cup {pr}
             r == [run EXCEPT !.pending = pending]
  <2>1. Proceed(r, pr)
    BY <1>6 DEF Judge
  <2>2. pending \in SUBSET Pair
    BY Fields DEF IInv
  <2> HIDE DEF pending
  <2>3. /\ r \in Run
        /\ r.cutoff = run.cutoff /\ r.apply = run.apply /\ r.todo = run.todo /\ r.known = run.known
        /\ r.root = run.root /\ r.merged = run.merged /\ r.graph = run.graph /\ r.pending = pending
    BY <1>2, <2>2 DEF Run
  <2>4. Follows(r, pr, m)
    BY <1>1, <1>4, <1>6, <2>3 DEF Follows, pending
  <2> HIDE DEF r
  <2> QED BY <1>1, <2>1, <2>3, <2>4, AssessmentPreserves
<1>7. CASE m # "AUTO_MERGE" /\ m \notin ReviewMaterial
  <2>1. Proceed(run, pr)
    BY <1>7 DEF Judge
  <2>2. Follows(run, pr, m)
    BY <1>1, <1>3, <1>4 DEF Follows
  <2> QED BY <1>1, <1>2, <2>1, <2>2, AssessmentPreserves
<1> QED BY <1>5, <1>6, <1>7

\* A rollback leaves nothing behind but the facts it read.
LEMMA RollBackPreserves ==
    ASSUME IInv, RollBack,
           facts' \in [Cutoff -> [Pair -> Material \cup {None}]],
           \A c \in Cutoff, pr \in Pair :
               \/ facts'[c][pr] = facts[c][pr]
               \/ ~result[c].done /\ pr[1] \in Selected(c) /\ pr[2] \in Selected(c)
    PROVE  IInv'
<1>1. UNCHANGED <<clock, firstSeen, graph, watermark, result, review, human, open, applications>>
  BY DEF RollBack
<1>2. run' = NoRun
  BY DEF RollBack
<1>3. TypeOK'
  BY <1>1, <1>2, NoRunTyped DEF IInv, TypeOK
<1>4. Drawn'
  BY <1>1 DEF IInv, Drawn, Selected
<1>5. UnderWay' /\ RespectsSoFar'
  <2>1. Components(run.root, run.merged)'
    BY <1>2, NoRunTyped DEF Components
  <2>2. /\ run'.cutoff = Never /\ ~run'.apply /\ run'.todo = {} /\ run'.pending = {}
        /\ run'.known = {}
    BY <1>2 DEF NoRun
  <2> QED BY <1>2, <2>1, <2>2 DEF UnderWay, RespectsSoFar
<1>6. Recorded'
  <2>1. \A c \in Cutoff, pr \in Pair :
          review'[c][pr] # "NONE" => result'[c].done /\ facts'[c][pr] \in ReviewMaterial
    BY <1>1 DEF IInv, Recorded
  <2> QED BY <1>1, <2>1 DEF IInv, Recorded
<1>7. ClustersAreComponents' /\ ReviewsSeparate'
  BY <1>1 DEF IInv, ClustersAreComponents, ReviewsSeparate, Components
<1>8. HumanRespected'
  <2> SUFFICES ASSUME NEW d \in Cutoff, NEW h \in result[d].known, h.at <= d,
                      h.material = facts'[d][h.pair]
               PROVE  /\ review[d][h.pair] = "NONE"
                      /\ h.outcome = "MERGE" => result[d].root[h.pair[1]] = result[d].root[h.pair[2]]
    BY <1>1 DEF HumanRespected
  <2>1. result[d].done
    BY DEF IInv, Recorded
  <2>2. h.pair \in Pair
    <3>1. result[d].known \in SUBSET Decision
      BY Fields DEF IInv
    <3> QED BY <3>1, DecisionFields
  <2> QED BY <2>1, <2>2 DEF IInv, HumanRespected
<1> QED BY <1>3, <1>4, <1>5, <1>6, <1>7, <1>8 DEF IInv

LEMMA PriorConflictPreserves ==
    \A pr \in Pair, m \in Material : IInv /\ PriorConflict(pr, m) => IInv'
<1> SUFFICES ASSUME NEW pr \in Pair, NEW m \in Material, IInv, PriorConflict(pr, m) PROVE IInv'
  OBVIOUS
<1>1. Assesses(pr, m) /\ RollBack
  BY DEF PriorConflict
<1> QED BY <1>1, AssessmentDraws, RollBackPreserves

LEMMA RunFailsPreserves == IInv /\ RunFails => IInv'
BY RollBackPreserves DEF RunFails, IInv, TypeOK

LEMMA CommitPreserves == IInv /\ Commit => IInv'
<1> SUFFICES ASSUME IInv, Commit PROVE IInv'
  OBVIOUS
<1> DEFINE c == run.cutoff
           done == [root |-> run.root, merged |-> run.merged, known |-> run.known, done |-> TRUE]
           items == [pr \in Pair |-> IF pr \in run.pending THEN "PENDING" ELSE "NONE"]
<1>1. /\ c \in Cutoff /\ ~result[c].done /\ run.todo = {} /\ ReviewsDistinct
      /\ result' = [result EXCEPT ![c] = done] /\ review' = [review EXCEPT ![c] = items]
      /\ applications' = applications \cup run.applied
      /\ graph' = IF run.apply THEN run.graph ELSE graph
      /\ watermark' = IF run.apply THEN c ELSE watermark
      /\ run' = NoRun
      /\ UNCHANGED <<clock, firstSeen, facts, human, open>>
  BY Fields DEF Commit, IInv, UnderWay
<1>2. /\ done \in Result /\ done.root = run.root /\ done.merged = run.merged
      /\ done.known = run.known /\ done.done
  BY Fields DEF IInv, Result
<1>3. items \in [Pair -> Status] /\ \A pr \in Pair : items[pr] # "NONE" => pr \in run.pending
  BY DEF Status
<1>4. /\ result \in [Cutoff -> Result] /\ review \in [Cutoff -> [Pair -> Status]]
  BY DEF IInv, TypeOK
<1> HIDE DEF c, done, items
<1>5. /\ result'[c] = done /\ review'[c] = items
      /\ \A d \in Cutoff : d # c => result'[d] = result[d] /\ review'[d] = review[d]
  BY <1>1, <1>4
<1>6. TypeOK'
  <2>1. result' \in [Cutoff -> Result] /\ review' \in [Cutoff -> [Pair -> Status]]
    BY <1>1, <1>2, <1>3, <1>4
  <2>2. graph' \in Graph /\ watermark' \in Cutoff \cup {Never} /\ applications' \subseteq Application
    BY <1>1, Fields DEF IInv, TypeOK
  <2> QED BY <1>1, <2>1, <2>2, NoRunTyped DEF IInv, TypeOK
<1>7. Drawn'
  BY <1>1 DEF IInv, Drawn, Selected
<1>8. UnderWay' /\ RespectsSoFar'
  <2>1. Components(run.root, run.merged)'
    BY <1>1, NoRunTyped DEF Components
  <2>2. /\ run'.cutoff = Never /\ ~run'.apply /\ run'.todo = {} /\ run'.pending = {}
        /\ run'.known = {}
    BY <1>1 DEF NoRun
  <2> QED BY <1>1, <2>1, <2>2 DEF UnderWay, RespectsSoFar
<1>9. Recorded'
  <2>1. watermark' # Never => result'[watermark'].done
    BY <1>1, <1>2, <1>5 DEF IInv, TypeOK, Recorded
  <2>2. \A d \in Cutoff : ~result'[d].done => result'[d].known = {}
    BY <1>2, <1>5 DEF IInv, Recorded
  <2>3. ASSUME NEW d \in Cutoff, NEW pr \in Pair, review'[d][pr] # "NONE"
        PROVE  result'[d].done /\ facts'[d][pr] \in ReviewMaterial
    <3>1. CASE d = c
      BY <1>1, <1>2, <1>3, <1>5, <2>3, <3>1 DEF IInv, UnderWay, c
    <3>2. CASE d # c
      BY <1>1, <1>5, <2>3, <3>2 DEF IInv, Recorded
    <3> QED BY <3>1, <3>2
  <2>4. \A h \in open \cup human : h.run # c /\ h.run \in Cutoff
    <3> TAKE h \in open \cup human
    <3>1. h.run \in Cutoff /\ h.pair \in Pair
      BY DecisionFields DEF IInv, TypeOK
    <3>2. review[h.run][h.pair] # "NONE"
      BY DEF IInv, Recorded
    <3> QED BY <1>1, <3>1, <3>2 DEF IInv, Recorded
  <2>5. /\ \A h \in open : review'[h.run][h.pair] = "PENDING"
        /\ \A h \in human : review'[h.run][h.pair] \notin {"NONE", "PENDING"}
    <3>1. \A h \in open \cup human : review'[h.run] = review[h.run]
      BY <1>5, <2>4
    <3> QED BY <3>1 DEF IInv, Recorded
  <2> QED BY <1>1, <2>1, <2>2, <2>3, <2>5 DEF IInv, Recorded
<1>10. ClustersAreComponents'
  <2>1. ASSUME NEW d \in Cutoff PROVE Components(result'[d].root, result'[d].merged)
    <3>1. CASE d = c
      BY <1>2, <1>5, <3>1 DEF IInv, UnderWay
    <3>2. CASE d # c
      BY <1>5, <3>2 DEF IInv, ClustersAreComponents
    <3> QED BY <3>1, <3>2
  <2> QED BY <2>1 DEF ClustersAreComponents, Components
<1>11. ReviewsSeparate'
  <2>1. ASSUME NEW d \in Cutoff, NEW pr \in Pair, review'[d][pr] # "NONE"
        PROVE  result'[d].root[pr[1]] # result'[d].root[pr[2]]
    <3>1. CASE d = c
      BY <1>1, <1>2, <1>3, <1>5, <2>1, <3>1 DEF ReviewsDistinct
    <3>2. CASE d # c
      BY <1>5, <2>1, <3>2 DEF IInv, ReviewsSeparate
    <3> QED BY <3>1, <3>2
  <2> QED BY <2>1 DEF ReviewsSeparate
<1>12. HumanRespected'
  <2>1. ASSUME NEW d \in Cutoff, NEW h \in result'[d].known, h.at <= d,
               h.material = facts[d][h.pair]
        PROVE  /\ review'[d][h.pair] = "NONE"
               /\ h.outcome = "MERGE" => result'[d].root[h.pair[1]] = result'[d].root[h.pair[2]]
    <3>1. CASE d = c
      <4>1. h \in run.known /\ h.pair \notin run.todo /\ Binds(h, run.cutoff)
        BY <1>1, <1>2, <1>5, <2>1, <3>1 DEF Binds, c
      <4>2. h.pair \in Pair
        BY <4>1, Fields, DecisionFields DEF IInv
      <4> QED BY <1>2, <1>3, <1>5, <3>1, <4>1, <4>2 DEF IInv, RespectsSoFar
    <3>2. CASE d # c
      <4>1. result'[d] = result[d] /\ review'[d] = review[d]
        BY <1>5, <3>2
      <4> QED BY <2>1, <4>1 DEF IInv, HumanRespected
    <3> QED BY <3>1, <3>2
  <2> QED BY <1>1, <2>1 DEF HumanRespected
<1> QED BY <1>6, <1>7, <1>8, <1>9, <1>10, <1>11, <1>12 DEF IInv

-----------------------------------------------------------------------------
(* The steps of people preserve it.                                        *)

LEMMA OpenResolutionPreserves ==
    \A c \in Cutoff, pr \in Pair, o \in {"MERGE", "KEEP_SEPARATE"} :
        IInv /\ OpenResolution(c, pr, o) => IInv'
<1> SUFFICES ASSUME NEW c \in Cutoff, NEW pr \in Pair, NEW o \in {"MERGE", "KEEP_SEPARATE"},
                    IInv, OpenResolution(c, pr, o)
             PROVE  IInv'
  OBVIOUS
<1> DEFINE h == [run |-> c, pair |-> pr, material |-> facts[c][pr], outcome |-> o, at |-> clock]
<1>1. /\ review[c][pr] = "PENDING" /\ Targets(open, c, pr) = {} /\ open' = open \cup {h}
      /\ UNCHANGED <<clock, firstSeen, facts, graph, watermark, result, review, human,
                     applications, run>>
  BY DEF OpenResolution
<1>2. facts[c][pr] \in ReviewMaterial /\ clock \in Nat
  BY <1>1 DEF IInv, TypeOK, Recorded
<1>3. h \in Decision /\ h.run = c /\ h.pair = pr
  BY <1>2 DEF Decision
<1> HIDE DEF h
<1>4. TypeOK'
  BY <1>1, <1>3 DEF IInv, TypeOK
<1>5. Recorded'
  <2>1. \A i \in open' : review[i.run][i.pair] = "PENDING"
    BY <1>1, <1>3 DEF IInv, Recorded
  <2>2. \A i, j \in open' : i.run = j.run /\ i.pair = j.pair => i = j
    BY <1>1, <1>3 DEF IInv, Recorded, Targets
  <2> QED BY <1>1, <2>1, <2>2 DEF IInv, Recorded
<1>6. Drawn' /\ UnderWay' /\ RespectsSoFar'
  BY <1>1, RunStays
<1>7. ClustersAreComponents' /\ ReviewsSeparate' /\ HumanRespected'
  BY <1>1, ResultsStay
<1> QED BY <1>4, <1>5, <1>6, <1>7 DEF IInv

LEMMA CommitResolutionPreserves == \A h \in open : IInv /\ CommitResolution(h) => IInv'
<1> SUFFICES ASSUME NEW h \in open, IInv, CommitResolution(h) PROVE IInv'
  OBVIOUS
<1> DEFINE status == ResolvedStatus(h.outcome)
<1>1. /\ open' = open \ {h} /\ human' = human \cup {h}
      /\ review' = [review EXCEPT ![h.run][h.pair] = status]
      /\ graph' # graph => run = NoRun
      /\ graph' = graph \/ graph' = Merge(graph, graph.vacancyOf[h.pair[1]], graph.vacancyOf[h.pair[2]])
      /\ UNCHANGED <<clock, firstSeen, facts, watermark, result, applications, run>>
  BY DEF CommitResolution
<1>2. h \in Decision /\ h.run \in Cutoff /\ h.pair \in Pair /\ h.pair[1] \in Posting /\ h.pair[2] \in Posting
  BY DecisionFields DEF IInv, TypeOK, Pair
<1>3. status \in {"MERGED", "KEPT_SEPARATE"}
  BY DEF ResolvedStatus
<1>4. review[h.run][h.pair] = "PENDING" /\ review \in [Cutoff -> [Pair -> Status]]
  BY DEF IInv, TypeOK, Recorded
<1> HIDE DEF status
<1>5. /\ review' \in [Cutoff -> [Pair -> Status]]
      /\ review'[h.run][h.pair] = status
      /\ \A c \in Cutoff, pr \in Pair : c # h.run \/ pr # h.pair => review'[c][pr] = review[c][pr]
  BY <1>1, <1>2, <1>3, <1>4 DEF Status
<1>6. \A c \in Cutoff, pr \in Pair : review'[c][pr] # "NONE" <=> review[c][pr] # "NONE"
  BY <1>3, <1>4, <1>5
<1>7. TypeOK'
  <2>1. graph' \in Graph
    <3>1. graph \in Graph
      BY DEF IInv, TypeOK
    <3>2. graph.vacancyOf[h.pair[1]] \in Posting \cup {None} /\ graph.vacancyOf[h.pair[2]] \in Posting \cup {None}
      BY <1>2, <3>1 DEF Graph
    <3> QED BY <1>1, <3>1, <3>2, MergeTyped
  <2> QED BY <1>1, <1>2, <1>5, <2>1 DEF IInv, TypeOK
<1>8. Drawn' /\ ClustersAreComponents'
  BY <1>1 DEF IInv, Drawn, ClustersAreComponents, Selected, Components
<1>9. UnderWay'
  <2>1. run'.apply => run'.cutoff > watermark' /\ Keeps(graph, run.graph)'
    <3>1. CASE run = NoRun
      BY <1>1, <3>1 DEF NoRun
    <3>2. CASE run # NoRun
      BY <1>1, <3>2 DEF IInv, UnderWay, Keeps
    <3> QED BY <3>1, <3>2
  <2> QED BY <1>1, <2>1 DEF IInv, UnderWay, Components, Selected
<1>10. RespectsSoFar'
  BY <1>1 DEF IInv, RespectsSoFar, Binds
<1>11. Recorded'
  <2>1. \A i \in open' : review'[i.run][i.pair] = "PENDING"
    <3> TAKE i \in open'
    <3>1. i \in open /\ i # h /\ i.run \in Cutoff /\ i.pair \in Pair
      BY <1>1, DecisionFields DEF IInv, TypeOK
    <3>2. i.run # h.run \/ i.pair # h.pair
      BY <3>1 DEF IInv, Recorded
    <3>3. review[i.run][i.pair] = "PENDING"
      BY <3>1 DEF IInv, Recorded
    <3>4. review'[i.run][i.pair] = review[i.run][i.pair]
      BY <1>5, <3>1, <3>2
    <3> QED BY <3>3, <3>4
  <2>2. \A i \in human' : review'[i.run][i.pair] \notin {"NONE", "PENDING"}
    <3> TAKE i \in human'
    <3>1. i.run \in Cutoff /\ i.pair \in Pair
      BY <1>1, <1>2, DecisionFields DEF IInv, TypeOK
    <3>2. CASE i.run = h.run /\ i.pair = h.pair
      BY <1>3, <1>5, <3>2
    <3>3. CASE ~(i.run = h.run /\ i.pair = h.pair)
      BY <1>1, <1>5, <3>1, <3>3 DEF IInv, Recorded
    <3> QED BY <3>2, <3>3
  <2>3. \A c \in Cutoff, pr \in Pair :
          review'[c][pr] # "NONE" => result'[c].done /\ facts'[c][pr] \in ReviewMaterial
    BY <1>1, <1>6 DEF IInv, Recorded
  <2> QED BY <1>1, <2>1, <2>2, <2>3 DEF IInv, Recorded
<1>12. ReviewsSeparate'
  BY <1>1, <1>6 DEF IInv, ReviewsSeparate
<1>13. HumanRespected'
  <2>1. \A c \in Cutoff : \A i \in result[c].known : i.pair \in Pair
    BY Fields, DecisionFields DEF IInv
  <2> QED BY <1>1, <1>6, <2>1 DEF IInv, HumanRespected
<1> QED BY <1>7, <1>8, <1>9, <1>10, <1>11, <1>12, <1>13 DEF IInv

LEMMA ResolutionFailsPreserves == \A h \in open : IInv /\ ResolutionFails(h) => IInv'
<1> SUFFICES ASSUME NEW h \in open, IInv, ResolutionFails(h) PROVE IInv'
  OBVIOUS
<1>1. /\ open' = open \ {h}
      /\ UNCHANGED <<clock, firstSeen, facts, graph, watermark, result, review, human,
                     applications, run>>
  BY DEF ResolutionFails
<1>2. TypeOK' /\ Recorded'
  BY <1>1 DEF IInv, TypeOK, Recorded
<1>3. Drawn' /\ UnderWay' /\ RespectsSoFar'
  BY <1>1, RunStays
<1>4. ClustersAreComponents' /\ ReviewsSeparate' /\ HumanRespected'
  BY <1>1, ResultsStay
<1> QED BY <1>2, <1>3, <1>4 DEF IInv

LEMMA ApplyPreserves ==
    \A c \in Cutoff, pr \in Pair, h \in human : IInv /\ Apply(c, pr, h) => IInv'
<1> SUFFICES ASSUME NEW c \in Cutoff, NEW pr \in Pair, NEW h \in human, IInv, Apply(c, pr, h)
             PROVE  IInv'
  OBVIOUS
<1>1. /\ applications' = applications \cup {[run |-> c, pair |-> pr, source |-> h]}
      /\ UNCHANGED <<clock, firstSeen, facts, graph, watermark, result, review, human, open, run>>
  BY DEF Apply
<1>2. TypeOK'
  <2>1. [run |-> c, pair |-> pr, source |-> h] \in Application
    BY DEF IInv, TypeOK, Application
  <2> QED BY <1>1, <2>1 DEF IInv, TypeOK
<1>3. Drawn' /\ UnderWay' /\ RespectsSoFar'
  BY <1>1, RunStays
<1>5. Recorded'
  BY <1>1 DEF IInv, Recorded
<1>4. ClustersAreComponents' /\ ReviewsSeparate' /\ HumanRespected'
  BY <1>1, ResultsStay
<1> QED BY <1>2, <1>3, <1>4, <1>5 DEF IInv

-----------------------------------------------------------------------------
(* The theorems.                                                           *)

LEMMA StepPreserves == IInv /\ [Next]_vars => IInv'
<1> SUFFICES ASSUME IInv, [Next]_vars PROVE IInv'
  OBVIOUS
<1>1. CASE Tick
  BY <1>1, TickPreserves
<1>2. CASE Deduplicate
  BY <1>2, BeginPreserves, PriorConflictPreserves, InheritPreserves, JudgePreserves,
     CommitPreserves, RunFailsPreserves DEF Deduplicate
<1>3. CASE Resolve
  BY <1>3, OpenResolutionPreserves, CommitResolutionPreserves, ResolutionFailsPreserves,
     ApplyPreserves DEF Resolve
<1>4. CASE UNCHANGED vars
  <2>1. TypeOK' /\ Recorded'
    BY <1>4 DEF IInv, TypeOK, Recorded, vars
  <2>2. Drawn' /\ UnderWay' /\ RespectsSoFar'
    BY <1>4, RunStays DEF vars
  <2>3. ClustersAreComponents' /\ ReviewsSeparate' /\ HumanRespected'
    BY <1>4, ResultsStay DEF vars
  <2> QED BY <2>1, <2>2, <2>3 DEF IInv
<1> QED BY <1>1, <1>2, <1>3, <1>4 DEF Next

THEOREM Invariant == Spec => []IInv
<1>1. Init => IInv
  BY InitialInvariant
<1>2. IInv /\ [Next]_vars => IInv'
  BY StepPreserves
<1> QED BY <1>1, <1>2, PTL DEF Spec

\* Runs, reviews, decisions and the projection keep their types (models.py), whatever the
\* order of runs, resolutions and failures.
THEOREM IdentityTyped == Spec => []TypeOK
<1>1. IInv => TypeOK
  BY DEF IInv
<1> QED BY <1>1, Invariant, PTL

\* RunClusters yields the connected components of the pairs a run united, for any set of
\* postings and whatever the evidence, the inherited decisions and the order of cutoffs.
THEOREM ClustersOfEveryRun == Spec => []ClustersAreComponents
<1>1. IInv => ClustersAreComponents
  BY DEF IInv
<1> QED BY <1>1, Invariant, PTL

\* The two sides of a review item have different vacancies in their run (engine.py:612).
THEOREM ReviewsHaveTwoSides == Spec => []ReviewsSeparate
<1>1. IInv => ReviewsSeparate
  BY DEF IInv
<1> QED BY <1>1, Invariant, PTL

\* _prior_human_decision: nothing people decided is asked again of a later run, and a MERGE
\* is in effect in each of them.
THEOREM PeopleAreRespected == Spec => []HumanRespected
<1>1. IInv => HumanRespected
  BY DEF IInv
<1> QED BY <1>1, Invariant, PTL

\* merge_vacancies: no run, replay or resolution separates postings the projection united.
THEOREM MergesAreForever == Spec => NeverSplit
<1> DEFINE Kept == \A p, q \in Posting :
           graph.vacancyOf[p] # None /\ graph.vacancyOf[p] = graph.vacancyOf[q] =>
               graph'.vacancyOf[p] = graph'.vacancyOf[q]
<1>1. ASSUME IInv, [Next]_vars PROVE Kept
  <2>1. CASE Commit
    BY <1>1, <2>1 DEF Commit, IInv, UnderWay, Keeps
  <2>2. ASSUME NEW h \in open, CommitResolution(h) PROVE Kept
    <3>1. graph \in Graph
      BY <1>1 DEF IInv, TypeOK
    <3> QED BY <2>2, <3>1, MergeKeepsTogether DEF CommitResolution
  <2>3. CASE UNCHANGED graph
    BY <2>3
  <2>4. Commit \/ (\E h \in open : CommitResolution(h)) \/ UNCHANGED graph
    BY <1>1 DEF Next, Tick, Deduplicate, Resolve, Begin, PriorConflict, Inherit, Judge, RollBack,
                Proceed, RunFails, OpenResolution, ResolutionFails, Apply, vars
  <2> QED BY <2>1, <2>2, <2>3, <2>4
<1>2. IInv /\ [Next]_vars => [Kept]_vars
  BY <1>1
<1> QED BY <1>2, Invariant, PTL DEF Spec, NeverSplit

\* engine.py run_deduplication and review.py resolve_review: the projection moves with the
\* run of a later cutoff or with a decision to merge a pair of the run it shows.
THEOREM ProjectionIsOfNewest == Spec => ProjectionOfNewest
<1> DEFINE Newest == graph' # graph =>
           \/ watermark' > watermark
           \/ \E h \in human' \ human : h.run = watermark /\ h.outcome = "MERGE"
<1>1. ASSUME IInv, [Next]_vars PROVE Newest
  <2>1. CASE Commit
    BY <1>1, <2>1 DEF Commit, IInv, UnderWay
  <2>2. ASSUME NEW h \in open, CommitResolution(h) PROVE Newest
    <3>1. h \notin human
      BY <1>1 DEF IInv, Recorded
    <3> QED BY <2>2, <3>1 DEF CommitResolution, OfAppliedRun
  <2>3. CASE UNCHANGED graph
    BY <2>3
  <2>4. Commit \/ (\E h \in open : CommitResolution(h)) \/ UNCHANGED graph
    BY <1>1 DEF Next, Tick, Deduplicate, Resolve, Begin, PriorConflict, Inherit, Judge, RollBack,
                Proceed, RunFails, OpenResolution, ResolutionFails, Apply, vars
  <2> QED BY <2>1, <2>2, <2>3, <2>4
<1>2. IInv /\ [Next]_vars => [Newest]_vars
  BY <1>1
<1> QED BY <1>2, Invariant, PTL DEF Spec, ProjectionOfNewest

=============================================================================
