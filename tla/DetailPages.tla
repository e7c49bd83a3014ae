------------------------------ MODULE DetailPages ------------------------------
(***************************************************************************)
(* The details loop of SharedCollectionPipeline.collect over the           *)
(* parse_detail of the adapters, while the source rewrites its postings    *)
(* and redirects their addresses.                                          *)
(***************************************************************************)
EXTENDS Naturals, Sequences, FiniteSets, SequencesExt, Absent

CONSTANTS
    Posting, Title,
    Longer,           \* pairs of titles: the second begins with the first
    Within,           \* pairs of postings: the id of the first is in the address of the second
    MaxRewrites       \* bound: changes of the source

ASSUME DetailAssumption ==
    /\ IsFiniteSet(Posting) /\ Within \subseteq Posting \X Posting
    /\ Longer \subseteq Title \X Title /\ MaxRewrites \in Nat

VARIABLES
    advert,           \* what a posting says: its title and the version of its text
    leads,            \* where the address of a posting leads to
    told,             \* what each posting has said since the listing was read
    rewrites,
    rule,             \* what the adapter of the source compares
    silent,           \* the postings whose pages tell no id
    row,              \* the entries of the listing
    queue,            \* the entries whose details are still to be fetched
    recorded,         \* the observations of the run
    details           \* how the run stands

detailVars == <<advert, leads, told, rewrites, rule, silent, row, queue, recorded, details>>

-----------------------------------------------------------------------------
(* What an adapter compares with the entry.  The id of the page, in its    *)
(* address or its canonical link: the same, or contained in the address,   *)
(* or the same if the page tells one, or none at all.  Its title: the      *)
(* same, or one that begins with it, or any.  And the sets of what it may  *)
(* take from the entry instead of the page.                                *)

Compares(id, title, fromRow) == [id |-> id, title |-> title, fromRow |-> fromRow]

\* What the page must tell, and a title that it may leave to the entry.
PageTells == {{}}

PageMayTell == {{}, {"title"}}

UmantisDetail == Compares("EXACT", "SAME", PageTells)

StGallenDetail == Compares("EXACT", "SAME", PageTells)

BaselDetail == Compares("EXACT", "SAME", PageTells)

\* Schaffhausen: a record of the mirror, with its own link, or the page that it mirrors.
MirrorDetail == Compares("EXACT", "SAME", PageTells)

MirroredDetail == Compares("CONTAINED", "BEGINS", PageMayTell)

ThurgauDetail == Compares("EXACT", "BEGINS", PageMayTell)

ReflineDetail == Compares("EXACT", "BEGINS", PageMayTell)

StGallenCityDetail == Compares("CONTAINED", "BEGINS", PageTells)

ZurichCityDetail == Compares("EXACT", "ANY", PageMayTell)

\* The canonical link, or else the address, may be without an id.
WinterthurDetail == Compares("IF_TOLD", "ANY", PageTells)

ApprenticeshipDetail == Compares("EXACT", "ANY", PageTells)

\* The documents of the courts have no title of their own.
CourtDetail == Compares("EXACT", "ANY", {{"title"}})

\* Zurich canton: the page only proves that the posting is there.
SoliqueDetail == Compares("CONTAINED", "ANY", {{"title", "text"}})

\* JSON-LD of Prospective and of Appenzell.
JsonLdDetail == Compares("NONE", "BEGINS", PageMayTell)

Rules ==
    {UmantisDetail, StGallenDetail, BaselDetail, MirrorDetail, MirroredDetail, ThurgauDetail,
     ReflineDetail, StGallenCityDetail, ZurichCityDetail, WinterthurDetail,
     ApprenticeshipDetail, CourtDetail, SoliqueDetail, JsonLdDetail}

Running == details = "RUNNING"

Fits(title, listed) ==
    \/ title = listed
    \/ rule.title = "BEGINS" /\ <<listed, title>> \in Longer

\* The postings that an adapter may take for p.
Confused(p) ==
    CASE rule.id = "EXACT" -> {}
      [] rule.id = "CONTAINED" -> {q \in Posting : <<p, q>> \in Within}
      [] rule.id = "IF_TOLD" -> silent
      [] rule.id = "NONE" -> Posting

AnyPage(p, shown) == TRUE   \* mutant: the page is not identified

Identified(p, shown) == shown = p \/ shown \in Confused(p)

Titled(p, shown, taken) ==
    "title" \in taken \/ rule.title = "ANY" \/ Fits(advert[shown].title, row[p].title)

\* The observation of p from the page of the posting shown, but for what is taken from the entry.
Record(p, shown, taken) ==
    [id |-> p,
     title |-> IF "title" \in taken THEN row[p].title ELSE advert[shown].title,
     text |-> IF "text" \in taken THEN row[p].text ELSE advert[shown].text]

-----------------------------------------------------------------------------

\* A detail is fetched, its redirects are followed, and it is recorded or fails the run.
FetchDetail ==
    /\ Running /\ queue # <<>>
    /\ \E taken \in rule.fromRow :
           LET p == Head(queue)
               shown == leads[p]
           IN  IF Identified(p, shown) /\ Titled(p, shown, taken)
                 THEN /\ recorded' = Append(recorded, Record(p, shown, taken))
                      /\ queue' = Tail(queue)
                      /\ UNCHANGED details
                 ELSE details' = "FAILED" /\ UNCHANGED <<recorded, queue>>
    /\ UNCHANGED <<advert, leads, told, rewrites, rule, silent, row>>

\* No page, a refused redirect, no title or body, a municipality or contract that is refused.
DetailFails ==
    /\ Running /\ queue # <<>>
    /\ details' = "FAILED"
    /\ UNCHANGED <<advert, leads, told, rewrites, rule, silent, row, queue, recorded>>

\* The counts and the sets of postings of the scope are compared.
FinishDetails ==
    /\ Running /\ queue = <<>>
    /\ LET ids == {r.id : r \in ToSet(recorded)}
       IN  details' = IF ids = DOMAIN row /\ Len(recorded) = Cardinality(ids)
                        THEN "COMPLETE" ELSE "FAILED"
    /\ UNCHANGED <<advert, leads, told, rewrites, rule, silent, row, queue, recorded>>

-----------------------------------------------------------------------------

\* A posting is given another text and perhaps another title.
Rewrite(p, title) ==
    /\ Running /\ rewrites < MaxRewrites
    /\ advert' = [advert EXCEPT ![p].title = title, ![p].text.version = @ + 1]
    /\ told' = [told EXCEPT ![p] = @ \cup {advert'[p]}]
    /\ rewrites' = rewrites + 1
    /\ UNCHANGED <<leads, rule, silent, row, queue, recorded, details>>

\* The address of a posting comes to lead to the page of another one, or to its own again.
Redirect(p, q) ==
    /\ Running /\ rewrites < MaxRewrites /\ leads[p] # q
    /\ leads' = [leads EXCEPT ![p] = q]
    /\ rewrites' = rewrites + 1
    /\ UNCHANGED <<advert, told, rule, silent, row, queue, recorded, details>>

DetailInit ==
    /\ advert \in {[p \in Posting |-> [title |-> t[p], text |-> [of |-> p, version |-> 0]]]
                     : t \in [Posting -> Title]}
    /\ leads = [p \in Posting |-> p]
    /\ told = [p \in Posting |-> {advert[p]}]
    /\ rewrites = 0
    /\ rule \in Rules
    /\ silent \in SUBSET Posting /\ (rule.id # "IF_TOLD" => silent = {})
    /\ \E listed \in SUBSET Posting :
           /\ row = [p \in listed |-> advert[p]]
           /\ queue \in SetToSeqs(listed)
    /\ recorded = <<>> /\ details = "RUNNING"

DetailNext ==
    \/ FetchDetail \/ DetailFails \/ FinishDetails
    \/ \E p \in Posting, t \in Title : Rewrite(p, t)
    \/ \E p, q \in Posting : Redirect(p, q)

DetailSpec == DetailInit /\ [][DetailNext]_detailVars

-----------------------------------------------------------------------------
(* Properties.                                                             *)

\* The words of a record are of posting p, at some time since the listing was read.
WordsOf(r, p) == (\E s \in told[p] : s.title = r.title) /\ (\E s \in told[p] : s.text = r.text)

\* The words of a record are of one page of posting q, or of the page and the entry of p.
OnePage(r, p, q) ==
    \E s \in told[q] :
        /\ r.text = s.text
        /\ \/ r.title = row[p].title
           \/ r.title = s.title /\ (rule.title = "ANY" \/ Fits(s.title, row[p].title))

\* What is recorded under an identity is what that posting said while the run went on, although
\* the source rewrites and redirects its pages between the listing and the details; or else one
\* page of a posting that the adapter cannot tell from it: where a redirect leads to an address
\* that contains the id, to a page that tells none, or where only titles are compared.
RecordsTellTheirAdvert ==
    \A r \in ToSet(recorded) :
        WordsOf(r, r.id) \/ \E q \in Confused(r.id) : OnePage(r, r.id, q)

=============================================================================
