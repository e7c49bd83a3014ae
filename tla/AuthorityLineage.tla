--------------------------- MODULE AuthorityLineage ---------------------------
(***************************************************************************)
(* core/review_authority_lineage.py: authority exported from another       *)
(* database is copied with its keys and times, all rows in one transaction *)
(* with a batch row that governs the lineage version.  Importers run       *)
(* beside each other, from checkouts that designate different packages,    *)
(* and beside the sessions of ReviewAuthority.                             *)
(***************************************************************************)
EXTENDS ReviewAuthority

CONSTANTS
    Importer,
    Package,
    PackageRows,      \* [decisions, applications, assessments] of each package
    Registry,         \* the decisions of the governance document
    Replicated        \* assessments this database has as the exporting one has them

ASSUME LineageAssumption ==
    /\ None \notin Package
    /\ Registry \subseteq Decision
    /\ Stored \in [Assessment -> Assessed \cup {None}]
    /\ Replicated \subseteq {a \in Assessment : Stored[a] # None}
    /\ \A k \in Package :
           /\ \A d \in PackageRows[k].decisions : d \in Decision /\ d.origin = "COPIED"
           /\ \A p \in PackageRows[k].applications : p \in Application /\ p.origin = "COPIED"

VARIABLES governing, importer

importVars == <<governing, importer>>

Importing == [pc: {"IDLE", "CLEAN", "COMMIT"}, package: Package \cup {None}]

NotImporting == [pc |-> "IDLE", package |-> None]

-----------------------------------------------------------------------------
\* export_package of a database with these decisions and applications: the rows and what they
\* depend on, of one snapshot.
Exported(ds, ps) ==
    [decisions |-> ds, applications |-> ps,
     assessments |-> {d.on : d \in ds} \cup {p.target : p \in ps}]

Human(k) == PackageRows[k].decisions

\* verify_registry_against_merged_governance
Accepted(ds) == ds = Registry

\* verify_package: the hashes hold, the decisions are the accepted ones and their assessments are
\* there.  The row of a target may be missing.
Verified(k) ==
    /\ Accepted(Human(k))
    /\ \A d \in Human(k) : d.on \in PackageRows[k].assessments

\* Applications whose target is the row of the package; the others are regenerated here.
Derived(k) ==
    {p \in PackageRows[k].applications :
        p.target \in PackageRows[k].assessments \cap Replicated}

DependenciesPresent(k) == \A d \in Human(k) : d.on \in Replicated

\* _unique_authority_collisions: another key holds the place of a row.
Collides(k) == \E d \in Human(k) : \E e \in Direct(d.on) : e # d

\* full_clean of the rows that are not there yet, one after the other.
RowsClean(k) ==
    /\ \A d \in Human(k) \ decisions : DecisionClean(d)
    /\ \A p \in Derived(k) \ applications :
           /\ ApplicationClean(p) /\ Inherited(p.target) = {}
           /\ \A d \in Human(k) : d.on # p.target

\* The unique constraints when the rows are inserted.
RowsFit(k) ==
    /\ \A d \in Human(k) : Direct(d.on) \subseteq {d}
    /\ \A p \in Derived(k) : Inherited(p.target) \subseteq {p}

\* _verify_existing_batch_rows
RowsIdentical(k) == Human(k) \subseteq decisions /\ Derived(k) \subseteq applications

-----------------------------------------------------------------------------
\* A governing batch is replayed or refuses another package, without a write.
BeginImport(i, k) ==
    /\ importer[i].pc = "IDLE" /\ Begun
    /\ Verified(k)
    /\ governing = None
    /\ DependenciesPresent(k)
    /\ ~Collides(k)
    /\ importer' = [importer EXCEPT ![i] = [pc |-> "CLEAN", package |-> k]]
    /\ UNCHANGED <<now, assessed, decisions, applications, session, passes, governing>>

CleanRows(i) ==
    /\ importer[i].pc = "CLEAN"
    /\ importer' = [importer EXCEPT ![i] =
           IF RowsClean(importer[i].package) THEN [@ EXCEPT !.pc = "COMMIT"] ELSE NotImporting]
    /\ UNCHANGED <<reviewVars, governing>>

CommitImportUngoverned(i) ==   \* mutant: a conflict of the batch is reported, the rows stay
    LET k == importer[i].package
    IN  /\ importer[i].pc = "COMMIT"
        /\ IF RowsFit(k)
             THEN /\ decisions' = decisions \cup Human(k)
                  /\ applications' = applications \cup Derived(k)
                  /\ governing' = IF governing = None THEN k ELSE governing
             ELSE UNCHANGED <<decisions, applications, governing>>
        /\ importer' = [importer EXCEPT ![i] = NotImporting]
        /\ UNCHANGED <<now, assessed, session, passes, begun>>

\* The rows, the batch and the commit.  A batch that a concurrent importer committed meanwhile
\* is a replay if it is the same package, and otherwise rolls everything back.
CommitImport(i) ==
    LET k == importer[i].package
    IN  /\ importer[i].pc = "COMMIT"
        /\ IF RowsFit(k) /\ governing = None
             THEN /\ decisions' = decisions \cup Human(k)
                  /\ applications' = applications \cup Derived(k)
                  /\ governing' = k
             ELSE UNCHANGED <<decisions, applications, governing>>
        /\ importer' = [importer EXCEPT ![i] = NotImporting]
        /\ UNCHANGED <<now, assessed, session, passes, begun>>

-----------------------------------------------------------------------------
AuthorityInit ==
    /\ ReviewInit
    /\ governing = None
    /\ importer = [i \in Importer |-> NotImporting]

AuthorityNext ==
    \/ ReviewNext /\ UNCHANGED importVars
    \/ \E i \in Importer : \/ \E k \in Package : BeginImport(i, k)
                           \/ CleanRows(i)
                           \/ CommitImport(i)

authorityVars == <<now, assessed, decisions, applications, session, passes, begun, governing, importer>>

AuthoritySpec == AuthorityInit /\ [][AuthorityNext]_authorityVars

-----------------------------------------------------------------------------
(* Properties.                                                             *)

\* Types of the rows and of the processes over them.
AuthorityTypeOK ==
    /\ now \in Moment
    /\ assessed \in [Assessment -> Assessed \cup {None}]
    /\ decisions \subseteq Decision
    /\ applications \subseteq Application
    /\ session \in [Session -> Working]
    /\ passes \subseteq Pass
    /\ begun \in 0..MaxSessions
    /\ governing \in Package \cup {None}
    /\ importer \in [Importer -> Importing]

\* A continuity pass that ended well has left no target of its cutoff without the knowledge
\* that was there when it began, whatever other passes and people committed meanwhile.
PassesCover ==
    \A p \in passes : \A a \in p.targets :
        \/ Settled(a)
        \/ ~\E d \in p.known : d \in Matches(a, p.cutoff)

\* Rows copied from another database are those of the batch that governs the lineage, all of
\* them, however many importers ran: what a replay of that package verifies.
BatchAccounts ==
    /\ {d \in decisions : d.origin = "COPIED"} = IF governing = None THEN {} ELSE Human(governing)
    /\ {p \in applications : p.origin = "COPIED"} = IF governing = None THEN {} ELSE Derived(governing)

\* The sessions whose row is dated at or before c and not committed yet.
Late(a, c) ==
    \E s \in Session : /\ session[s].pc \notin {"IDLE", "PASS"}
                       /\ session[s].row.created <= c

\* What effective_green_result answers for a past cutoff stays: only a transaction that was
\* open with an earlier date and an import change it.  The one other way is that the target got
\* both authorities, against OneAuthority: the question then raises an error.
AnswersStay ==
    [][\A a \in Assessment, c \in Moment :
          /\ assessed[a] # None /\ c < now
          /\ ~Late(a, c)
          /\ governing' = governing
          => \/ Effective(a, c)' = Effective(a, c)
             \/ /\ Effective(a, c)' = "INVALID"
                /\ Direct(a)' # {} /\ Inherited(a)' # {}]_authorityVars

\* ADR 0019 and the contract of review continuity: the authority over an assessment is direct or
\* inherited, never both.  No constraint holds it; each side looks before it inserts.
OneAuthority == \A a \in Assessment : Direct(a) = {} \/ Inherited(a) = {}

=============================================================================
