--------------------------- MODULE ReviewAuthority ---------------------------
(***************************************************************************)
(* Human authority over green relevance: observations/review.py,           *)
(* review_continuity.py and the models of decisions and applications.      *)
(* A REVIEW assessment is settled by a person (a decision) or takes over   *)
(* the one decision about identical material (an application).  Sessions   *)
(* run beside each other at READ COMMITTED: each step below is one query   *)
(* of a transaction, or its insert and commit.                             *)
(***************************************************************************)
EXTENDS Integers, FiniteSets, Absent

CONSTANTS
    Assessment,       \* primary keys of green_relevance_assessment
    Material,         \* green_review_material_fingerprint of an assessment
    Session,          \* processes that record decisions or run the continuity
    Stored,           \* the assessments there are at the start
    Given,            \* bound: the outcomes people give here
    LastTick,         \* bound: the last tick of the clock
    MaxSessions       \* bound: decisions, passes and imports begun

ASSUME AuthorityAssumption ==
    /\ None \notin Material
    /\ Given \subseteq {"CONFIRMED_GREEN", "CONFIRMED_NOT_GREEN", "INSUFFICIENT_EVIDENCE"}
    /\ {LastTick, MaxSessions} \subseteq Nat

VARIABLES
    now,
    assessed, decisions, applications,   \* the three tables
    session,
    passes,           \* history: what each finished continuity pass had to cover
    begun             \* how many of MaxSessions have begun

reviewVars == <<now, assessed, decisions, applications, session, passes, begun>>

-----------------------------------------------------------------------------
Outcome == {"CONFIRMED_GREEN", "CONFIRMED_NOT_GREEN", "INSUFFICIENT_EVIDENCE"}

Moment == 0..LastTick

\* The terms found in an observation, by bucket.
Signal == {"POSITIVE", "EXCLUSION", "CONDITIONAL"}

Classified(found) ==
    IF "POSITIVE" \in found
      THEN IF "EXCLUSION" \in found THEN "REVIEW" ELSE "GREEN_CONFIRMED"
      ELSE IF found = {"CONDITIONAL"} THEN "REVIEW" ELSE "NOT_GREEN"

Assessed == [result: {"REVIEW", "GREEN_CONFIRMED", "NOT_GREEN"}, material: Material, created: Moment]

\* origin tells the primary key: drawn here, or copied from another database.
Origin == {"LOCAL", "COPIED"}

Decision == [on: Assessment, outcome: Outcome, reviewed: Moment, created: Moment,
             origin: Origin]

Application == [target: Assessment, source: Decision, created: Moment,
                origin: Origin]

\* The locals of a process.  Between two transactions of a pass, todo holds the targets ahead.
Idle == [pc |-> "IDLE", cutoff |-> 0, targets |-> {}, todo |-> {}, known |-> {}, row |-> None]

Working == [pc: {"IDLE", "PASS", "CLEAN_EXISTING", "CLEAN_DECISION", "SAVE_DECISION",
                 "CLEAN_APPLICATION", "SAVE_APPLICATION"},
            cutoff: Moment, targets: SUBSET Assessment, todo: SUBSET Assessment,
            known: SUBSET Decision, row: Decision \cup Application \cup {None}]

Pass == [cutoff: Moment, targets: SUBSET Assessment, known: SUBSET Decision]

-----------------------------------------------------------------------------
InReview(a) == assessed[a] # None /\ assessed[a].result = "REVIEW"

SameMaterial(a, b) == assessed[a].material = assessed[b].material

Direct(a) == {d \in decisions : d.on = a}

Inherited(a) == {p \in applications : p.target = a}

AvailableByReview(c) == {d \in decisions : d.reviewed <= c}   \* mutant: dated but not stored

Available(c) == {d \in decisions : d.reviewed <= c /\ d.created <= c}

\* The knowledge a continuity pass at cutoff c finds for a target.
Matches(a, c) == {d \in Available(c) : SameMaterial(d.on, a)}

\* full_clean of a decision, of an application.  It includes the unique constraints, as far as
\* the rows are committed.
DecisionClean(d) ==
    /\ InReview(d.on)
    /\ d.reviewed <= d.created
    /\ Inherited(d.on) = {}
    /\ Direct(d.on) = {}

ApplicationClean(p) ==
    /\ InReview(p.target)
    /\ p.source.on # p.target
    /\ p.source.created <= p.created /\ p.source.reviewed <= p.created
    /\ Direct(p.target) = {}
    /\ SameMaterial(p.source.on, p.target)

Answer(outcome) ==
    CASE outcome = "INSUFFICIENT_EVIDENCE" -> "REVIEW"
      [] outcome = "CONFIRMED_GREEN" -> "GREEN_CONFIRMED"
      [] OTHER -> "NOT_GREEN"

\* effective_green_result.  "INVALID" is the exception of the stored application's full_clean.
Effective(a, c) ==
    LET direct == {d \in Direct(a) : d \in Available(c)}
        inherited == {p \in Inherited(a) : p.created <= c /\ p.source \in Available(c)}
    IN  CASE assessed[a] = None -> "MISSING"
          [] assessed[a] # None /\ ~InReview(a) -> assessed[a].result
          [] InReview(a) /\ direct # {} -> Answer((CHOOSE d \in direct : TRUE).outcome)
          [] InReview(a) /\ direct = {} /\ inherited = {} -> "REVIEW"
          [] OTHER ->
                LET p == CHOOSE q \in inherited : TRUE
                IN  IF ApplicationClean(p) THEN Answer(p.source.outcome) ELSE "INVALID"

-----------------------------------------------------------------------------
AuthorityClock == now < LastTick /\ now' = now + 1
                  /\ UNCHANGED <<assessed, decisions, applications, session, passes, begun>>

\* A collection classifies an observation.
Assess(a) ==
    /\ assessed[a] = None
    /\ \E found \in SUBSET Signal, m \in Material :
           assessed' = [assessed EXCEPT ![a] =
               [result |-> Classified(found), material |-> m, created |-> now]]
    /\ UNCHANGED <<now, decisions, applications, session, passes, begun>>

GoOn(s, pc) == session' = [session EXCEPT ![s].pc = pc]

Stop(s) == session' = [session EXCEPT ![s] = Idle]

Begun == begun < MaxSessions /\ begun' = begun + 1

\* record_green_review_decision up to save().  Where a decision exists, it is returned or refused.
RecordDecision(s) ==
    /\ session[s].pc = "IDLE" /\ Begun
    /\ \E a \in Assessment, o \in Given, r \in 0..now :
           /\ InReview(a)
           /\ Inherited(a) = {} /\ Direct(a) = {}
           /\ session' = [session EXCEPT ![s] = [Idle EXCEPT
                  !.pc = "CLEAN_DECISION",
                  !.row = [on |-> a, outcome |-> o, reviewed |-> r, created |-> now,
                           origin |-> "LOCAL"]]]
    /\ UNCHANGED <<now, assessed, decisions, applications, passes>>

CleanDecision(s) ==
    /\ session[s].pc = "CLEAN_DECISION"
    /\ IF DecisionClean(session[s].row) THEN GoOn(s, "SAVE_DECISION") ELSE Stop(s)
    /\ UNCHANGED <<now, assessed, decisions, applications, passes, begun>>

\* The unique constraint speaks again; the caller gets the other row or a conflict.
SaveDecision(s) ==
    /\ session[s].pc = "SAVE_DECISION"
    /\ IF Direct(session[s].row.on) = {}
         THEN decisions' = decisions \cup {session[s].row}
         ELSE UNCHANGED decisions
    /\ Stop(s)
    /\ UNCHANGED <<now, assessed, applications, passes, begun>>

-----------------------------------------------------------------------------
\* apply_green_continuity: a loop over the targets of a cutoff, with one transaction for each
\* application.
BeginPass(s) ==
    /\ session[s].pc = "IDLE" /\ Begun
    /\ \E c \in 0..now :
           LET targets == {a \in Assessment : InReview(a) /\ assessed[a].created <= c}
           IN  session' = [session EXCEPT ![s] = [Idle EXCEPT
                   !.pc = "PASS", !.cutoff = c, !.targets = targets, !.todo = targets,
                   !.known = decisions]]
    /\ UNCHANGED <<now, assessed, decisions, applications, passes>>

Settled(a) == Direct(a) # {} \/ Inherited(a) # {}

\* A decision exists, or there is nothing to inherit.
PassOver(s, a) ==
    /\ session[s].pc = "PASS" /\ a \in session[s].todo
    /\ \/ Direct(a) # {}
       \/ Inherited(a) = {} /\ Matches(a, session[s].cutoff) = {}
    /\ session' = [session EXCEPT ![s].todo = @ \ {a}]
    /\ UNCHANGED <<now, assessed, decisions, applications, passes, begun>>

\* An application exists; its full_clean comes after another look at the decisions.
FindExisting(s, a) ==
    /\ session[s].pc = "PASS" /\ a \in session[s].todo
    /\ Direct(a) = {}
    /\ \E p \in Inherited(a) :
           session' = [session EXCEPT ![s].pc = "CLEAN_EXISTING", ![s].row = p]
    /\ UNCHANGED <<now, assessed, decisions, applications, passes, begun>>

CleanExisting(s) ==
    /\ session[s].pc = "CLEAN_EXISTING"
    /\ IF ApplicationClean(session[s].row)
         THEN session' = [session EXCEPT ![s].pc = "PASS", ![s].row = None,
                                         ![s].todo = @ \ {session[s].row.target}]
         ELSE Stop(s)
    /\ UNCHANGED <<now, assessed, decisions, applications, passes, begun>>

\* CONFLICTING_PRIOR_HUMAN_KNOWLEDGE ends the pass.
Ambiguous(s, a) ==
    /\ session[s].pc = "PASS" /\ a \in session[s].todo
    /\ ~Settled(a) /\ Cardinality(Matches(a, session[s].cutoff)) > 1
    /\ Stop(s)
    /\ UNCHANGED <<now, assessed, decisions, applications, passes, begun>>

Inherit(s, a) ==
    /\ session[s].pc = "PASS" /\ a \in session[s].todo
    /\ ~Settled(a)
    /\ \E d \in Matches(a, session[s].cutoff) :
           /\ Matches(a, session[s].cutoff) = {d}
           /\ session' = [session EXCEPT
                  ![s].pc = "CLEAN_APPLICATION",
                  ![s].row = [target |-> a, source |-> d, created |-> now, origin |-> "LOCAL"]]
    /\ UNCHANGED <<now, assessed, decisions, applications, passes, begun>>

CleanApplication(s) ==
    /\ session[s].pc = "CLEAN_APPLICATION"
    /\ IF ApplicationClean(session[s].row) /\ Inherited(session[s].row.target) = {}
         THEN GoOn(s, "SAVE_APPLICATION")
         ELSE Stop(s)
    /\ UNCHANGED <<now, assessed, decisions, applications, passes, begun>>

SaveApplicationQuietly(s) ==   \* mutant: the conflict is swallowed and nothing is written
    /\ session[s].pc = "SAVE_APPLICATION"
    /\ session' = [session EXCEPT ![s].pc = "PASS", ![s].row = None,
                                  ![s].todo = @ \ {session[s].row.target}]
    /\ UNCHANGED <<now, assessed, decisions, applications, passes, begun>>

\* A concurrent application of the same decision counts as this one, another ends the pass.
SaveApplication(s) ==
    LET row == session[s].row
        there == Inherited(row.target)
    IN  /\ session[s].pc = "SAVE_APPLICATION"
        /\ applications' = IF there = {} THEN applications \cup {row} ELSE applications
        /\ IF \A p \in there : p.source = row.source
             THEN session' = [session EXCEPT ![s].pc = "PASS", ![s].row = None,
                                             ![s].todo = @ \ {row.target}]
             ELSE Stop(s)
        /\ UNCHANGED <<now, assessed, decisions, passes, begun>>

FinishPass(s) ==
    /\ session[s].pc = "PASS" /\ session[s].todo = {}
    /\ passes' = passes \cup {[cutoff |-> session[s].cutoff, targets |-> session[s].targets,
                               known |-> session[s].known]}
    /\ Stop(s)
    /\ UNCHANGED <<now, assessed, decisions, applications, begun>>

-----------------------------------------------------------------------------
ReviewInit ==
    /\ now = 0
    /\ assessed = Stored
    /\ decisions = {}
    /\ applications = {}
    /\ session = [s \in Session |-> Idle]
    /\ passes = {}
    /\ begun = 0

SessionStep(s) ==
    \/ RecordDecision(s) \/ CleanDecision(s) \/ SaveDecision(s)
    \/ BeginPass(s) \/ FinishPass(s)
    \/ CleanExisting(s) \/ CleanApplication(s) \/ SaveApplication(s)
    \/ \E a \in Assessment : \/ PassOver(s, a) \/ FindExisting(s, a)
                             \/ Ambiguous(s, a) \/ Inherit(s, a)

ReviewNext ==
    \/ AuthorityClock
    \/ \E a \in Assessment : Assess(a)
    \/ \E s \in Session : SessionStep(s)

=============================================================================
