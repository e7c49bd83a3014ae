------------------------ MODULE AuthorityLineage_proofs ------------------------
(***************************************************************************)
(* Proofs about AuthorityLineage, and about the sessions of                *)
(* ReviewAuthority beside it, for any number of sessions and importers,    *)
(* any assessments, packages and times.                                    *)
(***************************************************************************)
EXTENDS AuthorityLineage, TLAPS

USE AuthorityAssumption, LineageAssumption

-----------------------------------------------------------------------------
(* The invariant.                                                          *)

\* A decision is about an assessment that exists, and so are the rows that were copied before.
Founded ==
    /\ \A d \in decisions : assessed[d.on] # None
    /\ \A a \in Replicated : assessed[a] # None

\* What a session is about to insert was made here; what it looks at again is stored.
DraftTrue(w) ==
    /\ w.pc \in {"CLEAN_DECISION", "SAVE_DECISION"} =>
           w.row \in Decision /\ w.row.origin = "LOCAL" /\ assessed[w.row.on] # None
    /\ w.pc \in {"CLEAN_APPLICATION", "SAVE_APPLICATION"} =>
           w.row \in Application /\ w.row.origin = "LOCAL"
    /\ w.pc = "CLEAN_EXISTING" => w.row \in applications

\* The decisions a pass found at its beginning are stored and its targets exist.
Watching(targets, known) ==
    known \subseteq decisions /\ \A a \in targets : assessed[a] # None

\* PassesCover for some targets.
Covered(targets, known, c) ==
    \A a \in targets : Settled(a) \/ ~\E d \in known : d \in Matches(a, c)

PassPc == {"PASS", "CLEAN_EXISTING", "CLEAN_APPLICATION", "SAVE_APPLICATION"}

\* A pass under way has covered the targets it has gone over.
PassTrue(w) ==
    w.pc \in PassPc =>
        Watching(w.targets, w.known) /\ Covered(w.targets \ w.todo, w.known, w.cutoff)

SessionsTrue == \A s \in Session : DraftTrue(session[s]) /\ PassTrue(session[s])

PassesTrue ==
    \A p \in passes : Watching(p.targets, p.known) /\ Covered(p.targets, p.known, p.cutoff)

\* An importer past its first checks has a package whose assessments are here.
ImportersTrue ==
    \A i \in Importer : importer[i].pc # "IDLE" =>
        importer[i].package \in Package /\ DependenciesPresent(importer[i].package)

AuthorityInv ==
    AuthorityTypeOK /\ Founded /\ SessionsTrue /\ PassesTrue /\ ImportersTrue /\ BatchAccounts

-----------------------------------------------------------------------------
(* Rows stay: what a pass has covered remains covered.                     *)

Grows ==
    /\ decisions \subseteq decisions' /\ applications \subseteq applications'
    /\ \A a \in Assessment : assessed[a] # None => assessed'[a] = assessed[a]

LEMMA CoveredStays ==
    ASSUME AuthorityTypeOK, Founded, Grows,
           NEW T \in SUBSET Assessment, NEW K \in SUBSET Decision, NEW c,
           Watching(T, K)
    PROVE  /\ Watching(T, K)'
           /\ \A a \in T : Settled(a) => Settled(a)'
           /\ \A a \in T : \A d \in K : (d \in Matches(a, c))' => d \in Matches(a, c)
<1>1. Watching(T, K)'
  BY DEF Watching, Grows
<1>2. \A a \in T : Settled(a) => Settled(a)'
  BY DEF Grows, Settled, Direct, Inherited
<1>3. ASSUME NEW a \in T, NEW d \in K, (d \in Matches(a, c))'
      PROVE  d \in Matches(a, c)
  <2>1. /\ d \in decisions /\ d.on \in Assessment
        /\ assessed'[d.on] = assessed[d.on] /\ assessed'[a] = assessed[a]
    BY DEF Watching, Grows, Founded, Decision
  <2>2. d.reviewed <= c /\ d.created <= c /\ assessed'[d.on].material = assessed'[a].material
    BY <1>3 DEF Matches, Available, SameMaterial
  <2> QED
    BY <2>1, <2>2 DEF Matches, Available, SameMaterial
<1> QED
  BY <1>1, <1>2, <1>3

LEMMA CoverageStays ==
    ASSUME AuthorityTypeOK, Founded, Grows,
           NEW T \in SUBSET Assessment, NEW U \in SUBSET T, NEW K \in SUBSET Decision, NEW c,
           Watching(T, K), Covered(U, K, c)
    PROVE  Watching(T, K)' /\ Covered(U, K, c)'
BY CoveredStays DEF Covered

LEMMA SessionStays ==
    ASSUME AuthorityTypeOK, Founded, Grows, NEW w \in Working, DraftTrue(w), PassTrue(w)
    PROVE  DraftTrue(w)' /\ PassTrue(w)'
<1>1. DraftTrue(w)'
  BY DEF DraftTrue, Grows, Decision
<1>2. w.targets \in SUBSET Assessment /\ w.known \in SUBSET Decision
  BY DEF Working
<1>3. PassTrue(w)'
  BY <1>2, CoverageStays DEF PassTrue
<1> QED
  BY <1>1, <1>3

LEMMA PassesStay ==
    ASSUME AuthorityTypeOK, Founded, Grows, PassesTrue, UNCHANGED passes
    PROVE  PassesTrue'
<1>1. ASSUME NEW p \in passes
      PROVE  Watching(p.targets, p.known)' /\ Covered(p.targets, p.known, p.cutoff)'
  <2>1. p.targets \in SUBSET Assessment /\ p.known \in SUBSET Decision
    BY DEF AuthorityTypeOK, Pass
  <2> QED
    BY <2>1, CoverageStays DEF PassesTrue
<1> QED
  BY <1>1 DEF PassesTrue

-----------------------------------------------------------------------------
(* The steps of a session.                                                 *)

LEMMA FieldsTyped ==
    ASSUME NEW w \in Working
    PROVE  /\ \A pc \in PassPc \cup {"CLEAN_DECISION", "SAVE_DECISION"} : [w EXCEPT !.pc = pc] \in Working
           /\ \A r \in Decision \cup Application \cup {None} : [w EXCEPT !.row = r] \in Working
           /\ \A T \in SUBSET Assessment : [w EXCEPT !.todo = T] \in Working
BY DEF Working, PassPc

LEMMA IdleTyped == Idle \in Working /\ DraftTrue(Idle)' /\ PassTrue(Idle)'
BY DEF Idle, Working, Moment, DraftTrue, PassTrue, PassPc

\* What a step of s keeps: the other sessions stay, s goes on with w.
GoesOn(s, w) ==
    /\ session' = [session EXCEPT ![s] = w]
    /\ w \in Working
    /\ UNCHANGED now

LEMMA SessionsGoOn ==
    ASSUME AuthorityTypeOK, Founded, Grows, SessionsTrue,
           NEW s \in Session, NEW w, GoesOn(s, w), DraftTrue(w)', PassTrue(w)'
    PROVE  SessionsTrue' /\ (session \in [Session -> Working])'
<1>1. ASSUME NEW t \in Session
      PROVE  DraftTrue(session[t])' /\ PassTrue(session[t])'
  <2>1. CASE t = s
    <3>1. session'[t] = w
      BY <2>1 DEF GoesOn, AuthorityTypeOK
    <3> QED
      BY <3>1 DEF DraftTrue, PassTrue
  <2>2. CASE t # s
    <3> DEFINE v == session[t]
    <3>1. session'[t] = session[t] /\ session[t] \in Working
      BY <2>2 DEF GoesOn, AuthorityTypeOK
    <3>2. PICK u \in Working : u = session[t]
      BY <3>1
    <3>3. DraftTrue(u) /\ PassTrue(u)
      BY <3>2 DEF SessionsTrue
    <3>4. DraftTrue(u)' /\ PassTrue(u)'
      BY <3>3, SessionStays
    <3> QED
      BY <3>1, <3>2, <3>4 DEF DraftTrue, PassTrue
  <2> QED
    BY <2>1, <2>2
<1> QED
  BY <1>1 DEF SessionsTrue, GoesOn, AuthorityTypeOK

\* A step that only moves its session.
LEMMA QuietStep ==
    ASSUME AuthorityInv, NEW s \in Session, NEW w, GoesOn(s, w), DraftTrue(w)', PassTrue(w)',
           UNCHANGED <<assessed, decisions, applications, passes, governing, importer>>,
           begun' \in 0..MaxSessions
    PROVE  AuthorityInv'
<1>1. Grows
  BY DEF Grows
<1>2. SessionsTrue' /\ (session \in [Session -> Working])'
  BY <1>1, SessionsGoOn DEF AuthorityInv
<1>3. AuthorityTypeOK'
  BY <1>2 DEF AuthorityInv, AuthorityTypeOK, GoesOn
<1>4. PassesTrue'
  BY <1>1, PassesStay DEF AuthorityInv
<1>5. Founded' /\ ImportersTrue' /\ BatchAccounts'
  BY DEF AuthorityInv, Founded, ImportersTrue, DependenciesPresent, BatchAccounts, Human, Derived
<1> QED
  BY <1>2, <1>3, <1>4, <1>5 DEF AuthorityInv

\* The session stops.
LEMMA StopStep ==
    ASSUME AuthorityInv, NEW s \in Session, Stop(s),
           UNCHANGED <<now, assessed, decisions, applications, passes, begun, governing, importer>>
    PROVE  AuthorityInv'
<1>1. GoesOn(s, Idle)
  BY IdleTyped DEF GoesOn, Stop
<1>2. begun' \in 0..MaxSessions
  BY DEF AuthorityInv, AuthorityTypeOK
<1> QED
  BY <1>1, <1>2, IdleTyped, QuietStep

LEMMA DecisionDrafted ==
    ASSUME AuthorityInv, NEW s \in Session, RecordDecision(s), UNCHANGED importVars
    PROVE  AuthorityInv'
<1>1. PICK a \in Assessment, o \in Given, r \in 0..now :
          /\ InReview(a)
          /\ session' = [session EXCEPT ![s] = [Idle EXCEPT
                 !.pc = "CLEAN_DECISION",
                 !.row = [on |-> a, outcome |-> o, reviewed |-> r, created |-> now,
                          origin |-> "LOCAL"]]]
  BY DEF RecordDecision
<1>2. PICK d : d = [on |-> a, outcome |-> o, reviewed |-> r, created |-> now, origin |-> "LOCAL"]
  OBVIOUS
<1>3. d \in Decision /\ d.origin = "LOCAL" /\ assessed[d.on] # None
  BY <1>1, <1>2 DEF Decision, Outcome, Origin, Moment, AuthorityInv, AuthorityTypeOK, InReview
<1>4. PICK w : w = [pc |-> "CLEAN_DECISION", cutoff |-> 0, targets |-> {}, todo |-> {},
                    known |-> {}, row |-> d]
  OBVIOUS
<1>5. w \in Working
  BY <1>3, <1>4 DEF Working, Moment
<1>6. GoesOn(s, w)
  BY <1>1, <1>2, <1>4, <1>5 DEF GoesOn, RecordDecision, Idle
<1>7. DraftTrue(w)' /\ PassTrue(w)'
  BY <1>3, <1>4 DEF RecordDecision, DraftTrue, PassTrue, PassPc
<1>8. begun' \in 0..MaxSessions
  BY DEF RecordDecision, Begun, AuthorityInv, AuthorityTypeOK
<1> QED
  BY <1>6, <1>7, <1>8, QuietStep DEF RecordDecision, importVars

LEMMA DecisionCleaned ==
    ASSUME AuthorityInv, NEW s \in Session, CleanDecision(s), UNCHANGED importVars
    PROVE  AuthorityInv'
<1>1. CASE GoOn(s, "SAVE_DECISION")
  <2>1. PICK v \in Working : v = session[s]
    BY DEF AuthorityInv, AuthorityTypeOK
  <2>2. PICK w : w = [v EXCEPT !.pc = "SAVE_DECISION"]
    OBVIOUS
  <2>3. w \in Working /\ w.pc = "SAVE_DECISION" /\ w.row = v.row
    BY <2>2, FieldsTyped DEF Working
  <2>4. session' = [session EXCEPT ![s] = w]
    BY <1>1, <2>1, <2>2, Zenon DEF GoOn
  <2>5. v.pc = "CLEAN_DECISION" /\ DraftTrue(v)
    BY <2>1 DEF CleanDecision, AuthorityInv, SessionsTrue
  <2>6. DraftTrue(w)' /\ PassTrue(w)'
    BY <2>3, <2>5 DEF CleanDecision, DraftTrue, PassTrue, PassPc
  <2> QED
    BY <2>3, <2>4, <2>6, QuietStep DEF CleanDecision, importVars, GoesOn, AuthorityInv, AuthorityTypeOK
<1>2. CASE Stop(s)
  BY <1>2, StopStep DEF CleanDecision, importVars
<1> QED
  BY <1>1, <1>2 DEF CleanDecision


\* The first row about an assessment, or a conflict.
LEMMA DecisionSaved ==
    ASSUME AuthorityInv, NEW s \in Session, SaveDecision(s), UNCHANGED importVars
    PROVE  AuthorityInv'
<1>1. CASE decisions' = decisions \cup {session[s].row}
  <2>1. PICK v \in Working : v = session[s]
    BY DEF AuthorityInv, AuthorityTypeOK
  <2>2. v.row \in Decision /\ v.row.origin = "LOCAL" /\ assessed[v.row.on] # None
    BY <2>1 DEF SaveDecision, AuthorityInv, SessionsTrue, DraftTrue
  <2>3. Grows /\ UNCHANGED <<now, assessed, applications, passes, begun, governing, importer>>
    BY <1>1 DEF SaveDecision, Grows, importVars
  <2>4. GoesOn(s, Idle)
    BY IdleTyped DEF GoesOn, SaveDecision, Stop
  <2>5. SessionsTrue' /\ (session \in [Session -> Working])'
    BY <2>3, <2>4, IdleTyped, SessionsGoOn DEF AuthorityInv
  <2>6. AuthorityTypeOK' /\ Founded'
    BY <1>1, <2>1, <2>2, <2>3, <2>5 DEF AuthorityInv, AuthorityTypeOK, Founded
  <2>7. PassesTrue'
    BY <2>3, PassesStay DEF AuthorityInv
  <2>8. {d \in decisions' : d.origin = "COPIED"} = {d \in decisions : d.origin = "COPIED"}
    BY <1>1, <2>1, <2>2
  <2>9. ImportersTrue' /\ BatchAccounts'
    BY <2>3, <2>8 DEF AuthorityInv, ImportersTrue, DependenciesPresent, BatchAccounts, Human, Derived
  <2> QED
    BY <2>5, <2>6, <2>7, <2>9 DEF AuthorityInv
<1>2. CASE UNCHANGED decisions
  BY <1>2, StopStep DEF SaveDecision, importVars
<1> QED
  BY <1>1, <1>2 DEF SaveDecision

LEMMA PassBegun ==
    ASSUME AuthorityInv, NEW s \in Session, BeginPass(s), UNCHANGED importVars
    PROVE  AuthorityInv'
<1>1. PICK c \in 0..now, targets \in SUBSET Assessment :
          /\ \A a \in targets : assessed[a] # None
          /\ session' = [session EXCEPT ![s] = [Idle EXCEPT
                 !.pc = "PASS", !.cutoff = c, !.targets = targets, !.todo = targets,
                 !.known = decisions]]
  BY DEF BeginPass, InReview
<1>2. PICK K \in SUBSET Decision : K = decisions
  BY DEF AuthorityInv, AuthorityTypeOK
<1> DEFINE w == [pc |-> "PASS", cutoff |-> c, targets |-> targets, todo |-> targets,
                 known |-> K, row |-> None]
<1>3. w \in Working
  <2>1. c \in Moment
    BY DEF Moment, AuthorityInv, AuthorityTypeOK
  <2> QED
    BY <2>1 DEF Working
<1>4. GoesOn(s, w)
  BY <1>1, <1>2, <1>3 DEF GoesOn, BeginPass, Idle
<1>5. DraftTrue(w)' /\ PassTrue(w)'
  BY <1>1, <1>2 DEF BeginPass, DraftTrue, PassTrue, PassPc, Watching, Covered
<1>6. begun' \in 0..MaxSessions
  BY DEF BeginPass, Begun, AuthorityInv, AuthorityTypeOK
<1> QED
  BY <1>4, <1>5, <1>6, QuietStep DEF BeginPass, importVars

\* A pass goes on in another place, with another row, its targets and cutoff kept.
LEMMA PassMoves ==
    ASSUME AuthorityInv, NEW s \in Session, NEW pc \in PassPc,
           NEW r \in Decision \cup Application \cup {None}, session[s].pc \in PassPc,
           session' = [session EXCEPT ![s].pc = pc, ![s].row = r],
           UNCHANGED <<now, assessed, decisions, applications, passes, begun, governing, importer>>,
           pc \in {"CLEAN_APPLICATION", "SAVE_APPLICATION"} => r \in Application /\ r.origin = "LOCAL",
           pc = "CLEAN_EXISTING" => r \in applications
    PROVE  AuthorityInv'
<1>1. PICK v \in Working : v = session[s]
  BY DEF AuthorityInv, AuthorityTypeOK
<1>2. PICK w : w = [[v EXCEPT !.pc = pc] EXCEPT !.row = r]
  OBVIOUS
<1>3. w \in Working
  BY <1>2, FieldsTyped
<1>4. /\ w.pc = pc /\ w.row = r /\ w.targets = v.targets /\ w.todo = v.todo
      /\ w.known = v.known /\ w.cutoff = v.cutoff
  BY <1>2 DEF Working
<1>5. session' = [session EXCEPT ![s] = w]
  BY <1>1, <1>2, Zenon
<1>6. PassTrue(v) /\ v.pc \in PassPc
  BY <1>1 DEF AuthorityInv, SessionsTrue
<1>7. DraftTrue(w)'
  BY <1>4 DEF DraftTrue, PassPc
<1>8. PassTrue(w)'
  BY <1>4, <1>6 DEF PassTrue, Watching, Covered, Settled, Direct, Inherited, Matches, Available,
                    SameMaterial
<1> QED
  BY <1>3, <1>5, <1>7, <1>8, QuietStep DEF GoesOn, AuthorityInv, AuthorityTypeOK


\* A pass goes on over the other targets: this one is settled, or has nothing to inherit.
LEMMA PassCovers ==
    ASSUME AuthorityInv, Grows, NEW s \in Session, NEW a \in Assessment, session[s].pc \in PassPc,
           NEW w \in Working, w.pc = "PASS", w.targets = session[s].targets,
           w.todo = session[s].todo \ {a}, w.known = session[s].known, w.cutoff = session[s].cutoff,
           Settled(a)' \/ Matches(a, w.cutoff) = {}, UNCHANGED <<assessed, decisions>>
    PROVE  DraftTrue(w)' /\ PassTrue(w)'
<1>1. PICK v \in Working : v = session[s]
  BY DEF AuthorityInv, AuthorityTypeOK
<1>2. PassTrue(v) /\ v.pc \in PassPc /\ DraftTrue(v)
  BY <1>1 DEF AuthorityInv, SessionsTrue
<1>3. PassTrue(v)'
  BY <1>2, SessionStays DEF AuthorityInv
<1>4. Matches(a, w.cutoff)' = Matches(a, w.cutoff)
  BY DEF Matches, Available, SameMaterial
<1>5. PassTrue(w)'
  <2>1. Watching(w.targets, w.known)' /\ Covered(v.targets \ v.todo, v.known, v.cutoff)'
    BY <1>1, <1>2, <1>3 DEF PassTrue
  <2>2. w.targets \ w.todo \subseteq (v.targets \ v.todo) \cup {a}
    BY <1>1
  <2>3. Covered(w.targets \ w.todo, w.known, w.cutoff)'
    BY <1>1, <1>4, <2>1, <2>2 DEF Covered
  <2> QED
    BY <2>1, <2>3 DEF PassTrue
<1> QED
  BY <1>5 DEF DraftTrue

\* A pass that goes on with what is ahead of it.
Onward(v, ahead) ==
    [[[v EXCEPT !.pc = "PASS"] EXCEPT !.row = None] EXCEPT !.todo = ahead]

LEMMA OnwardTyped ==
    ASSUME NEW v \in Working, NEW ahead \in SUBSET Assessment
    PROVE  LET w == Onward(v, ahead)
           IN  /\ w \in Working /\ w.pc = "PASS" /\ w.todo = ahead
               /\ w.targets = v.targets /\ w.known = v.known /\ w.cutoff = v.cutoff
<1>1. PICK x \in Working : x = [v EXCEPT !.pc = "PASS"]
  BY FieldsTyped DEF PassPc
<1>2. PICK y \in Working : y = [x EXCEPT !.row = None]
  BY FieldsTyped
<1>3. PICK w \in Working : w = [y EXCEPT !.todo = ahead]
  BY FieldsTyped
<1>4. w = Onward(v, ahead)
  BY <1>1, <1>2, <1>3, Zenon DEF Onward
<1>5. /\ w.pc = "PASS" /\ w.todo = ahead
      /\ w.targets = v.targets /\ w.known = v.known /\ w.cutoff = v.cutoff
  BY <1>1, <1>2, <1>3 DEF Working
<1> QED
  BY <1>4, <1>5

LEMMA TargetPassedOver ==
    ASSUME AuthorityInv, NEW s \in Session, NEW a \in Assessment, PassOver(s, a),
           UNCHANGED importVars
    PROVE  AuthorityInv'
<1>1. PICK v \in Working : v = session[s]
  BY DEF AuthorityInv, AuthorityTypeOK
<1>2. PICK w : w = [v EXCEPT !.todo = v.todo \ {a}]
  OBVIOUS
<1>3. w \in Working
  <2>1. v.todo \ {a} \in SUBSET Assessment
    BY DEF Working
  <2> QED
    BY <1>2, <2>1, FieldsTyped
<1>4. /\ w.pc = v.pc /\ w.todo = v.todo \ {a} /\ w.targets = v.targets
      /\ w.known = v.known /\ w.cutoff = v.cutoff
  BY <1>2 DEF Working
<1>5. session' = [session EXCEPT ![s] = w]
  BY <1>1, <1>2, Zenon DEF PassOver
<1>6. /\ v.pc = "PASS" /\ Grows
      /\ UNCHANGED <<now, assessed, decisions, applications, passes, begun, governing, importer>>
  BY <1>1 DEF PassOver, Grows, importVars
<1>7. Settled(a)' \/ Matches(a, w.cutoff) = {}
  BY <1>1, <1>4, <1>6 DEF PassOver, Settled, Direct, Inherited
<1>8. DraftTrue(w)' /\ PassTrue(w)'
  BY <1>1, <1>3, <1>4, <1>6, <1>7, PassCovers DEF PassPc
<1> QED
  BY <1>3, <1>5, <1>6, <1>8, QuietStep DEF GoesOn, AuthorityInv, AuthorityTypeOK

LEMMA ExistingFound ==
    ASSUME AuthorityInv, NEW s \in Session, NEW a \in Assessment, FindExisting(s, a),
           UNCHANGED importVars
    PROVE  AuthorityInv'
<1>1. PICK p \in applications :
          session' = [session EXCEPT ![s].pc = "CLEAN_EXISTING", ![s].row = p]
  BY Zenon DEF FindExisting, Inherited
<1>2. p \in Application
  BY DEF AuthorityInv, AuthorityTypeOK
<1>3. /\ session[s].pc = "PASS"
      /\ UNCHANGED <<now, assessed, decisions, applications, passes, begun, governing, importer>>
  BY Zenon DEF FindExisting, importVars
<1> QED
  BY <1>1, <1>2, <1>3, PassMoves DEF PassPc

LEMMA ExistingCleaned ==
    ASSUME AuthorityInv, NEW s \in Session, CleanExisting(s), UNCHANGED importVars
    PROVE  AuthorityInv'
<1>1. CASE Stop(s)
  BY <1>1, StopStep DEF CleanExisting, importVars
<1>2. CASE session' = [session EXCEPT ![s].pc = "PASS", ![s].row = None,
                                      ![s].todo = @ \ {session[s].row.target}]
  <2>1. PICK v \in Working : v = session[s]
    BY DEF AuthorityInv, AuthorityTypeOK
  <2>2. /\ v.pc = "CLEAN_EXISTING" /\ Grows
        /\ UNCHANGED <<now, assessed, decisions, applications, passes, begun, governing, importer>>
    BY <2>1, SMT DEF CleanExisting, Grows, importVars
  <2>3. v.row \in applications /\ v.row \in Application
    BY <2>1, <2>2 DEF AuthorityInv, AuthorityTypeOK, SessionsTrue, DraftTrue
  <2>4. PICK a \in Assessment : a = v.row.target
    BY <2>3 DEF Application
  <2>5. PICK w : w = Onward(v, v.todo \ {a})
    OBVIOUS
  <2>6. session' = [session EXCEPT ![s] = w]
    BY <1>2, <2>1, <2>4, <2>5, Zenon DEF Onward
  <2>7. Settled(a)'
    BY <2>2, <2>3, <2>4 DEF Settled, Inherited
  <2>8. /\ w \in Working /\ w.pc = "PASS" /\ w.todo = v.todo \ {a}
        /\ w.targets = v.targets /\ w.known = v.known /\ w.cutoff = v.cutoff
    <3>1. v.todo \ {a} \in SUBSET Assessment
      BY DEF Working
    <3> QED
      BY <2>5, <3>1, OnwardTyped
  <2>9. DraftTrue(w)' /\ PassTrue(w)'
    BY <2>1, <2>2, <2>7, <2>8, PassCovers DEF PassPc
  <2> QED
    BY <2>2, <2>6, <2>8, <2>9, QuietStep DEF GoesOn, AuthorityInv, AuthorityTypeOK
<1> QED
  BY <1>1, <1>2 DEF CleanExisting


LEMMA KnowledgeInherited ==
    ASSUME AuthorityInv, NEW s \in Session, NEW a \in Assessment, Inherit(s, a),
           UNCHANGED importVars
    PROVE  AuthorityInv'
<1>1. PICK d \in Matches(a, session[s].cutoff) :
          session' = [session EXCEPT
              ![s].pc = "CLEAN_APPLICATION",
              ![s].row = [target |-> a, source |-> d, created |-> now, origin |-> "LOCAL"]]
  BY Zenon DEF Inherit
<1>2. PICK p : p = [target |-> a, source |-> d, created |-> now, origin |-> "LOCAL"]
  OBVIOUS
<1>3. d \in Decision
  BY DEF Matches, Available, AuthorityInv, AuthorityTypeOK
<1>4. p \in Application /\ p.origin = "LOCAL"
  BY <1>2, <1>3 DEF Application, Origin, AuthorityInv, AuthorityTypeOK
<1>5. session' = [session EXCEPT ![s].pc = "CLEAN_APPLICATION", ![s].row = p]
  BY <1>1, <1>2, Zenon
<1>6. /\ session[s].pc = "PASS"
      /\ UNCHANGED <<now, assessed, decisions, applications, passes, begun, governing, importer>>
  BY Zenon DEF Inherit, importVars
<1> QED
  BY <1>4, <1>5, <1>6, PassMoves DEF PassPc

LEMMA ApplicationCleaned ==
    ASSUME AuthorityInv, NEW s \in Session, CleanApplication(s), UNCHANGED importVars
    PROVE  AuthorityInv'
<1>1. CASE GoOn(s, "SAVE_APPLICATION")
  <2>1. PICK v \in Working : v = session[s]
    BY DEF AuthorityInv, AuthorityTypeOK
  <2>2. PICK w : w = [v EXCEPT !.pc = "SAVE_APPLICATION"]
    OBVIOUS
  <2>3. /\ w \in Working /\ w.pc = "SAVE_APPLICATION" /\ w.row = v.row
        /\ w.targets = v.targets /\ w.todo = v.todo /\ w.known = v.known /\ w.cutoff = v.cutoff
    BY <2>2, FieldsTyped DEF Working, PassPc
  <2>4. session' = [session EXCEPT ![s] = w]
    BY <1>1, <2>1, <2>2, Zenon DEF GoOn
  <2>5. v.pc = "CLEAN_APPLICATION" /\ DraftTrue(v) /\ PassTrue(v)
    BY <2>1 DEF CleanApplication, AuthorityInv, SessionsTrue
  <2>6. UNCHANGED <<now, assessed, decisions, applications, passes, begun, governing, importer>>
    BY DEF CleanApplication, importVars
  <2>7. DraftTrue(w)'
    BY <2>3, <2>5 DEF DraftTrue
  <2>8. PassTrue(w)'
    BY <2>3, <2>5, <2>6 DEF PassTrue, PassPc, Watching, Covered, Settled, Direct, Inherited, Matches,
                            Available, SameMaterial
  <2> QED
    BY <2>3, <2>4, <2>6, <2>7, <2>8, QuietStep DEF GoesOn, AuthorityInv, AuthorityTypeOK
<1>2. CASE Stop(s)
  BY <1>2, StopStep DEF CleanApplication, importVars
<1> QED
  BY <1>1, <1>2 DEF CleanApplication

\* A step that adds applications made here, or none, and moves its session.
LEMMA ApplyingStep ==
    ASSUME AuthorityInv, Grows, NEW s \in Session, NEW w, GoesOn(s, w),
           DraftTrue(w)', PassTrue(w)',
           applications' \subseteq Application,
           \A p \in applications' \ applications : p.origin = "LOCAL",
           UNCHANGED <<assessed, decisions, passes, begun, governing, importer>>
    PROVE  AuthorityInv'
<1>1. SessionsTrue' /\ (session \in [Session -> Working])'
  BY SessionsGoOn DEF AuthorityInv
<1>2. AuthorityTypeOK' /\ Founded'
  BY <1>1 DEF AuthorityInv, AuthorityTypeOK, GoesOn, Founded
<1>3. PassesTrue'
  BY PassesStay DEF AuthorityInv
<1>4. {p \in applications' : p.origin = "COPIED"} = {p \in applications : p.origin = "COPIED"}
  BY DEF Grows
<1>5. ImportersTrue' /\ BatchAccounts'
  BY <1>4 DEF AuthorityInv, ImportersTrue, DependenciesPresent, BatchAccounts, Human, Derived
<1> QED
  BY <1>1, <1>2, <1>3, <1>5 DEF AuthorityInv

LEMMA ApplicationSaved ==
    ASSUME AuthorityInv, NEW s \in Session, SaveApplication(s), UNCHANGED importVars
    PROVE  AuthorityInv'
<1>1. PICK v \in Working : v = session[s]
  BY DEF AuthorityInv, AuthorityTypeOK
<1>2. v.pc = "SAVE_APPLICATION" /\ v.row \in Application /\ v.row.origin = "LOCAL"
  BY <1>1, SMT DEF SaveApplication, AuthorityInv, SessionsTrue, DraftTrue
<1>3. PICK a \in Assessment : a = v.row.target
  BY <1>2 DEF Application
<1>4. /\ applications' = IF Inherited(a) = {} THEN applications \cup {v.row} ELSE applications
      /\ UNCHANGED <<now, assessed, decisions, passes, begun, governing, importer>>
  BY <1>1, <1>3, SMT DEF SaveApplication, importVars
<1>5. Grows
  BY <1>4 DEF Grows
<1>6. applications' \subseteq Application /\ \A p \in applications' \ applications : p.origin = "LOCAL"
  BY <1>2, <1>4 DEF AuthorityInv, AuthorityTypeOK
<1>7. CASE Stop(s)
  <2>1. GoesOn(s, Idle)
    BY <1>4, <1>7, IdleTyped DEF GoesOn, Stop
  <2> QED
    BY <1>4, <1>5, <1>6, <2>1, IdleTyped, ApplyingStep
<1>8. CASE session' = [session EXCEPT ![s].pc = "PASS", ![s].row = None,
                                      ![s].todo = @ \ {session[s].row.target}]
  <2>1. PICK w : w = Onward(v, v.todo \ {a})
    OBVIOUS
  <2>2. session' = [session EXCEPT ![s] = w]
    BY <1>1, <1>3, <1>8, <2>1, Zenon DEF Onward
  <2>3. Settled(a)'
    BY <1>3, <1>4 DEF Settled, Inherited
  <2>4. v.todo \ {a} \in SUBSET Assessment
    BY DEF Working
  <2>5. /\ w \in Working /\ w.pc = "PASS" /\ w.todo = v.todo \ {a}
        /\ w.targets = v.targets /\ w.known = v.known /\ w.cutoff = v.cutoff
    BY <2>1, <2>4, OnwardTyped
  <2>6. DraftTrue(w)' /\ PassTrue(w)'
    BY <1>1, <1>2, <1>4, <1>5, <2>3, <2>5, PassCovers DEF PassPc
  <2>7. GoesOn(s, w)
    BY <1>4, <2>2, <2>5 DEF GoesOn
  <2> QED
    BY <1>4, <1>5, <1>6, <2>6, <2>7, ApplyingStep
<1> QED
  BY <1>7, <1>8, Zenon DEF SaveApplication

LEMMA PassFinished ==
    ASSUME AuthorityInv, NEW s \in Session, FinishPass(s), UNCHANGED importVars
    PROVE  AuthorityInv'
<1>1. PICK v \in Working : v = session[s]
  BY DEF AuthorityInv, AuthorityTypeOK
<1>2. PICK p : p = [cutoff |-> v.cutoff, targets |-> v.targets, known |-> v.known]
  OBVIOUS
<1>3. /\ v.pc = "PASS" /\ v.todo = {} /\ passes' = passes \cup {p} /\ Stop(s)
      /\ UNCHANGED <<now, assessed, decisions, applications, begun, governing, importer>>
  BY <1>1, <1>2 DEF FinishPass, importVars
<1>4. p \in Pass
  BY <1>2 DEF Pass, Working
<1>5. Grows /\ GoesOn(s, Idle)
  BY <1>3, IdleTyped DEF Grows, GoesOn, Stop
<1>6. SessionsTrue' /\ (session \in [Session -> Working])'
  BY <1>5, IdleTyped, SessionsGoOn DEF AuthorityInv
<1>7. AuthorityTypeOK' /\ Founded'
  BY <1>3, <1>4, <1>6 DEF AuthorityInv, AuthorityTypeOK, Founded
<1>8. PassesTrue'
  <2>1. PassTrue(v)
    BY <1>1 DEF AuthorityInv, SessionsTrue
  <2>2. Watching(p.targets, p.known) /\ Covered(p.targets, p.known, p.cutoff)
    BY <1>2, <1>3, <2>1 DEF PassTrue, PassPc
  <2>3. \A q \in passes' : Watching(q.targets, q.known) /\ Covered(q.targets, q.known, q.cutoff)
    BY <1>3, <2>2 DEF AuthorityInv, PassesTrue
  <2> QED
    BY <1>3, <2>3 DEF PassesTrue, Watching, Covered, Settled, Direct, Inherited, Matches, Available,
                      SameMaterial
<1>9. ImportersTrue' /\ BatchAccounts'
  BY <1>3 DEF AuthorityInv, ImportersTrue, DependenciesPresent, BatchAccounts, Human, Derived
<1> QED
  BY <1>6, <1>7, <1>8, <1>9 DEF AuthorityInv

LEMMA SessionSteps ==
    ASSUME AuthorityInv, NEW s \in Session, SessionStep(s), UNCHANGED importVars
    PROVE  AuthorityInv'
<1>1. ASSUME NEW a \in Assessment, Ambiguous(s, a)
      PROVE  AuthorityInv'
  BY <1>1, StopStep DEF Ambiguous, importVars
<1> QED
  BY <1>1, DecisionDrafted, DecisionCleaned, DecisionSaved, PassBegun, PassFinished, ExistingCleaned,
     ApplicationCleaned, ApplicationSaved, TargetPassedOver, ExistingFound, KnowledgeInherited
     DEF SessionStep


-----------------------------------------------------------------------------
(* The other steps.                                                        *)

LEMMA ClockStep ==
    ASSUME AuthorityInv, AuthorityClock, UNCHANGED importVars
    PROVE  AuthorityInv'
<1>1. now' \in Moment /\ Grows
      /\ UNCHANGED <<assessed, decisions, applications, session, passes, begun, governing, importer>>
  BY DEF AuthorityClock, importVars, Moment, AuthorityInv, AuthorityTypeOK, Grows
<1>2. PassesTrue'
  BY <1>1, PassesStay DEF AuthorityInv
<1>3. SessionsTrue'
  BY <1>1 DEF AuthorityInv, SessionsTrue, DraftTrue, PassTrue, Watching, Covered, Settled, Direct,
              Inherited, Matches, Available, SameMaterial
<1> QED
  BY <1>1, <1>2, <1>3 DEF AuthorityInv, AuthorityTypeOK, Founded, ImportersTrue, DependenciesPresent,
                          BatchAccounts, Human, Derived

\* A step that leaves the sessions where they are, while rows are added.
LEMMA SessionsStay ==
    ASSUME AuthorityInv, Grows, UNCHANGED session
    PROVE  SessionsTrue'
<1>1. ASSUME NEW s \in Session
      PROVE  DraftTrue(session[s])' /\ PassTrue(session[s])'
  <2>1. PICK v \in Working : v = session[s]
    BY DEF AuthorityInv, AuthorityTypeOK
  <2>2. DraftTrue(v)' /\ PassTrue(v)'
    BY <2>1, SessionStays DEF AuthorityInv, SessionsTrue
  <2> QED
    BY <2>1, <2>2 DEF DraftTrue, PassTrue
<1> QED
  BY <1>1 DEF SessionsTrue

LEMMA AssessStep ==
    ASSUME AuthorityInv, NEW a \in Assessment, Assess(a), UNCHANGED importVars
    PROVE  AuthorityInv'
<1>1. PICK found \in SUBSET Signal, m \in Material :
          assessed' = [assessed EXCEPT ![a] =
              [result |-> Classified(found), material |-> m, created |-> now]]
  BY DEF Assess
<1>2. [result |-> Classified(found), material |-> m, created |-> now] \in Assessed
  BY DEF Assessed, Classified, AuthorityInv, AuthorityTypeOK
<1>3. /\ assessed[a] = None
      /\ UNCHANGED <<now, decisions, applications, session, passes, begun, governing, importer>>
  BY DEF Assess, importVars
<1>4. Grows /\ assessed' \in [Assessment -> Assessed \cup {None}]
  BY <1>1, <1>2, <1>3 DEF Grows, AuthorityInv, AuthorityTypeOK
<1>5. Founded'
  BY <1>3, <1>4 DEF Founded, Grows, AuthorityInv, AuthorityTypeOK, Decision
<1>6. SessionsTrue' /\ PassesTrue'
  BY <1>3, <1>4, SessionsStay, PassesStay DEF AuthorityInv
<1> QED
  BY <1>3, <1>4, <1>5, <1>6 DEF AuthorityInv, AuthorityTypeOK, ImportersTrue, DependenciesPresent,
                                BatchAccounts, Human, Derived

LEMMA ImportBegun ==
    ASSUME AuthorityInv, NEW i \in Importer, NEW k \in Package, BeginImport(i, k)
    PROVE  AuthorityInv'
<1>1. /\ importer' = [importer EXCEPT ![i] = [pc |-> "CLEAN", package |-> k]]
      /\ DependenciesPresent(k) /\ begun' \in 0..MaxSessions /\ Grows
      /\ UNCHANGED <<now, assessed, decisions, applications, session, passes, governing>>
  BY DEF BeginImport, Begun, Grows, AuthorityInv, AuthorityTypeOK
<1>2. SessionsTrue' /\ PassesTrue'
  BY <1>1, SessionsStay, PassesStay DEF AuthorityInv
<1>3. AuthorityTypeOK' /\ Founded'
  BY <1>1 DEF AuthorityInv, AuthorityTypeOK, Importing, Founded
<1>4. ImportersTrue'
  BY <1>1 DEF AuthorityInv, AuthorityTypeOK, ImportersTrue, DependenciesPresent, Human
<1>5. BatchAccounts'
  BY <1>1 DEF AuthorityInv, BatchAccounts, Human, Derived
<1> QED
  BY <1>2, <1>3, <1>4, <1>5 DEF AuthorityInv

LEMMA RowsCleaned ==
    ASSUME AuthorityInv, NEW i \in Importer, CleanRows(i)
    PROVE  AuthorityInv'
<1>1. PICK j \in Importing : j = importer'[i] /\ importer' = [importer EXCEPT ![i] = j]
          /\ (j.pc = "IDLE" \/ j.package = importer[i].package)
  <2>1. CASE importer' = [importer EXCEPT ![i] = NotImporting]
    <3>1. NotImporting \in Importing /\ NotImporting.pc = "IDLE"
      BY DEF Importing, NotImporting
    <3>2. importer'[i] = NotImporting
      BY <2>1 DEF AuthorityInv, AuthorityTypeOK
    <3> QED
      BY <2>1, <3>1, <3>2, Zenon
  <2>2. CASE importer' = [importer EXCEPT ![i] = [@ EXCEPT !.pc = "COMMIT"]]
    <3>1. PICK v \in Importing : v = importer[i]
      BY DEF AuthorityInv, AuthorityTypeOK
    <3>2. PICK u : u = [v EXCEPT !.pc = "COMMIT"]
      OBVIOUS
    <3>3. u \in Importing /\ u.package = v.package
      <4>1. v = [pc |-> v.pc, package |-> v.package]
        BY DEF Importing
      <4>2. u = [pc |-> "COMMIT", package |-> v.package]
        BY <3>2, <4>1, Zenon
      <4> QED
        BY <4>2 DEF Importing
    <3>4. importer' = [importer EXCEPT ![i] = u]
      BY <2>2, <3>1, <3>2, Zenon
    <3>5. importer'[i] = u
      BY <3>4 DEF AuthorityInv, AuthorityTypeOK
    <3> QED
      BY <3>1, <3>3, <3>4, <3>5, Zenon
  <2> QED
    BY <2>1, <2>2, Zenon DEF CleanRows
<1>2. importer[i].pc = "CLEAN" /\ Grows
      /\ UNCHANGED <<now, assessed, decisions, applications, session, passes, begun, governing>>
  BY Zenon DEF CleanRows, reviewVars, Grows
<1>3. SessionsTrue' /\ PassesTrue'
  BY <1>2, SessionsStay, PassesStay DEF AuthorityInv
<1>4. AuthorityTypeOK' /\ Founded'
  BY <1>1, <1>2 DEF AuthorityInv, AuthorityTypeOK, Founded
<1>5. ImportersTrue'
  BY <1>1, <1>2 DEF AuthorityInv, AuthorityTypeOK, ImportersTrue, DependenciesPresent, Human
<1>6. BatchAccounts'
  BY <1>2 DEF AuthorityInv, BatchAccounts, Human, Derived
<1> QED
  BY <1>3, <1>4, <1>5, <1>6 DEF AuthorityInv

\* All rows with the batch, or nothing.
LEMMA ImportCommitted ==
    ASSUME AuthorityInv, NEW i \in Importer, CommitImport(i)
    PROVE  AuthorityInv'
<1>1. PICK k \in Package : k = importer[i].package /\ DependenciesPresent(k)
  BY DEF CommitImport, AuthorityInv, ImportersTrue
<1>2. /\ importer' = [importer EXCEPT ![i] = NotImporting]
      /\ UNCHANGED <<now, assessed, session, passes, begun>>
  BY DEF CommitImport
<1>3. importer' \in [Importer -> Importing] /\ ImportersTrue'
  BY <1>2 DEF AuthorityInv, AuthorityTypeOK, Importing, NotImporting, ImportersTrue,
              DependenciesPresent, Human
<1>4. CASE /\ governing = None /\ governing' = k
           /\ decisions' = decisions \cup Human(k)
           /\ applications' = applications \cup Derived(k)
  <2>1. \A d \in Human(k) : d \in Decision /\ d.origin = "COPIED" /\ assessed[d.on] # None
    BY <1>1 DEF Human, DependenciesPresent, AuthorityInv, Founded
  <2>2. \A p \in Derived(k) : p \in Application /\ p.origin = "COPIED"
    BY <1>1 DEF Derived
  <2>3. Grows
    BY <1>2, <1>4 DEF Grows
  <2>4. SessionsTrue' /\ PassesTrue'
    BY <1>2, <2>3, SessionsStay, PassesStay DEF AuthorityInv
  <2>5. AuthorityTypeOK' /\ Founded'
    BY <1>1, <1>2, <1>3, <1>4, <2>1, <2>2 DEF AuthorityInv, AuthorityTypeOK, Founded
  <2>6. BatchAccounts'
    <3>1. {d \in decisions : d.origin = "COPIED"} = {} /\ {p \in applications : p.origin = "COPIED"} = {}
      BY <1>4 DEF AuthorityInv, BatchAccounts
    <3>2. {d \in decisions' : d.origin = "COPIED"} = Human(k)
      BY <1>4, <2>1, <3>1
    <3>3. {p \in applications' : p.origin = "COPIED"} = Derived(k)
      BY <1>4, <2>2, <3>1
    <3>4. governing' = k /\ k # None
      BY <1>4
    <3>5. Human(governing)' = Human(k) /\ Derived(governing)' = Derived(k)
      BY <3>4 DEF Human, Derived
    <3> QED
      BY <3>2, <3>3, <3>4, <3>5 DEF BatchAccounts
  <2> QED
    BY <1>3, <2>4, <2>5, <2>6 DEF AuthorityInv
<1>5. CASE UNCHANGED <<decisions, applications, governing>>
  <2>1. Grows
    BY <1>2, <1>5 DEF Grows
  <2>2. SessionsTrue' /\ PassesTrue'
    BY <1>2, <2>1, SessionsStay, PassesStay DEF AuthorityInv
  <2>3. AuthorityTypeOK' /\ Founded' /\ BatchAccounts'
    BY <1>2, <1>3, <1>5 DEF AuthorityInv, AuthorityTypeOK, Founded, BatchAccounts, Human, Derived
  <2> QED
    BY <1>3, <2>2, <2>3 DEF AuthorityInv
<1> QED
  BY <1>1, <1>4, <1>5, Zenon DEF CommitImport

-----------------------------------------------------------------------------
(* The theorems.                                                           *)

LEMMA AuthorityStep ==
    ASSUME AuthorityInv, [AuthorityNext]_authorityVars
    PROVE  AuthorityInv'
<1>1. CASE ReviewNext /\ UNCHANGED importVars
  BY <1>1, ClockStep, AssessStep, SessionSteps DEF ReviewNext
<1>2. CASE \E i \in Importer : \/ \E k \in Package : BeginImport(i, k)
                               \/ CleanRows(i)
                               \/ CommitImport(i)
  BY <1>2, ImportBegun, RowsCleaned, ImportCommitted
<1>3. CASE UNCHANGED authorityVars
  <2>1. Grows /\ UNCHANGED <<now, assessed, decisions, applications, session, passes, begun, governing, importer>>
    BY <1>3 DEF authorityVars, Grows
  <2>2. SessionsTrue' /\ PassesTrue'
    BY <2>1, SessionsStay, PassesStay DEF AuthorityInv
  <2> QED
    BY <2>1, <2>2 DEF AuthorityInv, AuthorityTypeOK, Founded, ImportersTrue, DependenciesPresent,
                      BatchAccounts, Human, Derived
<1> QED
  BY <1>1, <1>2, <1>3 DEF AuthorityNext

LEMMA AuthorityInvariant == AuthoritySpec => []AuthorityInv
<1>1. AuthorityInit => AuthorityInv
  <2> SUFFICES ASSUME AuthorityInit PROVE AuthorityInv
    OBVIOUS
  <2>1. AuthorityTypeOK
    BY IdleTyped DEF AuthorityInit, ReviewInit, AuthorityTypeOK, Moment, Importing, NotImporting
  <2>2. Founded /\ PassesTrue /\ ImportersTrue /\ BatchAccounts
    BY DEF AuthorityInit, ReviewInit, Founded, PassesTrue, ImportersTrue, NotImporting, BatchAccounts
  <2>3. SessionsTrue
    BY DEF AuthorityInit, ReviewInit, SessionsTrue, DraftTrue, PassTrue, PassPc, Idle
  <2> QED
    BY <2>1, <2>2, <2>3 DEF AuthorityInv
<1>2. AuthorityInv /\ [AuthorityNext]_authorityVars => AuthorityInv'
  BY AuthorityStep
<1> QED
  BY <1>1, <1>2, PTL DEF AuthoritySpec

\* The rows, the sessions and the importers stay well typed.
THEOREM AuthorityTyped == AuthoritySpec => []AuthorityTypeOK
BY AuthorityInvariant, PTL DEF AuthorityInv

\* A continuity pass that ended well has left no target without the knowledge that was there
\* when it began, whatever people, other passes and imports committed meanwhile.
THEOREM PassesCoverTargets == AuthoritySpec => []PassesCover
<1>1. AuthorityInv => PassesCover
  BY DEF AuthorityInv, PassesTrue, PassesCover, Covered
<1> QED
  BY <1>1, AuthorityInvariant, PTL

\* The copied rows are exactly those of the batch that governs, however many importers ran.
THEOREM BatchesAccount == AuthoritySpec => []BatchAccounts
BY AuthorityInvariant, PTL DEF AuthorityInv

-----------------------------------------------------------------------------
(* What effective_green_result answered for a past cutoff.                 *)

First(S) == CHOOSE x \in S : TRUE

DirectAt(a, c) == {d \in Direct(a) : d \in Available(c)}

InheritedAt(a, c) == {p \in Inherited(a) : p.created <= c /\ p.source \in Available(c)}

\* The answer, as a function of what it is taken from.
Verdict(r, D, I, clean) ==
    CASE r = None -> "MISSING"
      [] r # None /\ ~(r # None /\ r.result = "REVIEW") -> r.result
      [] (r # None /\ r.result = "REVIEW") /\ D # {} -> Answer(First(D).outcome)
      [] (r # None /\ r.result = "REVIEW") /\ D = {} /\ I = {} -> "REVIEW"
      [] OTHER -> IF clean THEN Answer(First(I).source.outcome) ELSE "INVALID"

LEMMA EffectiveIsVerdict ==
    ASSUME NEW a, NEW c
    PROVE  /\ Effective(a, c) = Verdict(assessed[a], DirectAt(a, c), InheritedAt(a, c),
                                        ApplicationClean(First(InheritedAt(a, c))))
           /\ Effective(a, c)' = Verdict(assessed'[a], DirectAt(a, c)', InheritedAt(a, c)',
                                         ApplicationClean(First(InheritedAt(a, c)))')
<1>1. Effective(a, c) = Verdict(assessed[a], DirectAt(a, c), InheritedAt(a, c),
                                ApplicationClean(First(InheritedAt(a, c))))
  BY Zenon DEF Effective, Verdict, DirectAt, InheritedAt, First, InReview
<1>2. Effective(a, c)' = Verdict(assessed'[a], DirectAt(a, c)', InheritedAt(a, c)',
                                 ApplicationClean(First(InheritedAt(a, c)))')
  BY Zenon DEF Effective, Verdict, DirectAt, InheritedAt, First, InReview
<1> QED
  BY <1>1, <1>2

\* An application that is no longer clean makes the answer an error; nothing else changes it.
LEMMA VerdictStays ==
    ASSUME NEW r, NEW D, NEW I, NEW before \in BOOLEAN, NEW after \in BOOLEAN,
           I # {} /\ after => before
    PROVE  \/ Verdict(r, D, I, after) = Verdict(r, D, I, before)
           \/ Verdict(r, D, I, after) = "INVALID" /\ I # {} /\ before /\ ~after
<1>1. CASE I # {} /\ after = before
  BY <1>1
<1>2. CASE I # {} /\ after # before
  <2>1. after = FALSE /\ before = TRUE
    BY <1>2
  <2> QED
    BY <1>2, <2>1, Zenon DEF Verdict
<1>3. CASE I = {}
  BY <1>3, Zenon DEF Verdict
<1> QED
  BY <1>1, <1>2, <1>3


\* What a step adds while no session is late and no import commits is dated after the cutoff.
RowsAfter(c) ==
    /\ Grows
    /\ \A d \in decisions' \ decisions : ~(d.created <= c)
    /\ \A p \in applications' \ applications : ~(p.created <= c)

LEMMA RowsUnchanged ==
    ASSUME NEW c, UNCHANGED <<decisions, applications>>,
           \A a \in Assessment : assessed[a] # None => assessed'[a] = assessed[a]
    PROVE  RowsAfter(c)
BY DEF RowsAfter, Grows

LEMMA RowsLate ==
    ASSUME AuthorityInv, [AuthorityNext]_authorityVars, NEW a \in Assessment, NEW c \in Moment,
           ~Late(a, c), governing' = governing
    PROVE  RowsAfter(c)
<1>1. CASE AuthorityClock
  BY <1>1, RowsUnchanged DEF AuthorityClock
<1>2. ASSUME NEW b \in Assessment, Assess(b)
      PROVE  RowsAfter(c)
  BY <1>2, RowsUnchanged DEF Assess, AuthorityInv, AuthorityTypeOK
<1>3. ASSUME NEW s \in Session, SaveDecision(s)
      PROVE  RowsAfter(c)
  <2>1. ~(session[s].row.created <= c)
    BY <1>3 DEF SaveDecision, Late
  <2>2. /\ UNCHANGED <<assessed, applications>>
        /\ decisions' \in {decisions, decisions \cup {session[s].row}}
    BY <1>3 DEF SaveDecision
  <2> QED
    BY <2>1, <2>2 DEF RowsAfter, Grows
<1>4. ASSUME NEW s \in Session, SaveApplication(s)
      PROVE  RowsAfter(c)
  <2>1. session[s].pc = "SAVE_APPLICATION"
    BY <1>4, Zenon DEF SaveApplication
  <2>2. ~(session[s].row.created <= c)
    BY <2>1 DEF Late
  <2>3. /\ UNCHANGED <<assessed, decisions>>
        /\ applications' \in {applications, applications \cup {session[s].row}}
    BY <1>4, Zenon DEF SaveApplication
  <2> QED
    BY <2>2, <2>3 DEF RowsAfter, Grows
<1>5. ASSUME NEW s \in Session, SessionStep(s), ~SaveDecision(s), ~SaveApplication(s)
      PROVE  UNCHANGED <<assessed, decisions, applications>>
  BY <1>5, Zenon DEF SessionStep, RecordDecision, CleanDecision, BeginPass, FinishPass, CleanExisting,
                     CleanApplication, PassOver, FindExisting, Ambiguous, Inherit
<1>6. CASE \E s \in Session : SessionStep(s)
  BY <1>3, <1>4, <1>5, <1>6, RowsUnchanged
<1>7. ASSUME NEW i \in Importer, CommitImport(i)
      PROVE  RowsAfter(c)
  <2>1. importer[i].package # None
    BY <1>7 DEF CommitImport, AuthorityInv, ImportersTrue
  <2>2. UNCHANGED <<assessed, decisions, applications>>
    BY <1>7, <2>1, Zenon DEF CommitImport
  <2> QED
    BY <2>2, RowsUnchanged
<1>8. ASSUME NEW i \in Importer, (\E k \in Package : BeginImport(i, k)) \/ CleanRows(i)
      PROVE  RowsAfter(c)
  <2>1. UNCHANGED <<assessed, decisions, applications>>
    BY <1>8, Zenon DEF BeginImport, CleanRows, reviewVars
  <2> QED
    BY <2>1, RowsUnchanged
<1>9. CASE UNCHANGED authorityVars
  BY <1>9, RowsUnchanged DEF authorityVars
<1> QED
  BY <1>1, <1>2, <1>6, <1>7, <1>8, <1>9 DEF AuthorityNext, ReviewNext

\* With such rows, an answer for the cutoff is taken from the same rows.
LEMMA AnswerStays ==
    ASSUME AuthorityInv, NEW a \in Assessment, NEW c \in Moment, assessed[a] # None, RowsAfter(c)
    PROVE  \/ Effective(a, c)' = Effective(a, c)
           \/ Effective(a, c)' = "INVALID" /\ Direct(a)' # {} /\ Inherited(a)' # {}
<1> DEFINE D == DirectAt(a, c)
           I == InheritedAt(a, c)
<1>1. assessed'[a] = assessed[a]
  BY DEF RowsAfter, Grows
<1>2. Available(c)' = Available(c)
  BY DEF RowsAfter, Grows, Available
<1>3. DirectAt(a, c)' = DirectAt(a, c)
  BY <1>2 DEF RowsAfter, Grows, DirectAt, Direct, Available
<1>4. InheritedAt(a, c)' = InheritedAt(a, c)
  BY <1>2 DEF RowsAfter, Grows, InheritedAt, Inherited
<1>5. ASSUME NEW p \in I, ApplicationClean(p)'
      PROVE  ApplicationClean(p)
  <2>1. p \in applications /\ p.target = a /\ p.source \in decisions
    BY DEF InheritedAt, Inherited, Available
  <2>2. p.source.on \in Assessment /\ assessed'[p.source.on] = assessed[p.source.on]
    BY <2>1 DEF AuthorityInv, AuthorityTypeOK, Founded, Decision, RowsAfter, Grows
  <2> QED
    BY <1>1, <1>5, <2>1, <2>2 DEF ApplicationClean, InReview, Direct, SameMaterial, RowsAfter, Grows
<1>6. I # {} => First(I) \in I
  BY Zenon DEF First
<1>7. I # {} /\ ApplicationClean(First(I))' => ApplicationClean(First(I))
  <2> SUFFICES ASSUME I # {}, ApplicationClean(First(I))' PROVE ApplicationClean(First(I))
    OBVIOUS
  <2>1. PICK p \in I : p = First(I)
    BY <1>6
  <2>2. First(I)' = p
    BY <1>4, <2>1 DEF First
  <2>3. ApplicationClean(p)'
    BY <2>2 DEF ApplicationClean, InReview, Direct, SameMaterial
  <2>4. ApplicationClean(p)
    BY <1>5, <2>3
  <2> QED
    BY <2>1, <2>4
<1>8. PICK r, E, J : r = assessed[a] /\ E = D /\ J = I
  OBVIOUS
<1>9. PICK before \in BOOLEAN, after \in BOOLEAN :
          /\ before = (ApplicationClean(First(I))) /\ after = (ApplicationClean(First(I))')
  <2> DEFINE clean == ApplicationClean(First(I))
             cleanAfter == ApplicationClean(First(I))'
  <2>1. clean \in BOOLEAN /\ cleanAfter \in BOOLEAN
    BY Zenon DEF ApplicationClean
  <2> HIDE DEF clean, cleanAfter
  <2>2. \E before \in BOOLEAN, after \in BOOLEAN : before = clean /\ after = cleanAfter
    BY <2>1, Zenon
  <2> USE DEF clean, cleanAfter
  <2> QED
    BY <2>2
<1>10. Effective(a, c) = Verdict(r, E, J, before) /\ Effective(a, c)' = Verdict(r, E, J, after)
  BY <1>1, <1>3, <1>4, <1>8, <1>9, EffectiveIsVerdict
<1>11. J # {} /\ after => before
  BY <1>7, <1>8, <1>9
<1>12. ASSUME NEW p \in I, ApplicationClean(p), ~ApplicationClean(p)'
       PROVE  Direct(a)' # {} /\ Inherited(a)' # {}
  <2>1. p \in applications /\ p.target = a /\ p.source \in decisions
    BY DEF InheritedAt, Inherited, Available
  <2>2. p.source.on \in Assessment /\ assessed'[p.source.on] = assessed[p.source.on]
    BY <1>12, <2>1 DEF AuthorityInv, AuthorityTypeOK, Founded, Decision, RowsAfter, Grows,
                       ApplicationClean, InReview, SameMaterial
  <2>3. Direct(a)' # {}
    BY <1>1, <1>12, <2>1, <2>2 DEF ApplicationClean, InReview, Direct, SameMaterial
  <2>4. p \in Inherited(a)'
    BY <2>1 DEF Inherited, RowsAfter, Grows
  <2> QED BY <2>3, <2>4
<1>13. J # {} /\ before /\ ~after => Direct(a)' # {} /\ Inherited(a)' # {}
  <2> SUFFICES ASSUME J # {}, before, ~after PROVE Direct(a)' # {} /\ Inherited(a)' # {}
    OBVIOUS
  <2>1. PICK p \in I : p = First(I)
    BY <1>6, <1>8
  <2>2. First(I)' = p
    BY <1>4, <2>1 DEF First
  <2>3. ApplicationClean(p)
    BY <1>9, <2>1
  <2>4. ~ApplicationClean(p)'
    BY <1>9, <2>2 DEF ApplicationClean, InReview, Direct, SameMaterial
  <2> QED BY <1>12, <2>3, <2>4
<1> QED
  BY <1>10, <1>11, <1>13, VerdictStays

\* What was answered for a past cutoff stays, unless a transaction was open with an earlier date
\* or an import commits; besides, only a second authority over the target makes it an error.
THEOREM AnswersOfThePastStay == AuthoritySpec => AnswersStay
<1>1. ASSUME AuthorityInv, [AuthorityNext]_authorityVars,
             NEW a \in Assessment, NEW c \in Moment,
             assessed[a] # None, c < now, ~Late(a, c), governing' = governing
      PROVE  \/ Effective(a, c)' = Effective(a, c)
             \/ Effective(a, c)' = "INVALID" /\ Direct(a)' # {} /\ Inherited(a)' # {}
  BY <1>1, RowsLate, AnswerStays
<1>2. AuthorityInv /\ [AuthorityNext]_authorityVars =>
          [\A a \in Assessment, c \in Moment :
              /\ assessed[a] # None /\ c < now
              /\ ~Late(a, c)
              /\ governing' = governing
              => \/ Effective(a, c)' = Effective(a, c)
                 \/ /\ Effective(a, c)' = "INVALID"
                    /\ Direct(a)' # {} /\ Inherited(a)' # {}]_authorityVars
  BY <1>1
<1> QED
  BY <1>2, AuthorityInvariant, PTL DEF AuthoritySpec, AnswersStay

=============================================================================
