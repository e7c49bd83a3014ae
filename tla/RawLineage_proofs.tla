--------------------------- MODULE RawLineage_proofs ---------------------------
(***************************************************************************)
(* Proofs about ObjectStore and RawLineage for all keys, names, contents,  *)
(* writers and bounds, and every folding of names.                         *)
(***************************************************************************)
EXTENDS RawLineage, TLAPS

USE StoreAssumption, LineageAssumption

-----------------------------------------------------------------------------
(* Types.                                                                  *)

StoreTypeOK ==
    /\ windows \in BOOLEAN
    /\ file \in [Name -> Content \cup {None}]
    /\ writer \in [Proc -> Writer]
    /\ acknowledged \subseteq Key \X Content
    /\ writes \in 0..MaxWrites

LEMMA NamesTyped == ASSUME NEW k \in Key PROVE Plain[k] \in Name /\ Encoded[k] \in Name
OBVIOUS

LEMMA CallTyped ==
    ASSUME StoreTypeOK, NEW p \in Proc, NEW k \in Key, NEW c \in Content, Call(p, k, c)
    PROVE  StoreTypeOK'
BY DEF Call, StoreTypeOK, Writer

LEMMA StoreStepTyped ==
    ASSUME StoreTypeOK, NEW p \in Proc,
           writer[p].pc # "IDLE" => writer[p].key \in Key /\ writer[p].content \in Content,
           WriteStep(p) \/ Collect(p) \/ Die(p)
    PROVE  StoreTypeOK'
<1> USE DEF StoreTypeOK, Writer
<1>1. CASE CheckExisting(p)
  BY <1>1 DEF CheckExisting, Return, Acknowledge
<1>2. CASE Publish(p)
  BY <1>2 DEF Publish, Return, Acknowledge
<1>3. CASE Compare(p)
  BY <1>3 DEF Compare, Return, Acknowledge
<1>4. CASE Collect(p)
  BY <1>4 DEF Collect, Waiting
<1>5. CASE Die(p)
  BY <1>5 DEF Die, Waiting
<1> QED
  BY <1>1, <1>2, <1>3, <1>4, <1>5 DEF WriteStep

-----------------------------------------------------------------------------
(* What a key is read as.                                                  *)

\* A writer under way knows what it writes.
Loaded == \A p \in Proc : writer[p].pc # "IDLE" => /\ writer[p].key \in Key
                                                  /\ writer[p].content \in Content

\* A key of two names has a file under one of them at most.
OneName ==
    windows => \A k \in Key : Plain[k] # Encoded[k] =>
                   file[Plain[k]] = None \/ file[Encoded[k]] = None

\* Who is about to publish an encoded name has seen that there is no older one.
NoOlder ==
    windows => \A p \in Proc : writer[p].pc = "PUBLISH" =>
                   LET k == writer[p].key
                   IN  Plain[k] = Encoded[k] \/ file[Plain[k]] = None

\* Where a write has returned, a read returns the same.
AcknowledgedServed == \A w \in acknowledged : ReadOf(w[1]) = w[2]

WrittenAcknowledged ==
    \A p \in Proc : writer[p].pc = "WRITTEN" => <<writer[p].key, writer[p].content>> \in acknowledged

StoreInv == /\ StoreTypeOK /\ Loaded /\ OneName /\ NoOlder
            /\ AcknowledgedServed /\ WrittenAcknowledged

Served(k) == IF windows /\ file[Encoded[k]] # None THEN file[Encoded[k]] ELSE file[Plain[k]]

ReadsAreServed ==
    \A k \in Key : /\ ReadOf(k) = Served(k)
                   /\ ReadOf(k) \in Content \cup {None}
                   /\ Representations(k) = {} <=> ReadOf(k) = None
                   /\ \A c \in Content : Representations(k) # {} /\ Identical(k, c) => ReadOf(k) = c

LEMMA ReadIsServed == StoreTypeOK /\ OneName => ReadsAreServed
<1> SUFFICES ASSUME StoreTypeOK, OneName, NEW k \in Key
             PROVE  /\ ReadOf(k) = Served(k)
                    /\ ReadOf(k) \in Content \cup {None}
                    /\ Representations(k) = {} <=> ReadOf(k) = None
                    /\ \A c \in Content :
                           Representations(k) # {} /\ Identical(k, c) => ReadOf(k) = c
  BY DEF ReadsAreServed
<1> USE NamesTyped DEF StoreTypeOK, OneName
<1>1. CASE windows
  BY <1>1 DEF ReadOf, Served, Representations, Identical, Path
<1>2. CASE ~windows
  BY <1>2 DEF ReadOf, Served, Representations, Identical, Path
<1> QED
  BY <1>1, <1>2

LEMMA SameFileSameRead ==
    ASSUME UNCHANGED <<windows, file>>, NEW k
    PROVE  ReadOf(k)' = ReadOf(k)
BY DEF ReadOf, Representations, Path

\* A publication gives a key without a value its value and leaves the other keys alone.
LEMMA PublishServes ==
    ASSUME StoreTypeOK, Loaded, OneName, NoOlder, NEW p \in Proc, Publish(p),
           NEW k \in Key, NEW c \in Content, k = writer[p].key, c = writer[p].content,
           ~Occupied(Path(k))
    PROVE  /\ OneName'
           /\ \A l \in Key : l # k => ReadOf(l)' = ReadOf(l)
           /\ ReadOf(k) = None
           /\ ReadOf(k)' = c
           /\ \A l \in Key : Plain[l] # Encoded[l] /\ windows => file'[Plain[l]] = file[Plain[l]]
<1>1. /\ c # None
      /\ file' = [file EXCEPT ![Path(k)] = c]
      /\ windows' = windows /\ writer[p].pc = "PUBLISH"
  BY DEF Publish, Loaded
<1>2. /\ Path(k) \in Name /\ file[Path(k)] = None
      /\ windows => Plain[k] = Encoded[k] \/ file[Plain[k]] = None
  <2>1. Path(k) \in Name
    BY NamesTyped DEF Path
  <2>2. file[Path(k)] = None
    BY <2>1 DEF Occupied
  <2> QED
    BY <1>1, <2>1, <2>2 DEF NoOlder
<1>3. StoreTypeOK'
  <2>1. writer[p].pc # "IDLE" => writer[p].key \in Key /\ writer[p].content \in Content
    BY DEF Loaded
  <2> QED
    BY <2>1, StoreStepTyped DEF WriteStep
<1>4. \A l \in Key : l # k => /\ Plain[l] # Path(k)
                              /\ windows => Encoded[l] # Path(k)
  BY <1>1 DEF Path
<1>5. OneName'
  BY <1>1, <1>2, <1>4, NamesTyped DEF OneName, StoreTypeOK, Path
<1>6. \A l \in Key : l # k => Served(l)' = Served(l)
  BY <1>1, <1>2, <1>4, NamesTyped DEF Served, StoreTypeOK
<1>7. Served(k) = None
  BY <1>1, <1>2, NamesTyped DEF Served, StoreTypeOK, Path
<1>8. Served(k)' = c
  BY <1>1, <1>2, NamesTyped DEF Served, StoreTypeOK, Path
<1>9. ReadsAreServed /\ ReadsAreServed'
  BY <1>3, <1>5, ReadIsServed, PTL
<1>10. \A l \in Key : ReadOf(l) = Served(l) /\ ReadOf(l)' = Served(l)'
  BY <1>9 DEF ReadsAreServed
<1>11. \A l \in Key : Plain[l] # Encoded[l] /\ windows => file'[Plain[l]] = file[Plain[l]]
  BY <1>1, <1>2, <1>4, NamesTyped DEF StoreTypeOK, Path
<1> QED
  BY <1>5, <1>6, <1>7, <1>8, <1>10, <1>11

\* A read of a key stays what it is or, where the key has no value, becomes what a writer wrote.
ReadsStay == \A k \in Key : ReadOf(k) # None => ReadOf(k)' = ReadOf(k)

Reading == [k \in Key |-> ReadOf(k)]

LEMMA SameFileStays ==
    ASSUME UNCHANGED <<windows, file>>
    PROVE  ReadsStay /\ Reading' = Reading
BY SameFileSameRead DEF ReadsStay, Reading

-----------------------------------------------------------------------------
(* The steps of the store.                                                 *)

LEMMA CallKeeps ==
    ASSUME StoreInv, NEW p \in Proc, NEW k \in Key, NEW c \in Content, Call(p, k, c)
    PROVE  StoreInv' /\ ReadsStay /\ Reading' = Reading
<1> USE DEF StoreInv
<1>1. StoreTypeOK'
  BY CallTyped
<1>2. UNCHANGED <<windows, file, acknowledged>> /\ writer' = [writer EXCEPT ![p] = writer'[p]]
      /\ writer'[p] = [pc |-> "CHECK", key |-> k, content |-> c]
  BY DEF Call, StoreTypeOK
<1>3. Loaded' /\ OneName' /\ NoOlder' /\ WrittenAcknowledged'
  BY <1>2 DEF Loaded, OneName, NoOlder, WrittenAcknowledged, StoreTypeOK
<1>4. AcknowledgedServed'
  BY <1>2, SameFileSameRead DEF AcknowledgedServed
<1> QED
  BY <1>1, <1>2, <1>3, <1>4, SameFileStays

LEMMA LeaveKeeps ==
    ASSUME StoreInv, NEW p \in Proc, Collect(p) \/ Die(p)
    PROVE  StoreInv' /\ ReadsStay /\ Reading' = Reading /\ writer' = [writer EXCEPT ![p] = Waiting]
<1> USE DEF StoreInv
<1>1. UNCHANGED <<windows, file, acknowledged, writes>> /\ writer' = [writer EXCEPT ![p] = Waiting]
  BY DEF Collect, Die
<1>2. StoreTypeOK'
  <2>1. writer[p].pc # "IDLE" => writer[p].key \in Key /\ writer[p].content \in Content
    BY DEF Loaded
  <2> QED
    BY <2>1, StoreStepTyped
<1>3. Loaded' /\ OneName' /\ NoOlder' /\ WrittenAcknowledged'
  BY <1>1 DEF Loaded, OneName, NoOlder, WrittenAcknowledged, StoreTypeOK, Waiting
<1>4. AcknowledgedServed'
  BY <1>1, SameFileSameRead DEF AcknowledgedServed
<1> QED
  BY <1>1, <1>2, <1>3, <1>4, SameFileStays

LEMMA AcknowledgeKeeps ==
    ASSUME StoreInv, NEW p \in Proc, Acknowledge(p), ReadsStay,
           NEW k \in Key, NEW c \in Content, k = writer[p].key, c = writer[p].content,
           ReadOf(k)' = c
    PROVE  AcknowledgedServed' /\ WrittenAcknowledged'
<1> USE DEF StoreInv
<1>1. acknowledged' = acknowledged \cup {<<k, c>>} /\ writer' = [writer EXCEPT ![p].pc = "WRITTEN"]
  BY DEF Acknowledge, Return
<1>2. ASSUME NEW w \in acknowledged' PROVE ReadOf(w[1])' = w[2]
  <2>1. CASE w \in acknowledged
    BY <2>1 DEF AcknowledgedServed, ReadsStay, StoreTypeOK
  <2>2. CASE w = <<k, c>>
    BY <2>2
  <2> QED
    BY <1>1, <2>1, <2>2
<1>3. WrittenAcknowledged'
  BY <1>1 DEF WrittenAcknowledged, StoreTypeOK, Writer
<1> QED
  BY <1>2, <1>3 DEF AcknowledgedServed

LEMMA WriteStepKeeps ==
    ASSUME StoreInv, NEW p \in Proc, WriteStep(p)
    PROVE  /\ StoreInv' /\ ReadsStay
           /\ \A l \in Key : ReadOf(l)' # ReadOf(l) =>
                 l = writer[p].key /\ writer[p].pc = "PUBLISH" /\ ReadOf(l)' = writer[p].content
           /\ [\E k \in Key, c \in Content :
                  ReadOf(k) = None /\ Reading' = [Reading EXCEPT ![k] = c]]_Reading
<1> USE DEF StoreInv
<1>1. writer[p].pc # "IDLE"
  BY DEF WriteStep, CheckExisting, Publish, Compare
<1> PICK k \in Key, c \in Content : k = writer[p].key /\ c = writer[p].content
  BY <1>1 DEF Loaded
<1>2. StoreTypeOK'
  BY StoreStepTyped
<1>3. writer'[p] = [writer[p] EXCEPT !.pc = writer'[p].pc]
      /\ \A q \in Proc : q # p => writer'[q] = writer[q]
  BY DEF WriteStep, CheckExisting, Publish, Compare, Return, Acknowledge, StoreTypeOK
<1>4. writer'[p] \in Writer /\ writer'[p].key = k /\ writer'[p].content = c
  BY <1>2, <1>3 DEF StoreTypeOK, Writer
<1>5. Loaded'
  BY <1>3, <1>4 DEF Loaded
<1>6. ReadsAreServed
  BY ReadIsServed
<1>7. CASE UNCHANGED <<windows, file>>
  <2>1. ReadsStay /\ Reading' = Reading /\ \A l \in Key : ReadOf(l)' = ReadOf(l)
    BY <1>7, SameFileStays, SameFileSameRead
  <2>2. OneName'
    BY <1>7 DEF OneName
  <2>3. NoOlder'
    <3>1. CASE writer'[p].pc # "PUBLISH"
      BY <1>3, <1>4, <1>7, <3>1 DEF NoOlder
    <3>2. CASE writer'[p].pc = "PUBLISH"
      <4>1. windows => Representations(k) = {}
        <5>1. CheckExisting(p)
          BY <1>2, <3>2 DEF WriteStep, Publish, Compare, Return, Acknowledge, StoreTypeOK, Writer
        <5>2. writer[p].content = c /\ writer \in [Proc -> Writer]
          BY DEF StoreTypeOK
        <5> QED
          BY <3>2, <5>1, <5>2 DEF CheckExisting, Return, Acknowledge, Writer
      <4>2. windows => file[Plain[k]] = None
        BY <4>1, NamesTyped DEF Representations
      <4> QED
        BY <1>3, <1>4, <1>7, <4>2 DEF NoOlder
    <3> QED
      BY <3>1, <3>2
  <2>4. AcknowledgedServed' /\ WrittenAcknowledged'
    <3>1. CASE Acknowledge(p)
      <4>1. Representations(k) # {} /\ Identical(k, c)
        <5>1. ~Publish(p)
          BY <1>2, <1>4, <1>7, <3>1 DEF Publish, Return, Acknowledge, StoreTypeOK, Path, Writer, Occupied
        <5> QED
          BY <1>4, <3>1, <5>1 DEF WriteStep, CheckExisting, Compare, Return, Acknowledge, StoreTypeOK, Writer
      <4>2. ReadOf(k)' = c
        BY <1>6, <2>1, <4>1 DEF ReadsAreServed
      <4> QED
        BY <1>1, <2>1, <3>1, <4>2, AcknowledgeKeeps
    <3>2. CASE UNCHANGED acknowledged /\ writer'[p].pc # "WRITTEN"
      BY <1>3, <2>1, <3>2 DEF AcknowledgedServed, WrittenAcknowledged, StoreTypeOK
    <3> QED
      BY <3>1, <3>2 DEF WriteStep, CheckExisting, Publish, Compare, Return, StoreTypeOK, Writer
  <2> QED
    BY <1>2, <1>5, <2>1, <2>2, <2>3, <2>4
<1>8. CASE Publish(p) /\ ~Occupied(Path(k))
  <2>1. /\ OneName'
        /\ \A l \in Key : l # k => ReadOf(l)' = ReadOf(l)
        /\ ReadOf(k) = None
        /\ ReadOf(k)' = c
        /\ \A l \in Key : Plain[l] # Encoded[l] /\ windows => file'[Plain[l]] = file[Plain[l]]
    BY <1>8, PublishServes
  <2>2. ReadsStay
    BY <2>1 DEF ReadsStay
  <2>3. Acknowledge(p) /\ windows' = windows
    BY <1>8 DEF Publish
  <2>4. AcknowledgedServed' /\ WrittenAcknowledged'
    BY <1>1, <2>1, <2>2, <2>3, AcknowledgeKeeps
  <2>5. NoOlder'
    <3>1. writer'[p].pc = "WRITTEN"
      BY <2>3 DEF Acknowledge, Return, StoreTypeOK, Writer
    <3> QED
      BY <1>3, <2>1, <2>3, <3>1 DEF NoOlder, Loaded
  <2>6. ReadOf(k) = None /\ Reading' = [Reading EXCEPT ![k] = c]
    <3>1. Reading = [l \in Key |-> Reading[l]] /\ \A l \in Key : Reading[l] = ReadOf(l)
      BY DEF Reading
    <3>2. Reading' = [l \in Key |-> Reading'[l]] /\ \A l \in Key : Reading'[l] = ReadOf(l)'
      BY DEF Reading
    <3> HIDE DEF Reading
    <3>3. Reading'[k] = c /\ \A l \in Key : l # k => Reading'[l] = Reading[l]
      BY <2>1, <3>1, <3>2
    <3> QED
      BY <2>1, <3>1, <3>2, <3>3
  <2> QED
    BY <1>2, <1>5, <1>8, <2>1, <2>2, <2>4, <2>5, <2>6 DEF Publish
<1> QED
  BY <1>7, <1>8 DEF WriteStep, CheckExisting, Publish, Compare

LEMMA StillKeeps ==
    ASSUME StoreInv, UNCHANGED storeVars
    PROVE  StoreInv' /\ ReadsStay /\ Reading' = Reading
<1> USE DEF StoreInv, storeVars
<1>1. StoreTypeOK' /\ Loaded' /\ OneName' /\ NoOlder' /\ WrittenAcknowledged'
  BY DEF StoreTypeOK, Loaded, OneName, NoOlder, WrittenAcknowledged
<1>2. AcknowledgedServed'
  BY SameFileSameRead DEF AcknowledgedServed
<1> QED
  BY <1>1, <1>2, SameFileStays

-----------------------------------------------------------------------------
(* The steps of the lineage.                                               *)

LineageTypeOK ==
    /\ source \in Rows /\ artifact \in Rows
    /\ manifest \in Rows \cup {None}
    /\ job \in [Proc -> Job]
    /\ edits \in 0..MaxEdits

\* Only a consolidation that seals writes the sentinel; nothing else writes a stamp.
SentinelOwn ==
    \A p \in Proc : writer[p].pc # "IDLE" =>
        IF writer[p].key = Sentinel THEN job[p].pc = "SEAL" ELSE writer[p].content \notin Stamp

NoSentinelRow == artifact[Sentinel] = None /\ (manifest # None => manifest[Sentinel] = None)

Sourced == manifest # None => Listed(manifest) \subseteq Listed(source)

\* A row is served, or it is one the manifest lists.
RowsKnown ==
    \A k \in Key : artifact[k] # None =>
        ReadOf(k) = artifact[k] \/ manifest = None \/ manifest[k] = artifact[k]

\* A consolidation has served what it no longer has to do.
Copied(p) == \A k \in Listed(manifest) : k \notin job[p].todo => ReadOf(k) = manifest[k]

JobsTrue ==
    \A p \in Proc :
        /\ job[p].pc # "IDLE" => manifest # None
        /\ job[p].pc \in {"COPY", "SEAL"} => job[p].todo \subseteq Listed(manifest) /\ Copied(p)
        /\ job[p].pc = "SEAL" => job[p].todo = {}

SealedManifest == Sealed => manifest # None /\ \A k \in Listed(manifest) : ReadOf(k) = manifest[k]

LineageInv == /\ LineageTypeOK /\ SentinelOwn /\ NoSentinelRow /\ Sourced /\ RowsKnown
              /\ JobsTrue /\ SealedManifest

RawInv == StoreInv /\ LineageInv

LEMMA InvServes == StoreInv /\ LineageInv => SealedRootServesRows
BY DEF StoreInv, LineageInv, SealedManifest, RowsKnown, SealedRootServesRows, Listed, LineageTypeOK,
       Rows

\* Steps that keep the manifest and the reads keep what rests on them, if the locals are right.
LEMMA ReadsKeep ==
    ASSUME LineageInv, UNCHANGED manifest, ReadsStay, ReadsAreServed,
           \A k \in Key : artifact'[k] # None =>
               artifact'[k] = artifact[k] \/ ReadOf(k)' = artifact'[k]
    PROVE  RowsKnown'
<1> SUFFICES ASSUME NEW k \in Key, artifact'[k] # None
             PROVE  ReadOf(k)' = artifact'[k] \/ manifest' = None \/ manifest'[k] = artifact'[k]
  BY DEF RowsKnown
<1> QED
  BY DEF LineageInv, RowsKnown, ReadsStay

LEMMA CopiedKeeps ==
    ASSUME LineageInv, UNCHANGED manifest, manifest # None, ReadsStay, NEW p \in Proc, Copied(p),
           job[p].todo \subseteq job'[p].todo
    PROVE  Copied(p)'
BY DEF LineageInv, LineageTypeOK, Rows, Copied, ReadsStay, Listed

LEMMA JobsKeep ==
    ASSUME LineageInv, UNCHANGED manifest, ReadsStay, NEW p \in Proc,
           \A q \in Proc : q # p => job'[q] = job[q],
           \/ job'[p] = job[p]
           \/ job'[p].pc = "IDLE"
    PROVE  JobsTrue'
<1> SUFFICES ASSUME NEW q \in Proc
             PROVE  /\ job'[q].pc # "IDLE" => manifest' # None
                    /\ job'[q].pc \in {"COPY", "SEAL"} =>
                          job'[q].todo \subseteq Listed(manifest)' /\ Copied(q)'
                    /\ job'[q].pc = "SEAL" => job'[q].todo = {}
  BY DEF JobsTrue
<1>1. CASE job'[q] = job[q]
  BY <1>1, CopiedKeeps DEF LineageInv, JobsTrue, Listed
<1>2. CASE job'[q].pc = "IDLE"
  BY <1>2
<1> QED
  BY <1>1, <1>2

LEMMA SealKeeps ==
    ASSUME LineageInv, UNCHANGED manifest, ReadsStay, Sealed' => Sealed
    PROVE  SealedManifest'
<1> SUFFICES ASSUME Sealed'
             PROVE  manifest' # None /\ \A k \in Listed(manifest') : ReadOf(k)' = manifest'[k]
  BY DEF SealedManifest, Listed
<1> QED
  BY DEF LineageInv, LineageTypeOK, Rows, SealedManifest, ReadsStay, Listed

\* A claim on the way from one state of the reads to the next.
Claim == \E k \in Key, c \in Content : ReadOf(k) = None /\ Reading' = [Reading EXCEPT ![k] = c]

Kept == RawInv' /\ [Claim]_Reading

LEMMA WriteStepLineage ==
    ASSUME RawInv, NEW p \in Proc, WriteStep(p), UNCHANGED lineageVars
    PROVE  Kept
<1> USE DEF RawInv
<1>1. /\ StoreInv' /\ ReadsStay
      /\ \A l \in Key : ReadOf(l)' # ReadOf(l) =>
            l = writer[p].key /\ writer[p].pc = "PUBLISH" /\ ReadOf(l)' = writer[p].content
      /\ [Claim]_Reading
  BY WriteStepKeeps DEF Claim
<1>2. UNCHANGED <<source, artifact, manifest, job, edits>>
  BY DEF lineageVars
<1>3. LineageTypeOK' /\ NoSentinelRow' /\ Sourced'
  BY <1>2 DEF LineageInv, LineageTypeOK, NoSentinelRow, Sourced, Listed
<1>4. SentinelOwn'
  BY <1>2 DEF LineageInv, SentinelOwn, StoreInv, StoreTypeOK, Writer, WriteStep, CheckExisting,
              Publish, Compare, Return, Acknowledge
<1>5. RowsKnown'
  BY <1>1, <1>2 DEF LineageInv, RowsKnown, ReadsStay
<1>6. JobsTrue'
  BY <1>1, <1>2, JobsKeep
<1>7. SealedManifest'
  <2>1. CASE Sealed' => Sealed
    BY <1>1, <1>2, <2>1, SealKeeps
  <2>2. CASE Sealed' /\ ~Sealed
    <3>1. job[p].pc = "SEAL"
      BY <1>1, <2>2 DEF Sealed, LineageInv, SentinelOwn
    <3>2. manifest # None /\ job[p].todo = {} /\ Copied(p)
      BY <3>1 DEF LineageInv, JobsTrue
    <3>3. manifest' # None /\ \A k \in Listed(manifest) : ReadOf(k)' = manifest[k]
      BY <1>1, <1>2, <3>2 DEF Copied, ReadsStay, Listed, LineageInv, LineageTypeOK, Rows
    <3> QED
      BY <1>2, <3>3 DEF SealedManifest, Listed
  <2> QED
    BY <2>1, <2>2
<1> QED
  BY <1>1, <1>3, <1>4, <1>5, <1>6, <1>7 DEF LineageInv, Kept

LEMMA CaptureLineage ==
    ASSUME RawInv, Capture
    PROVE  Kept
<1> USE DEF RawInv
<1>1. StoreInv' /\ ReadsStay /\ Reading' = Reading
  BY StillKeeps DEF Capture
<1>2. /\ manifest = None /\ manifest' = artifact
      /\ UNCHANGED <<windows, file, writer, source, artifact, job, edits>>
      /\ \A k \in Listed(artifact) : source[k] = artifact[k]
  BY DEF Capture, storeVars
<1>3. LineageTypeOK' /\ SentinelOwn' /\ NoSentinelRow' /\ RowsKnown'
  BY <1>2 DEF LineageInv, LineageTypeOK, SentinelOwn, NoSentinelRow, RowsKnown
<1>4. Sourced'
  BY <1>2 DEF Sourced, Listed
<1>5. JobsTrue'
  BY <1>2 DEF LineageInv, JobsTrue
<1>6. ~Sealed'
  BY <1>2, SameFileSameRead DEF LineageInv, SealedManifest, Sealed
<1> QED
  BY <1>1, <1>3, <1>4, <1>5, <1>6 DEF LineageInv, SealedManifest, Kept

\* Steps of one process that leave manifest, rows and files alone.
LEMMA QuietLineage ==
    ASSUME RawInv, NEW p \in Proc, UNCHANGED <<windows, file, artifact, manifest>>, StoreInv',
           ReadsStay, Reading' = Reading, LineageTypeOK', SentinelOwn', Sourced', JobsTrue'
    PROVE  Kept
<1> USE DEF RawInv
<1>1. NoSentinelRow' /\ RowsKnown'
  BY SameFileSameRead DEF LineageInv, NoSentinelRow, RowsKnown
<1>2. Sealed' = Sealed
  BY SameFileSameRead DEF Sealed
<1>3. SealedManifest'
  BY <1>2, SealKeeps
<1> QED
  BY <1>1, <1>3 DEF LineageInv, Kept

LEMMA EditLineage ==
    ASSUME RawInv, NEW k \in Key, Edit(k)
    PROVE  Kept
<1> USE DEF RawInv
<1>1. StoreInv' /\ ReadsStay /\ Reading' = Reading
  BY StillKeeps DEF Edit
<1>2. PICK c \in Content \ Stamp : source' = [source EXCEPT ![k] = c]
  BY DEF Edit
<1>3. /\ UNCHANGED <<windows, file, writer, artifact, manifest, job>>
      /\ source[k] # None /\ edits < MaxEdits /\ edits' = edits + 1
  BY DEF Edit, storeVars
<1>4. LineageTypeOK'
  BY <1>2, <1>3 DEF LineageInv, LineageTypeOK, Rows
<1>5. SentinelOwn'
  BY <1>3 DEF LineageInv, SentinelOwn
<1>6. Sourced'
  BY <1>2, <1>3 DEF LineageInv, Sourced, Listed, LineageTypeOK, Rows
<1>7. JobsTrue'
  BY <1>3, SameFileSameRead DEF LineageInv, JobsTrue, Copied, Listed
<1>8. NoSentinelRow' /\ RowsKnown'
  BY <1>3, SameFileSameRead DEF LineageInv, NoSentinelRow, RowsKnown
<1>9. Sealed' = Sealed
  BY <1>3, SameFileSameRead DEF Sealed
<1>10. SealedManifest'
  BY <1>1, <1>3, <1>9, SealKeeps
<1> QED
  BY <1>1, <1>4, <1>5, <1>6, <1>7, <1>8, <1>10 DEF LineageInv, Kept

LEMMA BeginLineage ==
    ASSUME RawInv, NEW p \in Proc, BeginConsolidation(p)
    PROVE  Kept
<1> USE DEF RawInv, BeginConsolidation
<1>1. StoreInv' /\ ReadsStay /\ Reading' = Reading
  BY StillKeeps
<1>2. /\ UNCHANGED <<windows, file, writer, source, artifact, manifest, edits>>
      /\ manifest # None /\ writer[p].pc = "IDLE"
      /\ job' = [job EXCEPT ![p].pc = "SCAN"]
  BY DEF storeVars, Proceed
<1> HIDE DEF BeginConsolidation
<1>3. LineageTypeOK' /\ SentinelOwn' /\ Sourced'
  BY <1>2 DEF LineageInv, LineageTypeOK, SentinelOwn, Sourced, Listed, Job
<1>4. job'[p].pc = "SCAN" /\ \A q \in Proc : q # p => job'[q] = job[q]
  BY <1>2 DEF LineageInv, LineageTypeOK, Job
<1>5. JobsTrue'
  BY <1>1, <1>2, <1>4, CopiedKeeps DEF LineageInv, JobsTrue, Listed
<1> QED
  BY <1>1, <1>2, <1>3, <1>5, QuietLineage

LEMMA ScanLineage ==
    ASSUME RawInv, NEW p \in Proc, ScanDestination(p)
    PROVE  Kept
<1> USE DEF RawInv
<1> DEFINE there == {k \in Listed(manifest) : ReadOf(k) # None}
           begun == [pc |-> "COPY", todo |-> Listed(manifest) \ there, sealed |-> Sealed]
<1>1. StoreInv' /\ ReadsStay /\ Reading' = Reading
  BY StillKeeps DEF ScanDestination
<1>2. /\ UNCHANGED <<windows, file, writer, source, artifact, manifest, edits>>
      /\ job[p].pc = "SCAN"
      /\ \/ job' = [job EXCEPT ![p] = NoJob]
         \/ job' = [job EXCEPT ![p] = begun] /\ \A k \in there : ReadOf(k) = manifest[k]
  BY DEF ScanDestination, storeVars, GiveUp
<1>3. Sealed \in BOOLEAN /\ begun \in Job /\ NoJob \in Job
  BY DEF Sealed, Job, NoJob, Listed
<1> HIDE DEF begun
<1>4. LineageTypeOK' /\ SentinelOwn' /\ Sourced'
  <2>1. PICK j \in Job : job' = [job EXCEPT ![p] = j]
    BY <1>2, <1>3
  <2>2. LineageTypeOK' /\ Sourced'
    BY <1>2, <2>1 DEF LineageInv, LineageTypeOK, Sourced, Listed
  <2>3. SentinelOwn'
    BY <1>2, <2>1 DEF LineageInv, LineageTypeOK, SentinelOwn
  <2> QED
    BY <2>2, <2>3
<1> USE DEF begun
<1>5. CASE job' = [job EXCEPT ![p] = NoJob]
  <2>1. JobsTrue'
    BY <1>1, <1>2, <1>5, JobsKeep DEF LineageInv, LineageTypeOK, NoJob
  <2> QED
    BY <1>1, <1>2, <1>4, <2>1, QuietLineage
<1>6. CASE job' = [job EXCEPT ![p] = begun] /\ \A k \in there : ReadOf(k) = manifest[k]
  <2>1. job'[p] = begun /\ \A q \in Proc : q # p => job'[q] = job[q]
    BY <1>6 DEF LineageInv, LineageTypeOK
  <2>2. \A k \in Listed(manifest) : k \notin begun.todo => ReadOf(k)' = manifest'[k]
    BY <1>2, <1>6, SameFileSameRead
  <2>3. Copied(p)'
    BY <1>2, <2>1, <2>2 DEF Copied, Listed
  <2>4. manifest # None
    BY <1>2 DEF LineageInv, JobsTrue
  <2>5. JobsTrue'
    BY <1>1, <1>2, <2>1, <2>3, <2>4, CopiedKeeps DEF LineageInv, JobsTrue, Listed
  <2> QED
    BY <1>1, <1>2, <1>4, <2>5, QuietLineage
<1> QED
  BY <1>2, <1>5, <1>6

LEMMA CallLineage ==
    ASSUME RawInv, NEW p \in Proc, NEW k \in Key, NEW c \in Content, Call(p, k, c),
           UNCHANGED <<source, artifact, manifest, edits>>,
           \/ UNCHANGED job /\ k # Sentinel /\ c \notin Stamp
           \/ /\ k = Sentinel /\ job[p].pc = "COPY" /\ job[p].todo = {}
              /\ job' = [job EXCEPT ![p].pc = "SEAL"]
    PROVE  Kept
<1> USE DEF RawInv
<1>1. StoreInv' /\ ReadsStay /\ Reading' = Reading
  BY CallKeeps
<1>2. /\ UNCHANGED <<windows, file>>
      /\ writer' = [writer EXCEPT ![p] = [pc |-> "CHECK", key |-> k, content |-> c]]
  BY DEF Call
<1>3. LineageTypeOK' /\ Sourced'
  BY DEF LineageInv, LineageTypeOK, Sourced, Listed, Job
<1>4. /\ \A q \in Proc : q # p => job'[q] = job[q] /\ writer'[q] = writer[q]
      /\ job'[p].todo = job[p].todo
      /\ job'[p] = job[p] \/ (job[p].pc = "COPY" /\ job'[p].pc = "SEAL" /\ job[p].todo = {})
      /\ IF k = Sentinel THEN job'[p].pc = "SEAL" ELSE c \notin Stamp
      /\ writer'[p] = [pc |-> "CHECK", key |-> k, content |-> c]
  <2>1. writer \in [Proc -> Writer] /\ job \in [Proc -> Job]
    BY DEF LineageInv, LineageTypeOK, StoreInv, StoreTypeOK
  <2>2. \A q \in Proc : q # p => writer'[q] = writer[q]
    BY <1>2, <2>1
  <2>3. writer'[p] = [pc |-> "CHECK", key |-> k, content |-> c]
    BY <1>2, <2>1
  <2>4. CASE UNCHANGED job /\ k # Sentinel /\ c \notin Stamp
    <3>1. job'[p] = job[p] /\ \A q \in Proc : job'[q] = job[q]
      BY <2>4
    <3> QED
      BY <2>2, <2>3, <2>4, <3>1
  <2>5. CASE /\ k = Sentinel /\ job[p].pc = "COPY" /\ job[p].todo = {}
             /\ job' = [job EXCEPT ![p].pc = "SEAL"]
    <3>1. \A q \in Proc : q # p => job'[q] = job[q]
      BY <2>1, <2>5
    <3>2. job'[p].todo = job[p].todo /\ job'[p].pc = "SEAL"
      BY <2>1, <2>5 DEF Job
    <3> QED
      BY <2>2, <2>3, <2>5, <3>1, <3>2
  <2> QED
    BY <2>4, <2>5
<1>5. SentinelOwn'
  BY <1>4 DEF LineageInv, SentinelOwn
<1>6. JobsTrue'
  BY <1>1, <1>4, CopiedKeeps DEF LineageInv, JobsTrue, Listed
<1> QED
  BY <1>1, <1>2, <1>3, <1>5, <1>6, QuietLineage

LEMMA CopyLineage ==
    ASSUME RawInv, NEW p \in Proc, NEW k \in Key, CopyObject(p, k)
    PROVE  Kept
<1> USE DEF RawInv
<1>1. /\ job[p].pc = "COPY" /\ k \in job[p].todo /\ Call(p, k, source[k])
      /\ UNCHANGED <<source, artifact, manifest, job, edits>>
  BY DEF CopyObject, lineageVars
<1>2. manifest # None /\ k \in Listed(manifest)
  BY <1>1 DEF LineageInv, JobsTrue
<1>3. k # Sentinel /\ source[k] # None
  BY <1>2 DEF LineageInv, NoSentinelRow, Sourced, Listed
<1>4. source[k] \in Content /\ source[k] \notin Stamp
  BY <1>3 DEF LineageInv, LineageTypeOK, Rows
<1> QED
  BY <1>1, <1>3, <1>4, CallLineage

LEMMA CollectLineage ==
    ASSUME RawInv, NEW p \in Proc, CollectObject(p)
    PROVE  Kept
<1>1. PICK k \in Key \ {Sentinel}, c \in Content \ Stamp : Call(p, k, c)
  BY DEF CollectObject
<1>2. UNCHANGED <<source, artifact, manifest, job, edits>>
  BY DEF CollectObject, lineageVars
<1> QED
  BY <1>1, <1>2, CallLineage

\* A process that leaves the store, perhaps with what it has copied behind it.
LEMMA LeaveLineage ==
    ASSUME RawInv, NEW p \in Proc, Collect(p) \/ Die(p), UNCHANGED <<source, artifact, manifest, edits>>,
           NEW j \in Job, job' = [job EXCEPT ![p] = j],
           \/ j.pc = "IDLE"
           \/ /\ j.pc = "COPY" /\ job[p].pc = "COPY" /\ j.todo \subseteq job[p].todo
              /\ \A k \in job[p].todo : k \notin j.todo => ReadOf(k) = manifest[k]
    PROVE  Kept
<1> USE DEF RawInv
<1>1. /\ StoreInv' /\ ReadsStay /\ Reading' = Reading
      /\ writer' = [writer EXCEPT ![p] = Waiting]
  BY LeaveKeeps
<1>2. UNCHANGED <<windows, file>>
  BY DEF Collect, Die
<1>3. /\ job'[p] = j /\ writer'[p].pc = "IDLE"
      /\ \A q \in Proc : q # p => job'[q] = job[q] /\ writer'[q] = writer[q]
  BY <1>1 DEF LineageInv, LineageTypeOK, StoreInv, StoreTypeOK, Waiting
<1>4. LineageTypeOK' /\ Sourced'
  BY DEF LineageInv, LineageTypeOK, Sourced, Listed
<1>5. SentinelOwn'
  BY <1>3 DEF LineageInv, SentinelOwn
<1>6. JobsTrue'
  <2>1. CASE j.pc = "IDLE"
    BY <1>1, <1>3, <2>1, JobsKeep
  <2>2. CASE /\ j.pc = "COPY" /\ job[p].pc = "COPY" /\ j.todo \subseteq job[p].todo
             /\ \A k \in job[p].todo : k \notin j.todo => ReadOf(k) = manifest[k]
    <3>1. manifest # None /\ job[p].todo \subseteq Listed(manifest) /\ Copied(p)
      BY <2>2 DEF LineageInv, JobsTrue
    <3>2. \A k \in Listed(manifest) : k \notin j.todo => ReadOf(k)' = manifest[k]
      BY <1>2, <2>2, <3>1, SameFileSameRead DEF Copied
    <3>3. Copied(p)'
      BY <1>3, <3>2 DEF Copied, Listed
    <3> QED
      BY <1>1, <1>3, <2>2, <3>1, <3>3, CopiedKeeps DEF LineageInv, JobsTrue, Listed
  <2> QED
    BY <2>1, <2>2
<1> QED
  BY <1>1, <1>2, <1>4, <1>5, <1>6, QuietLineage

LEMMA VerifyLineage ==
    ASSUME RawInv, NEW p \in Proc, VerifyCopy(p)
    PROVE  Kept
<1> DEFINE k == writer[p].key
<1>1. /\ job[p].pc = "COPY" /\ Collect(p)
      /\ UNCHANGED <<source, artifact, manifest, edits>>
      /\ \/ ReadOf(k) = manifest[k] /\ job' = [job EXCEPT ![p].todo = @ \ {k}]
         \/ job' = [job EXCEPT ![p] = NoJob]
  BY DEF VerifyCopy, GiveUp
<1> HIDE DEF k
<1>2. job[p] \in Job
  BY DEF RawInv, LineageInv, LineageTypeOK
<1>3. CASE ReadOf(k) = manifest[k] /\ job' = [job EXCEPT ![p].todo = @ \ {k}]
  <2> DEFINE j == [job[p] EXCEPT !.todo = @ \ {k}]
  <2>1. j \in Job /\ j.pc = "COPY" /\ j.todo = job[p].todo \ {k}
    BY <1>1, <1>2 DEF Job
  <2>2. job' = [job EXCEPT ![p] = j]
    BY <1>3
  <2>3. \A l \in job[p].todo : l \notin j.todo => ReadOf(l) = manifest[l]
    BY <1>3, <2>1
  <2>4. j.todo \subseteq job[p].todo
    BY <2>1
  <2> HIDE DEF j
  <2> QED
    BY <1>1, <2>1, <2>2, <2>3, <2>4, LeaveLineage
<1>4. CASE job' = [job EXCEPT ![p] = NoJob]
  <2>1. NoJob \in Job /\ NoJob.pc = "IDLE"
    BY DEF NoJob, Job
  <2> QED
    BY <1>1, <1>4, <2>1, LeaveLineage
<1> QED
  BY <1>1, <1>3, <1>4

LEMMA EndLineage ==
    ASSUME RawInv, NEW p \in Proc, EndConsolidation(p)
    PROVE  Kept
<1>1. NoJob \in Job /\ NoJob.pc = "IDLE"
  BY DEF NoJob, Job
<1> QED
  BY <1>1, LeaveLineage DEF EndConsolidation, GiveUp

\* A process without a job or with one gives it up, without a step of the store.
LEMMA GiveUpLineage ==
    ASSUME RawInv, NEW p \in Proc, GiveUp(p), UNCHANGED <<storeVars, source, artifact, manifest, edits>>,
           job[p].pc = "SEAL" => writer[p].pc = "IDLE"
    PROVE  Kept
<1> USE DEF RawInv
<1>1. StoreInv' /\ ReadsStay /\ Reading' = Reading
  BY StillKeeps
<1>2. /\ NoJob \in Job /\ NoJob.pc = "IDLE" /\ job' = [job EXCEPT ![p] = NoJob]
      /\ UNCHANGED <<windows, file, writer, source, artifact, manifest, edits>>
  BY DEF NoJob, Job, GiveUp, storeVars
<1>3. LineageTypeOK' /\ Sourced'
  BY <1>2 DEF LineageInv, LineageTypeOK, Sourced, Listed
<1>4. job'[p].pc = "IDLE" /\ \A q \in Proc : q # p => job'[q] = job[q]
  BY <1>2 DEF LineageInv, LineageTypeOK
<1>5. SentinelOwn'
  BY <1>2, <1>4 DEF LineageInv, SentinelOwn
<1>6. JobsTrue'
  BY <1>1, <1>2, <1>4, JobsKeep
<1> QED
  BY <1>1, <1>2, <1>3, <1>5, <1>6, QuietLineage

LEMMA SealLineage ==
    ASSUME RawInv, NEW p \in Proc, Seal(p)
    PROVE  Kept
<1>1. /\ job[p].pc = "COPY" /\ job[p].todo = {}
      /\ UNCHANGED <<source, artifact, manifest, edits>>
  BY DEF Seal
<1>2. CASE GiveUp(p) /\ UNCHANGED storeVars
  BY <1>1, <1>2, GiveUpLineage DEF storeVars
<1>3. ASSUME NEW t \in Stamp, Call(p, Sentinel, t), Proceed(p, "SEAL")
      PROVE  Kept
  BY <1>1, <1>3, CallLineage DEF Proceed
<1> QED
  BY <1>2, <1>3 DEF Seal

LEMMA KilledLineage ==
    ASSUME RawInv, NEW p \in Proc, Killed(p)
    PROVE  Kept
<1>1. /\ GiveUp(p) /\ UNCHANGED <<source, artifact, manifest, edits>>
      /\ NoJob \in Job /\ NoJob.pc = "IDLE"
  BY DEF Killed, NoJob, Job
<1>2. CASE Die(p)
  BY <1>1, <1>2, LeaveLineage DEF GiveUp
<1>3. CASE writer[p].pc = "IDLE" /\ UNCHANGED storeVars
  BY <1>1, <1>3, GiveUpLineage DEF storeVars
<1> QED
  BY <1>2, <1>3 DEF Killed

LEMMA RegisterLineage ==
    ASSUME RawInv, NEW p \in Proc, RegisterObject(p)
    PROVE  Kept
<1> USE DEF RawInv
<1> DEFINE k == writer[p].key
           c == writer[p].content
<1>1. /\ job[p].pc = "IDLE" /\ writer[p].pc # "IDLE" /\ Collect(p)
      /\ UNCHANGED <<windows, file, source, manifest, job, edits>>
      /\ \/ UNCHANGED artifact
         \/ /\ writer[p].pc = "WRITTEN" /\ artifact[k] = None
            /\ artifact' = [artifact EXCEPT ![k] = c]
  BY DEF RegisterObject, Collect, NoJob
<1>2. k \in Key \ {Sentinel} /\ c \in Content \ Stamp
  BY <1>1 DEF StoreInv, Loaded, LineageInv, SentinelOwn
<1>3. writer[p].pc = "WRITTEN" => ReadOf(k) = c
  BY DEF StoreInv, WrittenAcknowledged, AcknowledgedServed
<1> HIDE DEF k, c
<1>4. /\ StoreInv' /\ ReadsStay /\ Reading' = Reading
      /\ writer' = [writer EXCEPT ![p] = Waiting]
  BY <1>1, LeaveKeeps
<1>5. LineageTypeOK' /\ NoSentinelRow' /\ Sourced'
  BY <1>1, <1>2 DEF LineageInv, LineageTypeOK, Rows, NoSentinelRow, Sourced, Listed
<1>6. SentinelOwn'
  BY <1>1, <1>4 DEF LineageInv, SentinelOwn, StoreInv, StoreTypeOK, Waiting
<1>7. RowsKnown'
  <2>1. \A l \in Key : ReadOf(l)' = ReadOf(l)
    BY <1>1, SameFileSameRead
  <2>2. \A l \in Key : artifact'[l] = artifact[l] \/ ReadOf(l) = artifact'[l]
    BY <1>1, <1>2, <1>3 DEF LineageInv, LineageTypeOK, Rows
  <2> QED
    BY <1>1, <2>1, <2>2 DEF LineageInv, RowsKnown
<1>8. JobsTrue'
  BY <1>1, <1>4, JobsKeep
<1>9. Sealed' = Sealed
  BY <1>1, SameFileSameRead DEF Sealed
<1>10. SealedManifest'
  BY <1>1, <1>4, <1>9, SealKeeps
<1> QED
  BY <1>4, <1>5, <1>6, <1>7, <1>8, <1>10 DEF LineageInv, Kept

-----------------------------------------------------------------------------
(* The invariant and what follows from it.                                 *)

LEMMA InitEstablishes == LineageInit => RawInv
<1> SUFFICES ASSUME LineageInit PROVE RawInv
  OBVIOUS
<1>1. StoreTypeOK /\ Loaded /\ NoOlder /\ AcknowledgedServed /\ WrittenAcknowledged
  BY DEF LineageInit, StoreInit, StoreTypeOK, Loaded, NoOlder, AcknowledgedServed,
         WrittenAcknowledged, Waiting, Writer
<1>2. \A n \in Name : file[n] # None => windows /\ \E k \in Key : n = Plain[k]
  BY DEF LineageInit, StoreInit
<1>3. OneName
  BY <1>2, NamesTyped DEF OneName
<1>4. LineageTypeOK /\ SentinelOwn /\ NoSentinelRow /\ Sourced /\ RowsKnown /\ JobsTrue
  BY DEF LineageInit, StoreInit, LineageTypeOK, SentinelOwn, NoSentinelRow, Sourced, RowsKnown,
         JobsTrue, Waiting, NoJob, Job, Rows, Listed
<1>5. ~Sealed
  <2>1. file[Plain[Sentinel]] = None
    BY DEF LineageInit
  <2>2. windows => file[Encoded[Sentinel]] = None
    BY <1>2, <2>1, NamesTyped
  <2>3. ReadOf(Sentinel) = Served(Sentinel)
    BY <1>1, <1>3, ReadIsServed DEF ReadsAreServed
  <2> QED
    BY <2>1, <2>2, <2>3 DEF Sealed, Served
<1> QED
  BY <1>1, <1>3, <1>4, <1>5 DEF RawInv, StoreInv, LineageInv, SealedManifest

LEMMA NextKeeps == RawInv /\ [LineageNext]_rawVars => Kept
<1> SUFFICES ASSUME RawInv, [LineageNext]_rawVars PROVE Kept
  OBVIOUS
<1>1. CASE Capture
  BY <1>1, CaptureLineage
<1>2. ASSUME NEW k \in Key, Edit(k) PROVE Kept
  BY <1>2, EditLineage
<1>3. ASSUME NEW p \in Proc, WriteStep(p), UNCHANGED lineageVars PROVE Kept
  BY <1>3, WriteStepLineage
<1>4. ASSUME NEW p \in Proc, BeginConsolidation(p) PROVE Kept
  BY <1>4, BeginLineage
<1>5. ASSUME NEW p \in Proc, ScanDestination(p) PROVE Kept
  BY <1>5, ScanLineage
<1>6. ASSUME NEW p \in Proc, VerifyCopy(p) PROVE Kept
  BY <1>6, VerifyLineage
<1>7. ASSUME NEW p \in Proc, Seal(p) PROVE Kept
  BY <1>7, SealLineage
<1>8. ASSUME NEW p \in Proc, EndConsolidation(p) PROVE Kept
  BY <1>8, EndLineage
<1>9. ASSUME NEW p \in Proc, CollectObject(p) PROVE Kept
  BY <1>9, CollectLineage
<1>10. ASSUME NEW p \in Proc, RegisterObject(p) PROVE Kept
  BY <1>10, RegisterLineage
<1>11. ASSUME NEW p \in Proc, Killed(p) PROVE Kept
  BY <1>11, KilledLineage
<1>12. ASSUME NEW p \in Proc, NEW k \in Key, CopyObject(p, k) PROVE Kept
  BY <1>12, CopyLineage
<1>13. CASE UNCHANGED rawVars
  <2>1. /\ UNCHANGED <<windows, file, writer, acknowledged, writes>>
        /\ UNCHANGED <<source, artifact, manifest, job, edits>>
    BY <1>13 DEF rawVars
  <2>2. StoreInv' /\ ReadsStay /\ Reading' = Reading
    BY <2>1, StillKeeps DEF RawInv, storeVars
  <2>3. LineageInv'
    BY <2>1, SameFileSameRead DEF RawInv, LineageInv, LineageTypeOK, SentinelOwn, NoSentinelRow,
       Sourced, RowsKnown, JobsTrue, Copied, SealedManifest, Sealed, Listed
  <2> QED
    BY <2>2, <2>3 DEF RawInv, Kept
<1> QED
  BY <1>1, <1>2, <1>3, <1>4, <1>5, <1>6, <1>7, <1>8, <1>9, <1>10, <1>11, <1>12, <1>13
     DEF LineageNext

LEMMA RawInvariant == RawSpec => []RawInv
<1>1. RawInv /\ [LineageNext]_rawVars => RawInv'
  BY NextKeeps DEF Kept
<1> QED
  BY <1>1, InitEstablishes, PTL DEF RawSpec

\* The store, the rows, the manifest and the consolidations stay well typed.
THEOREM RawTyped == RawSpec => []RawTypeOK
<1>1. RawInv => RawTypeOK
  BY DEF RawInv, StoreInv, StoreTypeOK, LineageInv, LineageTypeOK, RawTypeOK
<1> QED
  BY <1>1, RawInvariant, PTL

\* What write_bytes has returned for is read back for ever, whatever the names of the keys, the
\* platform and the number of writers.
THEOREM WritesAreRead == RawSpec => []AcknowledgedReads
<1>1. RawInv => AcknowledgedReads
  BY DEF RawInv, StoreInv, AcknowledgedServed, AcknowledgedReads
<1> QED
  BY <1>1, RawInvariant, PTL

\* A sealed root serves every row of the database, for any number of consolidations, collectors
\* and changes of the sources.
THEOREM SealIsComplete == RawSpec => []SealedRootServesRows
<1>1. RawInv => SealedRootServesRows
  BY InvServes DEF RawInv
<1> QED
  BY <1>1, RawInvariant, PTL

\* The store, whose files are published by link or rename and read under two names, implements
\* a write-once register per key.
THEOREM StoreWritesOnce == RawSpec => KeepsWriteOnce
<1>1. LineageInit => Promise!Init
  <2> SUFFICES ASSUME LineageInit PROVE Promise!Init
    OBVIOUS
  <2>1. \A k \in Key : ReadOf(k) \in Content \cup {None}
    BY InitEstablishes, ReadIsServed DEF RawInv, StoreInv, ReadsAreServed
  <2> QED
    BY <2>1 DEF Promise!Init
<1>2. RawInv /\ [LineageNext]_rawVars => [Promise!Next]_([k \in Key |-> ReadOf(k)])
  <2> SUFFICES ASSUME RawInv, [LineageNext]_rawVars
               PROVE  [Promise!Next]_([k \in Key |-> ReadOf(k)])
    OBVIOUS
  <2>1. [Claim]_Reading
    BY NextKeeps DEF Kept
  <2>2. CASE Reading' = Reading
    BY <2>2 DEF Reading
  <2>3. ASSUME NEW k \in Key, NEW c \in Content,
               ReadOf(k) = None, Reading' = [Reading EXCEPT ![k] = c]
        PROVE  Promise!Next
    <3>1. ReadOf(k)' = c
      BY <2>3 DEF Reading
    <3>2. Promise!Write(k)
      BY <2>3, <3>1 DEF Promise!Write, Reading
    <3> QED
      BY <3>2 DEF Promise!Next
  <2> QED
    BY <2>1, <2>2, <2>3 DEF Claim
<1> QED
  BY <1>1, <1>2, RawInvariant, PTL DEF RawSpec, KeepsWriteOnce, Promise!Spec

=============================================================================
