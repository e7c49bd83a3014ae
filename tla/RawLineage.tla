------------------------------ MODULE RawLineage ------------------------------
(***************************************************************************)
(* core/raw_lineage.py: the objects of the database, scattered over source *)
(* roots, are inventoried in a manifest and copied into one operational    *)
(* root, which a sentinel written last declares complete.  Consolidations  *)
(* and collectors use the store of ObjectStore beside each other.          *)
(***************************************************************************)
EXTENDS ObjectStore

CONSTANTS
    Sentinel,         \* the key of the sentinel
    Stamp,            \* its contents: the designation with a time of replication
    Legacy,           \* keys with a row before the root exists
    MaxEdits          \* bound: changes of a source file

ASSUME LineageAssumption ==
    /\ Sentinel \in Key
    /\ Stamp \subseteq Content
    /\ Legacy \subseteq Key \ {Sentinel}
    /\ MaxEdits \in Nat

VARIABLES
    source,           \* the one file of a key under the source roots
    artifact,         \* core_raw_artifact: the digest, here the bytes, of a key
    manifest,         \* the designated manifest
    job,              \* the locals of consolidate_manifest
    edits

lineageVars == <<source, artifact, manifest, job, edits>>

Rows == [Key -> (Content \ Stamp) \cup {None}]

NoJob == [pc |-> "IDLE", todo |-> {}, sealed |-> FALSE]

Job == [pc: {"IDLE", "SCAN", "COPY", "SEAL"}, todo: SUBSET Key, sealed: BOOLEAN]

-----------------------------------------------------------------------------
Listed(rows) == {k \in Key : rows[k] # None}

Sealed == ReadOf(Sentinel) # None

Proceed(p, pc) == job' = [job EXCEPT ![p].pc = pc]

GiveUp(p) == job' = [job EXCEPT ![p] = NoJob]

\* A source file changes under the audit.
Edit(k) ==
    /\ edits < MaxEdits /\ source[k] # None
    /\ \E c \in Content \ Stamp : source' = [source EXCEPT ![k] = c]
    /\ edits' = edits + 1
    /\ UNCHANGED <<storeVars, artifact, manifest, job>>

\* capture_manifest: every row is found in a source root with its size and digest.  The manifest
\* is then designated by a commit of the repository, once.
Capture ==
    /\ manifest = None
    /\ \A k \in Listed(artifact) : source[k] = artifact[k]
    /\ manifest' = artifact
    /\ UNCHANGED <<storeVars, source, artifact, job, edits>>

\* The database and the sources are still what the manifest says.
BeginConsolidation(p) ==
    /\ job[p] = NoJob /\ writer[p].pc = "IDLE"
    /\ manifest # None /\ manifest = artifact
    /\ \A k \in Listed(manifest) : source[k] = manifest[k]
    /\ Proceed(p, "SCAN")
    /\ UNCHANGED <<storeVars, source, artifact, manifest, edits>>

\* What the destination holds must be right, and complete under a sentinel.
ScanDestination(p) ==
    LET there == {k \in Listed(manifest) : ReadOf(k) # None}
    IN  /\ job[p].pc = "SCAN"
        /\ IF (\A k \in there : ReadOf(k) = manifest[k]) /\ (Sealed => there = Listed(manifest))
             THEN job' = [job EXCEPT ![p] = [pc |-> "COPY", todo |-> Listed(manifest) \ there,
                                             sealed |-> Sealed]]
             ELSE GiveUp(p)
        /\ UNCHANGED <<storeVars, source, artifact, manifest, edits>>

\* The source is read again, after its verification.
CopyObject(p, k) ==
    /\ job[p].pc = "COPY" /\ k \in job[p].todo
    /\ Call(p, k, source[k])
    /\ UNCHANGED lineageVars

VerifyNothing(p) ==   \* mutant: the copy is not read back
    /\ job[p].pc = "COPY" /\ writer[p].pc \in {"WRITTEN", "REFUSED"}
    /\ job' = [job EXCEPT ![p].todo = @ \ {writer[p].key}]
    /\ Collect(p)
    /\ UNCHANGED <<source, artifact, manifest, edits>>

VerifyCopy(p) ==
    LET k == writer[p].key
    IN  /\ job[p].pc = "COPY" /\ writer[p].pc \in {"WRITTEN", "REFUSED"}
        /\ IF writer[p].pc = "WRITTEN" /\ ReadOf(k) = manifest[k]
             THEN job' = [job EXCEPT ![p].todo = @ \ {k}]
             ELSE GiveUp(p)
        /\ Collect(p)
        /\ UNCHANGED <<source, artifact, manifest, edits>>

\* A sentinel that was there is kept; otherwise one is written, dated now.
Seal(p) ==
    /\ job[p].pc = "COPY" /\ job[p].todo = {}
    /\ IF job[p].sealed
         THEN GiveUp(p) /\ UNCHANGED storeVars
         ELSE (\E t \in Stamp : Call(p, Sentinel, t)) /\ Proceed(p, "SEAL")
    /\ UNCHANGED <<source, artifact, manifest, edits>>

EndConsolidation(p) ==
    /\ job[p].pc = "SEAL" /\ writer[p].pc \in {"WRITTEN", "REFUSED"}
    /\ GiveUp(p)
    /\ Collect(p)
    /\ UNCHANGED <<source, artifact, manifest, edits>>

-----------------------------------------------------------------------------
\* _persist_raw of a collection, and cached for a geocoder answer: the object, then its row.
CollectObject(p) ==
    /\ job[p] = NoJob
    /\ \E k \in Key \ {Sentinel}, c \in Content \ Stamp : Call(p, k, c)
    /\ UNCHANGED lineageVars

\* object_key is unique.
RegisterObject(p) ==
    LET k == writer[p].key
    IN  /\ job[p] = NoJob /\ writer[p].pc \in {"WRITTEN", "REFUSED"}
        /\ artifact' = IF writer[p].pc = "WRITTEN" /\ artifact[k] = None
                         THEN [artifact EXCEPT ![k] = writer[p].content]
                         ELSE artifact
        /\ Collect(p)
        /\ UNCHANGED <<source, manifest, job, edits>>

Killed(p) ==
    /\ \/ Die(p)
       \/ writer[p].pc = "IDLE" /\ job[p] # NoJob /\ UNCHANGED storeVars
    /\ GiveUp(p)
    /\ UNCHANGED <<source, artifact, manifest, edits>>

LineageInit ==
    /\ StoreInit
    /\ \A k \in Key : file[Plain[k]] # None => k \notin {Sentinel} /\ file[Plain[k]] \notin Stamp
    /\ source \in Rows
    /\ Listed(source) = Legacy
    /\ artifact = source
    /\ manifest = None
    /\ job = [p \in Proc |-> NoJob]
    /\ edits = 0

LineageNext ==
    \/ Capture
    \/ \E k \in Key : Edit(k)
    \/ \E p \in Proc :
          \/ WriteStep(p) /\ UNCHANGED lineageVars
          \/ BeginConsolidation(p) \/ ScanDestination(p) \/ VerifyCopy(p) \/ Seal(p)
          \/ EndConsolidation(p) \/ CollectObject(p) \/ RegisterObject(p) \/ Killed(p)
          \/ \E k \in Key : CopyObject(p, k)

rawVars == <<windows, file, writer, acknowledged, writes, source, artifact, manifest, job, edits>>

RawSpec == LineageInit /\ [][LineageNext]_rawVars

-----------------------------------------------------------------------------
(* Properties.                                                             *)

\* Types of the store and of the processes over it.
RawTypeOK ==
    /\ windows \in BOOLEAN
    /\ file \in [Name -> Content \cup {None}]
    /\ writer \in [Proc -> Writer]
    /\ acknowledged \subseteq Key \X Content
    /\ writes \in 0..MaxWrites
    /\ source \in Rows /\ artifact \in Rows
    /\ manifest \in Rows \cup {None}
    /\ job \in [Proc -> Job]
    /\ edits \in 0..MaxEdits

\* What write_bytes has returned for is what read_bytes returns from then on: across writers
\* that met on one name, older names, keys that Windows takes for one another, and deaths.
AcknowledgedReads == \A w \in acknowledged : ReadOf(w[1]) = w[2]

\* A root with a sentinel serves every row of the database with its bytes, although sources
\* change after their verification and two consolidations copy and seal at the same time.
SealedRootServesRows ==
    Sealed => \A k \in Listed(artifact) : ReadOf(k) = artifact[k]

\* The store implements a write-once register for each key.
Promise == INSTANCE WriteOnce WITH
    Value <- Content, Unwritten <- None, value <- [k \in Key |-> ReadOf(k)]

KeepsWriteOnce == Promise!Spec

=============================================================================
