----------------------------- MODULE ObjectStore -----------------------------
(***************************************************************************)
(* core/storage.py RawObjectStore: objects under logical keys, published   *)
(* once by a link (POSIX) or a rename (Windows) of a synced temporary      *)
(* file.  On Windows a key has an encoded name and may have an older,      *)
(* unencoded one, and lookup ignores case.  Processes write beside each    *)
(* other and die anywhere.                                                 *)
(***************************************************************************)
EXTENDS Integers, FiniteSets, Absent

CONSTANTS
    Key,              \* logical object keys
    Content,
    Proc,             \* writing processes
    Name,             \* file names
    Plain,            \* [Key -> Name]: the key itself, the name on POSIX and before the encoding
    Encoded,          \* [Key -> Name]: _encode_windows_physical_part
    Fold,             \* [Name -> names]: what Windows compares
    MaxWrites         \* bound: writes begun

ASSUME StoreAssumption ==
    /\ None \notin Content \cup Key \cup Name
    /\ Plain \in [Key -> Name] /\ Encoded \in [Key -> Name]
    /\ \A k, l \in Key : k # l => Plain[k] # Plain[l] /\ Fold[Encoded[k]] # Fold[Encoded[l]]
    /\ \A k, l \in Key : Plain[k] = Encoded[l] => k = l
    /\ MaxWrites \in Nat

VARIABLES
    windows,          \* the platform
    file,             \* the contents of the store by exact name
    writer,           \* the locals of write_bytes
    acknowledged,     \* history: the writes that returned
    writes            \* how many of MaxWrites have begun

storeVars == <<windows, file, writer, acknowledged, writes>>

Waiting == [pc |-> "IDLE", key |-> None, content |-> None]

Writer == [pc: {"IDLE", "CHECK", "PUBLISH", "COMPARE", "WRITTEN", "REFUSED"},
           key: Key \cup {None}, content: Content \cup {None}]

-----------------------------------------------------------------------------
Path(k) == IF windows THEN Encoded[k] ELSE Plain[k]

\* The names of exact spelling that hold a key: its own and, on Windows, an older one.
Representations(k) ==
    {n \in {Path(k), Plain[k]} : file[n] # None}

\* Whether a publication under a name finds a file there.
Occupied(n) ==
    \E m \in Name : file[m] # None /\ (IF windows THEN Fold[m] = Fold[n] ELSE m = n)

\* read_bytes: the own name first; another representation must not differ.
ReadOf(k) ==
    LET own == file[Path(k)]
        content == IF own # None THEN own ELSE file[Plain[k]]
    IN  IF \A n \in Representations(k) : file[n] = content THEN content ELSE "CONFLICT"

Identical(k, c) == \A n \in Representations(k) : file[n] = c

-----------------------------------------------------------------------------
Return(p, pc) == writer' = [writer EXCEPT ![p].pc = pc]

Acknowledge(p) ==
    /\ acknowledged' = acknowledged \cup {<<writer[p].key, writer[p].content>>}
    /\ Return(p, "WRITTEN")

Call(p, k, c) ==
    /\ writer[p].pc = "IDLE" /\ writes < MaxWrites
    /\ writer' = [writer EXCEPT ![p] = [pc |-> "CHECK", key |-> k, content |-> c]]
    /\ writes' = writes + 1
    /\ UNCHANGED <<windows, file, acknowledged>>

CheckOwnName(p) ==   \* mutant: the older name is not looked for
    LET k == writer[p].key
    IN  /\ writer[p].pc = "CHECK"
        /\ IF ~windows \/ file[Path(k)] = None
             THEN Return(p, "PUBLISH") /\ UNCHANGED acknowledged
             ELSE IF file[Path(k)] = writer[p].content
               THEN Acknowledge(p)
               ELSE Return(p, "REFUSED") /\ UNCHANGED acknowledged
        /\ UNCHANGED <<windows, file, writes>>

\* Windows looks for both representations first; POSIX leaves it to the link.
CheckExisting(p) ==
    LET k == writer[p].key
    IN  /\ writer[p].pc = "CHECK"
        /\ IF ~windows \/ Representations(k) = {}
             THEN Return(p, "PUBLISH") /\ UNCHANGED acknowledged
             ELSE IF Identical(k, writer[p].content)
               THEN Acknowledge(p)
               ELSE Return(p, "REFUSED") /\ UNCHANGED acknowledged
        /\ UNCHANGED <<windows, file, writes>>

PublishOver(p) ==   \* mutant: os.replace
    LET n == Path(writer[p].key)
    IN  /\ writer[p].pc = "PUBLISH"
        /\ file' = [file EXCEPT ![n] = writer[p].content]
        /\ Acknowledge(p)
        /\ UNCHANGED <<windows, writes>>

\* The temporary file has been written and synced; link and rename do not overwrite.
Publish(p) ==
    LET n == Path(writer[p].key)
    IN  /\ writer[p].pc = "PUBLISH"
        /\ IF Occupied(n)
             THEN Return(p, "COMPARE") /\ UNCHANGED <<file, acknowledged>>
             ELSE file' = [file EXCEPT ![n] = writer[p].content] /\ Acknowledge(p)
        /\ UNCHANGED <<windows, writes>>

\* The winner's bytes decide.  On Windows the name may belong to another key altogether.
Compare(p) ==
    LET k == writer[p].key
    IN  /\ writer[p].pc = "COMPARE"
        /\ IF Representations(k) # {} /\ Identical(k, writer[p].content)
             THEN Acknowledge(p)
             ELSE Return(p, "REFUSED") /\ UNCHANGED acknowledged
        /\ UNCHANGED <<windows, file, writes>>

\* The caller takes the result.
Collect(p) ==
    /\ writer[p].pc \in {"WRITTEN", "REFUSED"}
    /\ writer' = [writer EXCEPT ![p] = Waiting]
    /\ UNCHANGED <<windows, file, acknowledged, writes>>

\* A killed process returns nothing; its temporary file stays behind under a name of its own.
Die(p) ==
    /\ writer[p].pc # "IDLE"
    /\ writer' = [writer EXCEPT ![p] = Waiting]
    /\ UNCHANGED <<windows, file, acknowledged, writes>>

WriteStep(p) == CheckExisting(p) \/ Publish(p) \/ Compare(p)

\* Older files lie under plain names, no two of which Windows takes for one.
StoreInit ==
    /\ windows \in BOOLEAN
    /\ file \in [Name -> Content \cup {None}]
    /\ \A n \in Name : file[n] # None => windows /\ n \in {Plain[k] : k \in Key}
    /\ \A m, n \in Name : m # n /\ file[m] # None /\ file[n] # None => Fold[m] # Fold[n]
    /\ writer = [p \in Proc |-> Waiting]
    /\ acknowledged = {}
    /\ writes = 0

=============================================================================
