------------------------------ MODULE WriteOnce ------------------------------
(* What the RAW object store promises: a key gets one value and keeps it.    *)
CONSTANTS Key, Value, Unwritten

VARIABLE value

Init == value \in [Key -> Value \cup {Unwritten}]

\* The one step: a key without a value gets one, and every other key stays as it is.
Write(k) ==
    /\ value[k] = Unwritten
    /\ value'[k] \in Value
    /\ value' = [value EXCEPT ![k] = value'[k]]

Next == \E k \in Key : Write(k)

Spec == Init /\ [][Next]_value

=============================================================================
