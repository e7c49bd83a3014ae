----------------------------- MODULE PostingPromise -----------------------------
(***************************************************************************)
(* What the lifecycle of a posting promises (README.md, GATE-005): a scan  *)
(* that misses a posting makes it pending, and closes it only when an      *)
(* earlier miss, with no sighting in between, is a confirmation delay      *)
(* old.  A closed posting changes only when it is seen again.  There are   *)
(* no runs, listings or processes here, and no count of the misses.        *)
(***************************************************************************)
EXTENDS Integers

CONSTANTS
    Posting,            \* the native identifiers of a source
    ConfirmationDelay   \* CLOSURE_CONFIRMATION_DELAY

VARIABLES
    state,   \* the lifecycle of each posting
    since,   \* when a pending or closed posting was first missed
    now

promise == <<state, since, now>>

Lifecycle == {"UNKNOWN", "NEW", "STILL_ACTIVE", "DISAPPEARED_PENDING", "CLOSED_OBSERVED"}

PromiseInit ==
    /\ state = [x \in Posting |-> "UNKNOWN"]
    /\ since = [x \in Posting |-> 0]
    /\ now = 0

\* A sighting, whatever came before, starts the posting afresh.
See(x) ==
    /\ state' = [state EXCEPT ![x] = IF @ = "UNKNOWN" THEN "NEW" ELSE "STILL_ACTIVE"]
    /\ since' = [since EXCEPT ![x] = 0]
    /\ UNCHANGED now

\* A scan at time at misses some known postings that are not closed.
Miss(missed, at) ==
    /\ \A x \in missed : state[x] \notin {"UNKNOWN", "CLOSED_OBSERVED"}
    /\ state' = [x \in Posting |->
           IF x \notin missed THEN state[x]
           ELSE IF state[x] = "DISAPPEARED_PENDING" /\ at - since[x] >= ConfirmationDelay
                THEN "CLOSED_OBSERVED" ELSE "DISAPPEARED_PENDING"]
    /\ since' = [x \in Posting |->
           IF x \in missed /\ state[x] # "DISAPPEARED_PENDING" THEN at ELSE since[x]]
    /\ UNCHANGED now

Pass == now' > now /\ UNCHANGED <<state, since>>

PromiseNext ==
    \/ \E x \in Posting : See(x)
    \/ \E missed \in SUBSET Posting, at \in 0..now : Miss(missed, at)
    \/ Pass

Promise == PromiseInit /\ [][PromiseNext]_promise

=============================================================================
