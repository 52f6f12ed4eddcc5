----------------------------- MODULE FetchRange -----------------------------
(***************************************************************************)
(* What scanner.Fetcher promises its caller: fn receives disjoint runs of  *)
(* consecutive entries from [StartIndex, EndIndex), EndIndex only grows    *)
(* (once Prepare has fixed it, and in Continuous mode by updateSTH), and   *)
(* nothing is delivered after Run has returned.                            *)
(***************************************************************************)
EXTENDS Integers

CONSTANTS
    StartIndex,
    Entries     \* the log's entry indices

VARIABLES
    got,    \* got[i]: how many EntryBatches passed to fn held entry i
    limit,  \* EndIndex: entries below it may be delivered
    done    \* Run has returned

vars == <<got, limit, done>>

Init == got = [i \in Entries |-> 0] /\ limit = 0 /\ done = FALSE

(* EndIndex moves forward.  Run does not wait for the range generator, so *)
(* an updateSTH in flight may still do this after Run has returned.        *)
Extend ==
    /\ limit' > limit
    /\ UNCHANGED <<got, done>>

(* One EntryBatch: a run a..b of entries below EndIndex, none delivered   *)
(* before.                                                                 *)
Deliver ==
    /\ ~done
    /\ \E a, b \in StartIndex..(limit - 1) :
        /\ a <= b
        /\ a..b \subseteq Entries
        /\ \A i \in a..b : got[i] = 0
        /\ got' = [i \in Entries |-> IF i \in a..b THEN 1 ELSE got[i]]
    /\ UNCHANGED <<limit, done>>

(* Run returns.                                                            *)
Finish ==
    /\ ~done
    /\ done' = TRUE
    /\ UNCHANGED <<got, limit>>

Next == Extend \/ Deliver \/ Finish

Spec == Init /\ [][Next]_vars
=============================================================================
