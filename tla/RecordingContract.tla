-------------------------- MODULE RecordingContract --------------------------
(***************************************************************************)
(* What a recording promises, without threads, pools or counters: blocks   *)
(* are taken in order; some are kept, in order and never twice, the others *)
(* lost; and a recording judged complete kept every block from the first   *)
(* on, except perhaps the last one taken.                                  *)
(***************************************************************************)
EXTENDS Integers, Sequences

VARIABLES
    taken,   \* number of blocks taken so far; they are numbered from 1
    kept,    \* numbers of the blocks in the data file, in file order
    verdict  \* "none" while recording, then "complete" or "incomplete"

contractVars == <<taken, kept, verdict>>

Init == taken = 0 /\ kept = <<>> /\ verdict = "none"

Take ==
    /\ verdict = "none"
    /\ taken' = taken + 1
    /\ UNCHANGED <<kept, verdict>>

Keep ==
    /\ verdict = "none"
    /\ \E n \in 1..taken :
          /\ \A i \in DOMAIN kept : kept[i] < n
          /\ kept' = Append(kept, n)
    /\ UNCHANGED <<taken, verdict>>

Whole ==
    /\ \A i \in DOMAIN kept : kept[i] = i
    /\ Len(kept) \in {taken - 1, taken}

Judge ==
    /\ verdict = "none"
    /\ \/ verdict' = "complete" /\ Whole
       \/ verdict' = "incomplete"
    /\ UNCHANGED <<taken, kept>>

Next == Take \/ Keep \/ Judge

Spec == Init /\ [][Next]_contractVars
=============================================================================
