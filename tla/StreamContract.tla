--------------------------- MODULE StreamContract ---------------------------
(***************************************************************************)
(* What a receive stream promises to the receivers behind it, without      *)
(* threads, buffers or locks: blocks arrive; some are heard, in order and  *)
(* never twice, some are lost; a block is heard only after every gap in    *)
(* front of it was counted; and a stream that was stopped is heard once    *)
(* more at most.                                                           *)
(***************************************************************************)
EXTENDS Integers, Sequences

VARIABLES
    arrived,  \* number of blocks that arrived; they are numbered from 1
    heard,    \* numbers of the blocks the receivers got, in the order they got them
    lost,     \* number of blocks counted as lost
    stage     \* "open", then "stopped", then "over" after a last block

streamVars == <<arrived, heard, lost, stage>>

Init == arrived = 0 /\ heard = <<>> /\ lost = 0 /\ stage = "open"

\* Hardware goes on until its thread is joined, also after the stop.
Arrive ==
    /\ arrived' = arrived + 1
    /\ UNCHANGED <<heard, lost, stage>>

\* A block is lost or heard, not both.
Lose ==
    /\ Len(heard) + lost < arrived
    /\ lost' = lost + 1
    /\ UNCHANGED <<arrived, heard, stage>>

\* Of the n blocks up to n, Len(heard) + 1 are heard with it.
Hear ==
    /\ stage # "over"
    /\ Len(heard) + lost < arrived
    /\ \E n \in 1..arrived :
          /\ \A i \in DOMAIN heard : heard[i] < n
          /\ n - (Len(heard) + 1) <= lost
          /\ heard' = Append(heard, n)
    /\ stage' = IF stage = "open" THEN "open" ELSE "over"
    /\ UNCHANGED <<arrived, lost>>

Stop ==
    /\ stage = "open"
    /\ stage' = "stopped"
    /\ UNCHANGED <<arrived, heard, lost>>

Next == Arrive \/ Lose \/ Hear \/ Stop

Spec == Init /\ [][Next]_streamVars
=============================================================================
