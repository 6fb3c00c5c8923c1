--------------------------- MODULE ConfirmedLogs ---------------------------
(***************************************************************************)
(* What a confirmed log stream promises its consumer: the blocks that have *)
(* become final grow at one end only, and the consumer is handed them in   *)
(* order, without a gap and without a repetition, never a block that can   *)
(* still be reorganised away.                                              *)
(***************************************************************************)
EXTENDS Sequences, Integers

CONSTANT Block        \* what a block contributes: its list of matching logs

VARIABLES final,      \* the final blocks after the start of the stream
          delivered   \* the blocks handed to the consumer so far

\* t continues s.
Extends(t, s) == /\ Len(s) <= Len(t)
                 /\ s = SubSeq(t, 1, Len(s))

Init == /\ final \in Seq(Block)
        /\ delivered = << >>

\* More blocks become final.
Finalize == /\ final' \in Seq(Block)
            /\ Extends(final', final)
            /\ UNCHANGED delivered

\* The consumer receives the next item: some of the final blocks it lacks.
Deliver == /\ delivered' \in Seq(Block)
           /\ Extends(delivered', delivered)
           /\ Extends(final, delivered')
           /\ UNCHANGED final

Next == Finalize \/ Deliver

Spec == Init /\ [][Next]_<<final, delivered>>
=============================================================================
