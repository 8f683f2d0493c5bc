--------------------------- MODULE CommandSource ---------------------------
(***************************************************************************)
(* What the dispatch side sees of everything that asks the AC for a state, *)
(* whatever threads, snapshots and callbacks are behind it: a frame of the *)
(* attributes is dispatched only if it differs from the one recorded last, *)
(* and is recorded with it, without a gap and without a repetition.  "ac   *)
(* off" goes past the record.  Between a restart and the end of boot there *)
(* is no record, and nothing of the attributes is dispatched.              *)
(***************************************************************************)
CONSTANTS Frames,    \* the frames there are
          OffFrame,  \* the one of "ac off"
          NoFrame    \* no record, or no frame yet

VARIABLES recorded,  \* the state the source believes to have been asked for last
          latest     \* the frame dispatched last

source == <<recorded, latest>>

\* A source is looked at from the restart or from the end of boot on.
Init == /\ recorded \in Frames \cup {NoFrame}
        /\ latest \in Frames \cup {NoFrame}

\* The end of boot: the state of the attributes counts as sent.
Declare == /\ recorded = NoFrame
           /\ recorded' \in Frames
           /\ UNCHANGED latest

Send == /\ recorded # NoFrame
        /\ recorded' \in Frames \ {recorded}
        /\ latest' = recorded'

Off == /\ latest' = OffFrame
       /\ UNCHANGED recorded

Restart == /\ recorded' = NoFrame
           /\ UNCHANGED latest

Next == Declare \/ Send \/ Off \/ Restart

Spec == Init /\ [][Next]_source
=============================================================================
