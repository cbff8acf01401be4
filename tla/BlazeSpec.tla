----------------------------- MODULE BlazeSpec ------------------------------
(***************************************************************************)
(* What blockScrape relies on when it runs blaze: the files of the blocks  *)
(* of its range appear in any order, each in its folder; if it returns     *)
(* zero they are all there, and whole.  BlockScrape is written on top of   *)
(* this (BlazeWrite, BlazeDone, BlazeFails).                               *)
(***************************************************************************)
CONSTANTS BlockRange,  \* startBlock .. startBlock + nBlocks - 1
          RipeBlocks   \* of which not after ripeBlock

VARIABLES ripe, unripe,   \* blocks whose file is complete
          torn,           \* blocks whose file has been created, and no more
          status          \* "running", "zero" or "nonzero"

vars == <<ripe, unripe, torn, status>>

Init == ripe = {} /\ unripe = {} /\ torn = {} /\ status = "running"

Create(b) ==
    /\ status = "running"
    /\ torn' = torn \cup {b}
    /\ UNCHANGED <<ripe, unripe, status>>

Write(b) ==
    /\ status = "running"
    /\ torn' = torn \ {b}
    /\ IF b \in RipeBlocks
       THEN ripe' = ripe \cup {b} /\ UNCHANGED unripe
       ELSE unripe' = unripe \cup {b} /\ UNCHANGED ripe
    /\ UNCHANGED status

Succeed ==
    /\ status = "running"
    /\ ripe \cup unripe = BlockRange /\ torn = {}
    /\ status' = "zero"
    /\ UNCHANGED <<ripe, unripe, torn>>

Fail ==
    /\ status = "running"
    /\ status' = "nonzero"
    /\ UNCHANGED <<ripe, unripe, torn>>

Next == (\E b \in BlockRange : Create(b) \/ Write(b)) \/ Succeed \/ Fail

Spec == Init /\ [][Next]_vars
=============================================================================
