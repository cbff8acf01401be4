----------------------------- MODULE IndexSpec ------------------------------
(***************************************************************************)
(* What the index of appearances promises to those who read it, without    *)
(* saying how blockScrape builds it: a list of chunks that tiles the chain *)
(* from block zero and only ever grows at its end, and behind it the       *)
(* blocks that are staged, up to `top', which are published in order and   *)
(* never given up.                                                         *)
(***************************************************************************)
EXTENDS Integers, FiniteSetsExt

CONSTANT MaxBlock    \* the highest block of the instance

VARIABLES chunks,    \* the set of <<first, last>> of the finalized chunks
          top        \* every block up to this one is in a chunk or staged

vars == <<chunks, top>>

Final == Max({c[2] : c \in chunks})

Init == chunks = {} /\ top = 0

\* The chunk of block zero.
Genesis ==
    /\ chunks = {}
    /\ chunks' = {<<0, 0>>}
    /\ UNCHANGED top

\* Blocks join the stage.
Grow ==
    /\ chunks # {}
    /\ top' \in top + 1 .. MaxBlock
    /\ UNCHANGED chunks

\* The oldest staged blocks become the next chunk.
Publish ==
    /\ chunks # {}
    /\ \E last \in Final + 1 .. top : chunks' = chunks \cup {<<Final + 1, last>>}
    /\ UNCHANGED top

Next == Genesis \/ Grow \/ Publish

Spec == Init /\ [][Next]_vars
=============================================================================
