--------------------------- MODULE MCBlockScrape ----------------------------
(* Instances of BlockScrape.  Blocks of one or two records, chunks of two   *)
(* or three, and a snap at block 4: passes end before, at and after a full  *)
(* chunk and a snap.                                                        *)
EXTENDS BlockScrape

MCWeight == [b \in Block |-> IF b \in {2, 5} THEN 2 ELSE 1]

\* Every block of one record: an ordinary consolidation never empties the stage.
MCOnes == [b \in Block |-> 1]
=============================================================================
