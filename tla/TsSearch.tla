------------------------------ MODULE TsSearch ------------------------------
(***************************************************************************)
(* findTimestamp_binarySearch and lookupDate: the block that occurred at   *)
(* or before a date.  The recursive calls are tail calls, so a search is a *)
(* run of steps on (first, last); every step asks the node for two blocks. *)
(***************************************************************************)
EXTENDS Integers

CONSTANTS Latest,    \* the last block the node has
          MaxTs,     \* bound: timestamps are 1..MaxTs
          MaxStop    \* bound: the stop of a year may be later than Latest

SearchConstants ==
    Latest \in Nat \ {0} /\ MaxTs \in Nat /\ MaxStop \in Nat /\ Latest <= MaxStop

Block == 1 .. Latest

VARIABLES
    ts,            \* the timestamps of the chain
    target,        \* block.timestamp: the date asked for
    first, last,   \* the parameters of the recursive call
    result         \* the block found: 0 none yet, -1 one the node does not have

vars == <<ts, target, first, last, result>>

\* A block the node does not have keeps the timestamp of a new CBlock.
TsOf(b) == IF b \in Block THEN ts[b] ELSE 0

\* Timestamps grow along the chain.
Increasing == \A b, c \in Block : b < c => ts[b] < ts[c]

\* lookupDate narrows the search to the year of the date: from the last block
\* before it to the last block in it, or to the latest block for the last year.
Window(start, stop) ==
    /\ start <= stop
    /\ ts[start] <= target
    /\ stop < Latest => target < ts[stop + 1]

Init ==
    /\ ts \in [Block -> 1 .. MaxTs]
    /\ Increasing
    /\ target \in 1 .. MaxTs
    /\ first \in Block
    /\ last \in Block \cup Latest .. MaxStop
    /\ Window(first, last)
    /\ result = 0

Mid == first + (last - first) \div 2

AtMid == TsOf(Mid) <= target
AtMid1 == TsOf(Mid + 1) <= target

Answer(b) ==
    /\ result' = IF b \in Block THEN b ELSE -1
    /\ UNCHANGED <<ts, target, first, last>>

Found ==
    /\ result = 0 /\ last > first
    /\ AtMid /\ ~ AtMid1
    /\ Answer(Mid)

\* Mutant: one block too many is given up.
SearchBelowMid ==
    /\ result = 0 /\ last > first
    /\ ~ AtMid
    /\ last' = Mid - 2
    /\ UNCHANGED <<ts, target, first, result>>

\* "we're too high, so search below"
SearchBelow ==
    /\ result = 0 /\ last > first
    /\ ~ AtMid
    /\ last' = Mid - 1
    /\ UNCHANGED <<ts, target, first, result>>

\* Mutant: mid stays in the range.
SearchAboveAgain ==
    /\ result = 0 /\ last > first
    /\ AtMid /\ AtMid1
    /\ first' = Mid
    /\ UNCHANGED <<ts, target, last, result>>

\* "we're too low, so search above"
SearchAbove ==
    /\ result = 0 /\ last > first
    /\ AtMid /\ AtMid1
    /\ first' = Mid + 1
    /\ UNCHANGED <<ts, target, last, result>>

OneLeft ==
    /\ result = 0 /\ last <= first
    /\ Answer(first)

Next == Found \/ SearchBelow \/ SearchAbove \/ OneLeft

Spec == Init /\ [][Next]_vars

FairSpec == Spec /\ WF_vars(Next)

-----------------------------------------------------------------------------
(* Properties *)

\* README of whenBlock: the answer is the block that occurred at or before the date.
AtOrBefore ==
    result # 0 =>
        /\ result \in Block
        /\ ts[result] <= target
        /\ result < Latest => target < ts[result + 1]

\* The range shrinks: every search comes to an answer.
SearchEnds == <>(result # 0)
=============================================================================
