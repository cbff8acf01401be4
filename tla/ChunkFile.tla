------------------------------ MODULE ChunkFile ------------------------------
(***************************************************************************)
(* The file of an index chunk and its bloom filters: writeIndexAsBinary    *)
(* turns the sorted lines of a chunk into a table of addresses (each with  *)
(* the offset and the number of its appearances), the appearances, and an  *)
(* array of bloom filters; visitBinaryFile asks the filters for an address *)
(* and, on a hit, finds it in the table with bsearch and takes its slice   *)
(* of the appearances.                                                     *)
(*                                                                         *)
(* An address is a number (lines are sorted as text and the table is       *)
(* searched by bytes; both orders are the order of the lower case          *)
(* hexadecimal digits), Bits gives the bits it lights in a filter.         *)
(***************************************************************************)
EXTENDS Integers, Sequences, FiniteSets

CONSTANTS Addrs,       \* addresses, positive numbers
          Apps,        \* appearances (a block and a transaction), numbers
          Bits,        \* Bits[a]: the bits of address a, K of them or fewer
          MAX_ADDRS_IN_BLOOM,
          NOTIFY       \* 12: how often the progress is to be shown

ChunkFileConstants ==
    /\ Addrs \subseteq Nat \ {0} /\ Apps \subseteq Nat
    /\ DOMAIN Bits = Addrs
    /\ MAX_ADDRS_IN_BLOOM \in Nat \ {0}
    /\ NOTIFY \in Nat \ {0}

VARIABLES
    lines,        \* the argument: sorted, no line twice
    pc, l,        \* l: the lines the loop is done with
    prev,         \* the address of the previous line, 0 before the first
    offset, cnt,
    table,        \* CIndexedAddress records, in file order
    blockTable,   \* CIndexedAppearance records, in file order
    blooms,       \* CBloomArray
    search,       \* the monitored address the reader looks for
    lo, hi,       \* what is left of the table to bsearch
    items         \* what the reader takes for the address's appearances

fileVars == <<lines, l, prev, offset, cnt, table, blockTable, blooms>>
readVars == <<search, lo, hi, items>>
vars == <<fileVars, pc, readVars>>

LineBefore(x, y) == x[1] < y[1] \/ (x[1] = y[1] /\ x[2] < y[2])

Sorted(S) ==
    [i \in 1..Cardinality(S) |->
       CHOOSE x \in S : Cardinality({y \in S : LineBefore(y, x)}) = i - 1]

\* write_chunks sorts the lines of the chunk and has at least one.
Init ==
    /\ \E S \in SUBSET (Addrs \X Apps) : S # {} /\ IsFiniteSet(S) /\ lines = Sorted(S)
    /\ pc = "write" /\ l = 0 /\ prev = 0 /\ offset = 0 /\ cnt = 0
    /\ table = <<>> /\ blockTable = <<>> /\ blooms = <<>>
    /\ search \in Addrs /\ lo = 0 /\ hi = 0 /\ items = <<>>

notifyCnt == Len(lines) \div NOTIFY

zeroBloom == [n |-> 0, bits |-> {}]

\* addToSet: the filter that is full is followed by an empty one.
addToSetEarly(bs, a) ==
    LET some == IF bs = <<>> THEN <<zeroBloom>> ELSE bs
        last == [n |-> some[Len(some)].n + 1,
                 bits |-> some[Len(some)].bits \cup Bits[a]]
    IN IF last.n > MAX_ADDRS_IN_BLOOM
       THEN Append(some, zeroBloom)
       ELSE [some EXCEPT ![Len(some)] = last]

addToSet(bs, a) ==
    LET some == IF bs = <<>> THEN <<zeroBloom>> ELSE bs
        last == [n |-> some[Len(some)].n + 1,
                 bits |-> some[Len(some)].bits \cup Bits[a]]
        lit  == [some EXCEPT ![Len(some)] = last]
    IN IF last.n > MAX_ADDRS_IN_BLOOM THEN Append(lit, zeroBloom) ELSE lit

isMember(bs, a) == \E i \in DOMAIN bs : Bits[a] \subseteq bs[i].bits

\* The record of an address is written when the next address is seen.
CloseAddress ==
    /\ blooms' = addToSet(blooms, prev)
    /\ table' = Append(table, [addr |-> prev, offset |-> offset, cnt |-> cnt])

\* A remainder by zero traps on some processors (below), on others it is a
\* number that is not zero and the line is treated as any other.
WriteLine ==
    /\ pc = "write" /\ l < Len(lines)
    /\ LET line == lines[l + 1] IN
       /\ blockTable' = Append(blockTable, line[2])
       /\ IF prev # 0 /\ line[1] # prev
          THEN CloseAddress /\ offset' = offset + cnt /\ cnt' = 1
          ELSE cnt' = cnt + 1 /\ UNCHANGED <<table, blooms, offset>>
       /\ prev' = line[1]
    /\ l' = l + 1
    /\ UNCHANGED <<lines, pc, readVars>>

Trap ==
    /\ pc = "write" /\ l < Len(lines)
    /\ notifyCnt = 0
    /\ pc' = "trap"
    /\ UNCHANGED <<fileVars, readVars>>

\* "The above algo always misses the last address, so we add it here"
WriteLast ==
    /\ pc = "write" /\ l = Len(lines)
    /\ CloseAddress
    /\ pc' = "written"
    /\ UNCHANGED <<lines, l, prev, offset, cnt, blockTable, readVars>>

AskBloom ==
    /\ pc = "written"
    /\ hi' = Len(table) /\ lo' = 0
    /\ pc' = IF isMember(blooms, search) THEN "bsearch" ELSE "end"
    /\ UNCHANGED <<fileVars, search, items>>

Middle == (lo + hi) \div 2

Slice(rec) == SubSeq(blockTable, rec.offset + 1, rec.offset + rec.cnt)

Probe ==
    /\ pc = "bsearch" /\ lo < hi
    /\ LET rec == table[Middle + 1] IN
       \/ /\ search < rec.addr
          /\ hi' = Middle /\ UNCHANGED <<lo, items, pc>>
       \/ /\ search > rec.addr
          /\ lo' = Middle + 1 /\ UNCHANGED <<hi, items, pc>>
       \/ /\ search = rec.addr
          /\ items' = Slice(rec) /\ pc' = "end" /\ UNCHANGED <<lo, hi>>
    /\ UNCHANGED <<fileVars, search>>

NotFound ==
    /\ pc = "bsearch" /\ lo = hi
    /\ pc' = "end"
    /\ UNCHANGED <<fileVars, readVars>>

Done == pc \in {"end", "trap"} /\ UNCHANGED vars

Next == WriteLine \/ Trap \/ WriteLast \/ AskBloom \/ Probe \/ NotFound \/ Done

Spec == Init /\ [][Next]_vars

-----------------------------------------------------------------------------
\* Every variable has its type: the counters stay within the lines.
TypeOK ==
    /\ pc \in {"write", "written", "bsearch", "end", "trap"}
    /\ l \in 0..Len(lines) /\ prev \in Addrs \cup {0}
    /\ offset \in 0..Len(lines) /\ cnt \in 0..Len(lines)
    /\ table \in Seq([addr : Addrs, offset : Nat, cnt : Nat])
    /\ blockTable \in Seq(Apps)
    /\ blooms \in Seq([n : 0..(MAX_ADDRS_IN_BLOOM + 1), bits : SUBSET UNION {Bits[a] : a \in Addrs}])
    /\ search \in Addrs /\ lo \in 0..Len(lines) /\ hi \in 0..Len(lines)
    /\ items \in Seq(Apps)

\* What writeIndexAsBinary wrote and visitBinaryFile reads together find for
\* every address exactly its appearances, in the order of the lines: the lines
\* of the address are those that follow some o, and the reader has what they
\* say.  No filter hides an address of the chunk, no record covers another's
\* appearances.
FindsExactly ==
    pc = "end" =>
      \E o \in 0..Len(lines) :
        /\ {i \in DOMAIN lines : lines[i][1] = search} = (o + 1)..(o + Len(items))
        /\ \A k \in DOMAIN items : items[k] = lines[o + k][2]

\* While the chunk is written, the records of the table tile the appearances
\* that were written, up to those of the address that is still open.
Tiles ==
    /\ \A i \in DOMAIN table :
         table[i].offset = IF i = 1 THEN 0 ELSE table[i - 1].offset + table[i - 1].cnt
    /\ pc = "write" => offset + cnt = Len(blockTable)

\* writeIndexAsBinary shows its progress NOTIFY times whatever the number of
\* lines: it does not divide by zero.
\* The code does not keep this: README, section 5.
NoTrap == pc # "trap"
=============================================================================
