------------------------- MODULE BlockScrape_proofs --------------------------
(***************************************************************************)
(* Proofs about modules BlockScrape and Chunking for every value of their  *)
(* constants.  Whatever happens to the scraper, being killed at any moment *)
(* included: type correctness, chunks have their bloom filters but for     *)
(* those that could not be opened, and only ripe blocks are indexed.  As   *)
(* long as it is stopped only by Ctrl-C's it counts (two at most) and by   *)
(* failures it sees: every block gets into the index exactly once.         *)
(* Without Ctrl-C's: chunks are cut where the chain alone says.  And       *)
(* write_chunks, record by record, cuts a stage where BlockScrape does,    *)
(* block by block.                                                         *)
(***************************************************************************)
EXTENDS BlockScrape, Chunking, TLAPS, WellFoundedInduction

-----------------------------------------------------------------------------
(* The operators of ChunkOps and BlockScrape *)

\* Block numbers and the names of the staging folder: tmp_fn is no block.
LEMMA NameFacts ==
    /\ 0 \in Block /\ Block \subseteq Nat /\ Block \subseteq StageName
    /\ TmpFn \in StageName /\ TmpFn \notin Block
    /\ \A n \in StageName : n # TmpFn => n \in Block
    /\ 0 \in 0 .. NBlocks /\ 0 \in 0 .. MaxFaults /\ << >> \in Seq(Block)
<1>1. /\ 0 \in Block /\ Block \subseteq Nat /\ Block \subseteq StageName
      /\ TmpFn \in StageName /\ TmpFn \notin Block
      /\ \A n \in StageName : n # TmpFn => n \in Block
  BY ChunkConstants DEF Block, StageName, TmpFn
<1>2. 0 \in 0 .. NBlocks /\ 0 \in 0 .. MaxFaults /\ << >> \in Seq(Block)
  BY ScrapeConstants
<1>3. QED
  BY <1>1, <1>2

\* A non-empty set of block numbers has a least element, the one Min picks: the
\* first ripe file of copyRipeToStage exists.
LEMMA MinExists ==
    ASSUME NEW S \in SUBSET Nat, S # {}
    PROVE  Min(S) \in S /\ \A y \in S : Min(S) <= y
<1>1. \E x \in S : \A y \in S : ~ (<<y, x>> \in OpToRel(<, Nat))
  BY NatLessThanWellFounded, WFMin, Zenon
<1>2. OpToRel(<, Nat) = {ss \in Nat \X Nat : ss[1] < ss[2]}
  BY Zenon DEF OpToRel
<1>3. \E x \in S : \A y \in S : ~ (<<y, x>> \in {ss \in Nat \X Nat : ss[1] < ss[2]})
  BY <1>1, <1>2, Zenon
<1>4. PICK x \in S : \A y \in S :
                ~ (<<y, x>> \in {ss \in Nat \X Nat : ss[1] < ss[2]})
  BY <1>3, Zenon
<1>5. \A y \in S : x <= y
  <2> SUFFICES ASSUME NEW y \in S, y < x PROVE FALSE
    OBVIOUS
  <2>1. <<y, x>> \in {ss \in Nat \X Nat : ss[1] < ss[2]}
    OBVIOUS
  <2>2. QED
    BY <1>4, <2>1, Zenon
<1>6. QED
  BY <1>5 DEF Min

\* A non-empty set of numbers with an upper bound has a greatest element, the one
\* Max picks: getLastFileInFolder finds a file.
LEMMA MaxExists ==
    ASSUME NEW S \in SUBSET Int, NEW m \in Int, S # {}, \A y \in S : y <= m
    PROVE  Max(S) \in S /\ \A y \in S : Max(S) >= y
<1> DEFINE T == {m - x : x \in S}
<1>1. T \in SUBSET Nat /\ T # {}
  <2>1. \A x \in S : m - x \in Nat
    OBVIOUS
  <2>2. QED
    BY <2>1, Zenon
<1>2. PICK x \in S : m - x = Min(T)
  BY <1>1, MinExists
<1>3. \A y \in S : x >= y
  <2> SUFFICES ASSUME NEW y \in S PROVE x >= y
    OBVIOUS
  <2>1. Min(T) <= m - y
    BY <1>1, MinExists
  <2>2. QED
    BY <2>1, <1>2
<1>4. QED
  BY <1>3 DEF Max

\* The same for the names of the staging folder and for blocks.
LEMMA MaxBlocks ==
    ASSUME NEW S \in SUBSET StageName, S # {}
    PROVE  Max(S) \in S /\ \A y \in S : Max(S) >= y
<1>1. MaxBlock \in Nat
  BY ChunkConstants
<1>2. S \in SUBSET Int /\ MaxBlock \in Int /\ \A y \in S : y <= MaxBlock
  BY <1>1 DEF StageName, TmpFn, Block
<1>3. QED
  BY <1>2, MaxExists

LEMMA MinBlocks ==
    ASSUME NEW S \in SUBSET Block, S # {}
    PROVE  Min(S) \in S /\ \A y \in S : Min(S) <= y
<1>1. S \in SUBSET Nat
  BY ChunkConstants DEF Block
<1>2. QED
  BY <1>1, MinExists

\* The last name of blooms/ exists when there is one.
LEMMA LastBloomExists ==
    ASSUME blooms \in SUBSET (Block \X Block), blooms # {}
    PROVE  /\ LastBloom \in blooms
           /\ \A q \in blooms : \/ q[1] < LastBloom[1]
                                \/ q[1] = LastBloom[1] /\ q[2] <= LastBloom[2]
<1> DEFINE F == {q[1] : q \in blooms}
           m == Max(F)
           L == {q[2] : q \in {r \in blooms : r[1] = m}}
<1>0. \A q \in blooms : /\ q[1] \in Block /\ q[2] \in Block
                        /\ q[1] \in Int /\ q[2] \in Int /\ q = <<q[1], q[2]>>
  BY ChunkConstants DEF Block
<1>1. F \in SUBSET StageName /\ F # {}
  BY <1>0, ZenonT(60) DEF StageName
<1>2. m \in F /\ \A y \in F : m >= y
  BY <1>1, MaxBlocks
<1>3. L \in SUBSET StageName /\ L # {}
  BY <1>0, <1>2, Zenon DEF StageName
<1>4. Max(L) \in L /\ \A y \in L : Max(L) >= y
  BY <1>3, MaxBlocks
<1>5. PICK r \in blooms : r[1] = m /\ r[2] = Max(L)
  BY <1>4, Zenon
<1>6. \A q \in blooms : q[1] < r[1] \/ (q[1] = r[1] /\ q[2] <= r[2])
  <2> SUFFICES ASSUME NEW q \in blooms
               PROVE  q[1] < r[1] \/ (q[1] = r[1] /\ q[2] <= r[2])
    OBVIOUS
  <2>1. q[1] \in F /\ (q[1] = m => q[2] \in L)
    BY Zenon
  <2>2. m >= q[1] /\ (q[1] = m => Max(L) >= q[2])
    BY <1>2, <1>4, <2>1
  <2> HIDE DEF F, m, L
  <2>3. QED
    BY <2>2, <1>5, <1>0
<1>7. QED
  BY <1>5, <1>6 DEF LastBloom

LEMMA LatestFinalType ==
    ASSUME blooms \in SUBSET (Block \X Block)
    PROVE  LatestFinal \in Block
<1>1. CASE blooms = {}
  BY <1>1, ChunkConstants DEF LatestFinal, Block
<1>2. CASE blooms # {}
  BY <1>2, LastBloomExists DEF LatestFinal
<1>3. QED
  BY <1>1, <1>2

LEMMA LatestStagingType ==
    ASSUME blooms \in SUBSET (Block \X Block), staging \in SUBSET StageName
    PROVE  LatestStaging \in Block
<1>1. CASE staging = {}
  BY <1>1, LatestFinalType DEF LatestStaging
<1>2. CASE staging # {}
  <2>1. Max(staging) \in StageName
    BY <1>2, MaxBlocks
  <2>2. BnFromPath(Max(staging)) \in Block
    BY <2>1, ChunkConstants DEF BnFromPath, StageName, Block
  <2>3. QED
    BY <2>2, <1>2 DEF LatestStaging
<1>3. QED
  BY <1>1, <1>2

LEMMA LatestRipeType ==
    ASSUME blooms \in SUBSET (Block \X Block), staging \in SUBSET StageName,
           ripe \in SUBSET Block
    PROVE  LatestRipe \in Block
<1>1. CASE ripe = {}
  BY <1>1, LatestStagingType DEF LatestRipe
<1>2. CASE ripe # {}
  <2>1. ripe \in SUBSET StageName
    BY DEF StageName
  <2>2. QED
    BY <1>2, <2>1, MaxBlocks DEF LatestRipe
<1>3. QED
  BY <1>1, <1>2

\* Where a non-empty stage is cut: at one of its blocks.
LEMMA BreakAtType ==
    ASSUME NEW s \in Seq(Block), s # << >>, NEW k
    PROVE  BreakAt(s, k) \in 1 .. Len(s)
<1>1. Len(s) \in 1 .. Len(s)
  OBVIOUS
<1>2. CASE \E i \in 1 .. Len(s) : IsBreak(s, k, i)
  BY <1>2, Zenon DEF BreakAt
<1>3. CASE ~ \E i \in 1 .. Len(s) : IsBreak(s, k, i)
  BY <1>1, <1>3, Zenon DEF BreakAt
<1>4. QED
  BY <1>2, <1>3

\* The first n blocks of a stage, and the others.
LEMMA SubSeqFacts ==
    ASSUME NEW S, NEW s \in Seq(S), NEW n \in 0 .. Len(s)
    PROVE  /\ SubSeq(s, 1, n) \in Seq(S)
           /\ Len(SubSeq(s, 1, n)) = n
           /\ \A i \in 1 .. n : SubSeq(s, 1, n)[i] = s[i]
           /\ SubSeq(s, n + 1, Len(s)) \in Seq(S)
           /\ Len(SubSeq(s, n + 1, Len(s))) = Len(s) - n
           /\ \A i \in 1 .. Len(s) - n : SubSeq(s, n + 1, Len(s))[i] = s[n + i]
  BY SMTT(40)

\* The chunk that is cut off a non-empty stage: its name is the first and the last
\* block it holds, which are blocks of the stage.
LEMMA ChunkFacts ==
    ASSUME content[newStage] \in Seq(Block), content[newStage] # << >>
    PROVE  LET s == content[newStage]
               c == Chunk(SubSeq(s, 1, Cut))
           IN  /\ Cut \in 1 .. Len(s)
               /\ c \in [first : Block, last : Block, blocks : Seq(Block)]
               /\ Name(c) = <<s[1], s[Cut]>>
               /\ c.blocks = SubSeq(s, 1, Cut)
<1> DEFINE s == content[newStage]
           t == SubSeq(s, 1, Cut)
<1>1. Cut \in 1 .. Len(s)
  BY BreakAtType DEF Cut
<1>2. t \in Seq(Block) /\ Len(t) = Cut /\ t[1] = s[1] /\ t[Cut] = s[Cut]
  BY <1>1, SubSeqFacts
<1>3. s[1] \in Block /\ s[Cut] \in Block
  BY <1>1
<1> HIDE DEF s, t
<1>4. Chunk(t) \in [first : Block, last : Block, blocks : Seq(Block)]
         /\ Name(Chunk(t)) = <<s[1], s[Cut]>> /\ Chunk(t).blocks = t
  BY <1>2, <1>3 DEF Chunk, Name
<1>5. QED
  BY <1>1, <1>4 DEF s, t

-----------------------------------------------------------------------------
(* Runs of blocks *)

\* The run of n blocks from a on.
LEMMA RunType ==
    ASSUME NEW a \in Nat, NEW b \in Block, NEW n \in Nat, n = b - a + 1
    PROVE  /\ Run(a, b) \in Seq(Block)
           /\ Len(Run(a, b)) = n
           /\ \A i \in 1 .. n : Run(a, b)[i] = a + i - 1
<1>1. b \in Nat /\ b <= MaxBlock /\ MaxBlock \in Nat
  BY ChunkConstants DEF Block
<1>2. 1 .. (b - a + 1) = 1 .. n
  OBVIOUS
<1>3. \A i \in 1 .. n : a + i - 1 \in Block
  BY <1>1, ChunkConstants DEF Block
<1>4. Run(a, b) = [i \in 1 .. n |-> a + i - 1]
  BY <1>2 DEF Run
<1>5. QED
  BY <1>3, <1>4

LEMMA RunEmpty ==
    ASSUME NEW a \in Nat, NEW b \in Block, b < a
    PROVE  Run(a, b) = << >>
<1>1. b \in Nat
  BY NameFacts
<1>2. 1 .. (b - a + 1) = 1 .. 0
  BY <1>1
<1>3. Run(a, b) = [i \in 1 .. 0 |-> a + i - 1]
  BY <1>2 DEF Run
<1>4. QED
  BY <1>3

\* Two sequences of the same length and the same elements are equal.
LEMMA SeqEqual ==
    ASSUME NEW S, NEW s \in Seq(S), NEW t \in Seq(S), Len(s) = Len(t),
           \A i \in 1 .. Len(s) : s[i] = t[i]
    PROVE  s = t
  OBVIOUS

\* copyRipeToStage: the next block extends the run.
LEMMA RunAppend ==
    ASSUME NEW a \in Nat, NEW b \in Block, b + 1 \in Block, a <= b + 1
    PROVE  Append(Run(a, b), b + 1) = Run(a, b + 1)
<1> DEFINE s == Append(Run(a, b), b + 1)
           t == Run(a, b + 1)
<1>1. b \in Nat
  BY NameFacts
<1> DEFINE n == b + 1 - a
<1>a. n \in Nat /\ n = b - a + 1 /\ n + 1 \in Nat /\ n + 1 = (b + 1) - a + 1
  BY <1>1
<1> HIDE DEF n
<1>2. Run(a, b) \in Seq(Block) /\ Len(Run(a, b)) = n
         /\ \A i \in 1 .. n : Run(a, b)[i] = a + i - 1
  BY <1>a, RunType
<1>3. t \in Seq(Block) /\ Len(t) = n + 1
         /\ \A i \in 1 .. n + 1 : t[i] = a + i - 1
  BY <1>a, RunType
<1> HIDE DEF t
<1>4. s \in Seq(Block) /\ Len(s) = n + 1
  BY <1>a, <1>2
<1>5. \A i \in 1 .. n + 1 : s[i] = a + i - 1
  BY <1>1, <1>a, <1>2
<1> HIDE DEF s
<1>6. s = t
  BY <1>3, <1>4, <1>5, SeqEqual
<1>7. QED
  BY <1>6 DEF s, t

\* write_chunks: cutting k blocks off a run leaves two runs.
LEMMA RunCut ==
    ASSUME NEW a \in Nat, NEW b \in Block, NEW k \in 1 .. Len(Run(a, b))
    PROVE  /\ a <= b /\ k <= b - a + 1 /\ a + k - 1 \in Block
           /\ Run(a, b)[1] = a /\ Run(a, b)[k] = a + k - 1
           /\ SubSeq(Run(a, b), 1, k) = Run(a, a + k - 1)
           /\ SubSeq(Run(a, b), k + 1, Len(Run(a, b))) = Run(a + k, b)
<1> DEFINE r == Run(a, b)
<1>2. b \in Nat
  BY NameFacts
<1>a. a <= b
  <2>1. SUFFICES ASSUME b < a PROVE FALSE
    BY <1>2
  <2>2. r = << >>
    BY <2>1, RunEmpty
  <2>3. QED
    BY <2>2
<1>b. b - a + 1 \in Nat
  BY <1>2, <1>a
<1>1. r \in Seq(Block) /\ Len(r) = b - a + 1
         /\ \A i \in 1 .. b - a + 1 : r[i] = a + i - 1
  BY <1>b, RunType
<1> HIDE DEF r
<1>3. a <= b /\ Len(r) = b - a + 1 /\ k \in 1 .. b - a + 1
  BY <1>1, <1>a DEF r
<1>4. a + k - 1 \in Block
  BY <1>2, <1>3, ChunkConstants DEF Block
<1>5. r[1] = a /\ r[k] = a + k - 1
  BY <1>1, <1>2, <1>3
<1>6. SubSeq(r, 1, k) = Run(a, a + k - 1)
  <2> DEFINE s == SubSeq(r, 1, k)
             t == Run(a, a + k - 1)
  <2>1. s \in Seq(Block) /\ Len(s) = k /\ \A i \in 1 .. k : s[i] = r[i]
    BY <1>1, <1>2, <1>3, SubSeqFacts
  <2>2. t \in Seq(Block) /\ Len(t) = k /\ \A i \in 1 .. k : t[i] = a + i - 1
    <3>1. k \in Nat /\ k = (a + k - 1) - a + 1
      BY <1>2, <1>3
    <3>2. QED
      BY <1>4, <3>1, RunType
  <2>3. \A i \in 1 .. k : s[i] = t[i]
    BY <1>1, <1>2, <1>3, <2>1, <2>2
  <2> HIDE DEF s, t
  <2>4. s = t
    BY <2>1, <2>2, <2>3, SeqEqual
  <2>5. QED
    BY <2>4 DEF s, t
<1>7. SubSeq(r, k + 1, Len(r)) = Run(a + k, b)
  <2> DEFINE s == SubSeq(r, k + 1, Len(r))
             t == Run(a + k, b)
             n == b - a + 1 - k
  <2>1. s \in Seq(Block) /\ Len(s) = n /\ \A i \in 1 .. n : s[i] = r[k + i]
    BY <1>1, <1>2, <1>3, SubSeqFacts
  <2>2. t \in Seq(Block) /\ Len(t) = n /\ \A i \in 1 .. n : t[i] = (a + k) + i - 1
    <3>1. n \in Nat /\ n = b - (a + k) + 1 /\ a + k \in Nat
      BY <1>2, <1>3
    <3> HIDE DEF n
    <3>2. QED
      BY <3>1, RunType
  <2>3. \A i \in 1 .. n : r[k + i] = (a + k) + i - 1
    BY <1>1, <1>2, <1>3
  <2> HIDE DEF s, t
  <2>4. Len(s) = Len(t) /\ \A i \in 1 .. Len(s) : s[i] = t[i]
    BY <2>1, <2>2, <2>3
  <2>5. s = t
    BY <2>1, <2>2, <2>4, SeqEqual
  <2>6. QED
    BY <2>5 DEF s, t
<1>8. QED
  BY <1>3, <1>4, <1>5, <1>6, <1>7 DEF r

-----------------------------------------------------------------------------
(* The end of the finalized index *)

ChunkSet == [first : Block, last : Block, blocks : Seq(Block)]

\* The last block of a set of chunks, as FinalBlock computes it.
EndOf(S) == IF S = {} THEN 0 ELSE Max({c.last : c \in S})

LEMMA EndOfFacts ==
    ASSUME NEW S \in SUBSET ChunkSet
    PROVE  /\ EndOf(S) \in Block
           /\ \A c \in S : c.last <= EndOf(S)
           /\ S # {} => \E c \in S : c.last = EndOf(S)
<1>1. CASE S = {}
  BY <1>1, NameFacts DEF EndOf
<1>2. CASE S # {}
  <2> DEFINE L == {c.last : c \in S}
  <2>1. \A c \in S : c.last \in Block
    BY DEF ChunkSet
  <2>2. L \in SUBSET StageName /\ L \in SUBSET Block /\ L # {}
    BY <1>2, <2>1, NameFacts, Zenon
  <2>3. Max(L) \in L /\ \A y \in L : Max(L) >= y
    BY <2>2, MaxBlocks
  <2>4. EndOf(S) = Max(L)
    BY <1>2 DEF EndOf
  <2>5. \A c \in S : c.last \in L
    OBVIOUS
  <2>6. \E c \in S : c.last = Max(L)
    BY <2>3, Zenon
  <2>7. L \subseteq Nat
    BY <2>2, NameFacts
  <2> HIDE DEF L
  <2>8. QED
    BY <1>2, <2>2, <2>3, <2>4, <2>5, <2>6, <2>7
<1>3. QED
  BY <1>1, <1>2

LEMMA FinalBlockFacts ==
    ASSUME finalized \in SUBSET ChunkSet
    PROVE  /\ FinalBlock \in Block
           /\ \A c \in finalized : c.last <= FinalBlock
           /\ finalized # {} => \E c \in finalized : c.last = FinalBlock
<1>1. FinalBlock = EndOf(finalized)
  BY DEF FinalBlock, EndOf
<1>2. QED
  BY <1>1, EndOfFacts

-----------------------------------------------------------------------------
(* Type correctness *)

\* What type correctness rests on besides TypeOK: tmp_fn or a stage file is there
\* for stage_chunks to find, newStage is there once temp.txt was renamed to it,
\* and write_chunks is past its test for an empty stage.
StageThere ==
    /\ pc \in {"ready", "blaze"} /\ tmpOpen => staging # {}
    /\ pc \in {"copy", "stage"} => staging # {}
    /\ pc = "staged" /\ snapping => staging # {}
    /\ pc = "drop" => newStage \in staging
    /\ pc \in {"bin", "unstage"} => content[newStage] # << >>

TypeInv == TypeOK /\ StageThere

LEMMA TypeInit == Init => TypeInv
<1> SUFFICES ASSUME Init PROVE TypeInv
  OBVIOUS
<1> USE NameFacts DEF Init
<1>1. EnvOK /\ ProcessOK
  BY SMTT(40) DEF EnvOK, ProcessOK, Labels
<1>2. LocalsOK
  BY DEF LocalsOK
<1>3. IndexOK /\ StageOK /\ BlazeOK
  BY DEF IndexOK, StageOK, BlazeOK
<1>4. StageThere
  BY DEF StageThere
<1>5. QED
  BY <1>1, <1>2, <1>3, <1>4 DEF TypeInv, TypeOK

\* What a step does not touch keeps its type, and so do the parts that the shared
\* endings of a pass set.
LEMMA Keeps ==
    ASSUME TypeOK
    PROVE  /\ UNCHANGED env => EnvOK'
           /\ \A k : Fault(k) => EnvOK'
           /\ UNCHANGED locals => LocalsOK'
           /\ Forget => LocalsOK'
           /\ UNCHANGED index => IndexOK'
           /\ UNCHANGED stage => StageOK'
           /\ RemoveTmpFn /\ UNCHANGED tmpFile => StageOK'
           /\ UNCHANGED blaze => BlazeOK'
           /\ UNCHANGED quit /\ pc' \in Labels => ProcessOK'
<1> USE NameFacts DEF TypeOK
<1>1. UNCHANGED env => EnvOK'
  BY DEF EnvOK, env
<1>2. \A k : Fault(k) => EnvOK'
  BY ScrapeConstants DEF EnvOK, Fault, Happens
<1>3. UNCHANGED locals => LocalsOK'
  BY DEF LocalsOK, locals, range
<1>4. Forget => LocalsOK'
  BY DEF LocalsOK, Forget
<1>5. UNCHANGED index => IndexOK'
  BY DEF IndexOK, index
<1>6. UNCHANGED stage => StageOK'
  BY DEF StageOK, stage
<1>7. RemoveTmpFn /\ UNCHANGED tmpFile => StageOK'
  BY DEF StageOK, RemoveTmpFn
<1>8. UNCHANGED blaze => BlazeOK'
  BY DEF BlazeOK, blaze
<1>9. UNCHANGED quit /\ pc' \in Labels => ProcessOK'
  BY DEF ProcessOK
<1>10. QED
  BY <1>1, <1>2, <1>3, <1>4, <1>5, <1>6, <1>7, <1>8, <1>9

\* The range that a pass gives to blaze lies on the chain.
LEMMA StartPassType ==
    ASSUME TypeOK, NEW opened \in BOOLEAN, StartPass(opened)
    PROVE  LocalsOK'
<1> USE NameFacts DEF TypeOK
<1> DEFINE first == Max({LatestRipe, LatestStaging, LatestFinal}) + 1
<1>1. CASE first > client
  BY <1>1, Keeps DEF StartPass, EndPass
<1>2. CASE ~ (first > client)
  <2>1. LatestStaging \in Block /\ LatestFinal \in Block /\ LatestRipe \in Block
    BY LatestFinalType, LatestStagingType, LatestRipeType
    DEF IndexOK, StageOK, BlazeOK
  <2>2. Max({LatestRipe, LatestStaging, LatestFinal}) \in Block
    BY <2>1, MaxBlocks
  <2>3. first \in Nat /\ client \in Nat /\ client <= MaxBlock /\ first <= client
    BY <2>2, <1>2, ChunkConstants DEF EnvOK, Block
  <2>4. first \in Block
    BY <2>3, ChunkConstants DEF Block
  <2>5. (IF first + NBlocks > client THEN client - first ELSE NBlocks)
           \in 0 .. NBlocks
    BY <2>3, ScrapeConstants
  <2>6. RipeBlock \in Block
    BY <2>3, ChunkConstants, ScrapeConstants DEF Block, RipeBlock
  <2> HIDE DEF first
  <2>7. QED
    BY <1>2, <2>1, <2>4, <2>5, <2>6 DEF StartPass, LocalsOK, first
<1>3. QED
  BY <1>1, <1>2

LEMMA TypeNext == TypeInv /\ [Next]_vars => TypeInv'
<1> SUFFICES ASSUME TypeInv, [Next]_vars PROVE TypeInv'
  OBVIOUS
<1>0. TypeOK /\ StageThere
  BY DEF TypeInv
<1> USE <1>0, NameFacts DEF TypeOK
<1>1. CASE StartFirst
  <2>1. EnvOK' /\ LocalsOK' /\ StageOK' /\ BlazeOK'
    BY <1>1, Keeps DEF StartFirst, Goto, env, locals, range, index, stage, blaze
  <2>2. ProcessOK'
    BY <1>1 DEF StartFirst, Goto, ProcessOK, Labels
  <2>3. IndexOK'
    BY <1>1 DEF StartFirst, Goto, IndexOK, index
  <2>4. StageThere'
    BY <1>1 DEF StartFirst, Goto, StageThere, StageOK, LocalsOK, locals, range, stage
  <2>5. QED
    BY <2>1, <2>2, <2>3, <2>4 DEF TypeInv, TypeOK
<1>2. CASE StartZero
  <2>1. EnvOK' /\ LocalsOK' /\ StageOK'
    BY <1>2, Keeps
    DEF StartZero, CleanOnStart, Goto, env, locals, range, index, stage, blaze
  <2>2. ProcessOK'
    BY <1>2 DEF StartZero, CleanOnStart, Goto, ProcessOK, Labels
  <2>3. IndexOK'
    <3>1. Chunk(<<0>>) \in [first : Block, last : Block, blocks : Seq(Block)]
      BY DEF Chunk
    <3>2. QED
      BY <1>2, <3>1 DEF StartZero, CleanOnStart, IndexOK
  <2>4. BlazeOK'
    BY <1>2 DEF StartZero, CleanOnStart, Goto, BlazeOK, blaze
  <2>5. StageThere'
    BY <1>2
    DEF StartZero, CleanOnStart, Goto, StageThere, StageOK, LocalsOK, locals, range,
        stage
  <2>6. QED
    BY <2>1, <2>2, <2>3, <2>4, <2>5 DEF TypeInv, TypeOK
<1>3. CASE Start
  <2>1. EnvOK' /\ LocalsOK' /\ IndexOK' /\ StageOK'
    BY <1>3, Keeps
    DEF Start, CleanOnStart, Goto, env, locals, range, index, stage, blaze
  <2>2. ProcessOK'
    BY <1>3 DEF Start, CleanOnStart, Goto, ProcessOK, Labels
  <2>3. BlazeOK'
    BY <1>3 DEF Start, CleanOnStart, Goto, BlazeOK, blaze
  <2>4. StageThere'
    BY <1>3
    DEF Start, CleanOnStart, Goto, StageThere, StageOK, LocalsOK, locals, range, stage
  <2>5. QED
    BY <2>1, <2>2, <2>3, <2>4 DEF TypeInv, TypeOK
<1>4. CASE LoopExit
  <2>1. EnvOK' /\ LocalsOK' /\ IndexOK' /\ StageOK' /\ BlazeOK'
    BY <1>4, Keeps DEF LoopExit, Terminate, env, locals, range, index, stage, blaze
  <2>2. ProcessOK'
    BY <1>4 DEF LoopExit, Terminate, ProcessOK, Labels
  <2>3. StageThere'
    BY <1>4 DEF LoopExit, Terminate, StageThere, StageOK, LocalsOK, locals, range, stage
  <2>4. QED
    BY <2>1, <2>2, <2>3 DEF TypeInv, TypeOK
<1>5. CASE BeginPass
  <2>1. EnvOK' /\ IndexOK' /\ BlazeOK'
    BY <1>5, Keeps DEF BeginPass, StartPass, env, index, blaze
  <2>2. ProcessOK'
    BY <1>5 DEF BeginPass, StartPass, EndPass, ProcessOK, Labels
  <2>3. LocalsOK'
    BY <1>5, StartPassType DEF BeginPass
  <2>4. StageOK'
    BY <1>5 DEF BeginPass, StartPass, StageOK
  <2>5. StageThere'
    BY <1>5 DEF BeginPass, StartPass, EndPass, StageThere
  <2>6. QED
    BY <2>1, <2>2, <2>3, <2>4, <2>5 DEF TypeInv, TypeOK
<1>6. CASE BeginUnopened
  <2>1. EnvOK' /\ IndexOK' /\ StageOK' /\ BlazeOK'
    BY <1>6, Keeps DEF BeginUnopened, StartPass, index, stage, blaze
  <2>2. ProcessOK'
    BY <1>6 DEF BeginUnopened, StartPass, EndPass, ProcessOK, Labels
  <2>3. LocalsOK'
    BY <1>6, StartPassType DEF BeginUnopened
  <2>4. StageThere'
    BY <1>6 DEF BeginUnopened, StartPass, EndPass, StageThere
  <2>5. QED
    BY <2>1, <2>2, <2>3, <2>4 DEF TypeInv, TypeOK
<1>7. CASE QuitBeforeBlaze
  <2>1. EnvOK' /\ LocalsOK' /\ IndexOK' /\ StageOK' /\ BlazeOK'
    BY <1>7, Keeps DEF QuitBeforeBlaze, EndPass, env, locals, range, index, stage, blaze
  <2>2. ProcessOK'
    BY <1>7 DEF QuitBeforeBlaze, EndPass, ProcessOK, Labels
  <2>3. StageThere'
    BY <1>7
    DEF QuitBeforeBlaze, EndPass, StageThere, StageOK, LocalsOK, locals, range, stage
  <2>4. QED
    BY <2>1, <2>2, <2>3 DEF TypeInv, TypeOK
<1>8. CASE RunBlaze
  <2>1. EnvOK' /\ LocalsOK' /\ IndexOK' /\ StageOK' /\ BlazeOK'
    BY <1>8, Keeps DEF RunBlaze, Goto, env, locals, range, index, stage, blaze
  <2>2. ProcessOK'
    BY <1>8 DEF RunBlaze, Goto, ProcessOK, Labels
  <2>3. StageThere'
    BY <1>8 DEF RunBlaze, Goto, StageThere, StageOK, LocalsOK, locals, range, stage
  <2>4. QED
    BY <2>1, <2>2, <2>3 DEF TypeInv, TypeOK
<1>9. ASSUME NEW b \in Block, BlazeWrite(b) PROVE TypeInv'
  <2>1. EnvOK' /\ LocalsOK' /\ IndexOK' /\ StageOK'
    BY <1>9, Keeps DEF BlazeWrite, env, locals, range, index, stage, blaze
  <2>2. ProcessOK'
    BY <1>9 DEF BlazeWrite, ProcessOK, Labels
  <2>3. BlazeOK'
    BY <1>9 DEF BlazeWrite, BlazeOK, blaze
  <2>4. StageThere'
    BY <1>9 DEF BlazeWrite, StageThere, StageOK, LocalsOK, locals, range, stage
  <2>5. QED
    BY <2>1, <2>2, <2>3, <2>4 DEF TypeInv, TypeOK
<1>10. CASE BlazeDone
  <2>1. EnvOK' /\ LocalsOK' /\ IndexOK' /\ StageOK' /\ BlazeOK'
    BY <1>10, Keeps
    DEF BlazeDone, Goto, EndPass, env, locals, range, index, stage, blaze
  <2>2. ProcessOK'
    BY <1>10 DEF BlazeDone, Goto, EndPass, ProcessOK, Labels
  <2>3. StageThere'
    BY <1>10
    DEF BlazeDone, Goto, EndPass, StageThere, StageOK, LocalsOK, locals, range, stage
  <2>4. QED
    BY <2>1, <2>2, <2>3 DEF TypeInv, TypeOK
<1>11. CASE BlazeFail
  <2>1. EnvOK' /\ LocalsOK' /\ IndexOK' /\ StageOK'
    BY <1>11, Keeps
    DEF BlazeFail, Terminate, EndPass, Fault, Happens, env, locals, range, index, stage, blaze
  <2>2. ProcessOK'
    BY <1>11 DEF BlazeFail, Terminate, EndPass, Fault, Happens, ProcessOK, Labels
  <2>3. BlazeOK'
    BY <1>11 DEF BlazeFail, Terminate, EndPass, Fault, Happens, BlazeOK, blaze
  <2>4. StageThere'
    BY <1>11
    DEF BlazeFail, Terminate, EndPass, Fault, Happens, StageThere, StageOK, LocalsOK, locals,
        range, stage
  <2>5. QED
    BY <2>1, <2>2, <2>3, <2>4 DEF TypeInv, TypeOK
<1>12. CASE CopyRipe
  <2>0. Min(ripe) \in Block
    BY <1>12, MinBlocks DEF CopyRipe, BlazeOK
  <2>1. EnvOK' /\ IndexOK'
    BY <1>12, Keeps DEF CopyRipe, env, locals, range, index, stage, blaze
  <2>2. ProcessOK'
    BY <1>12 DEF CopyRipe, ProcessOK, Labels
  <2>3. LocalsOK'
    BY <1>12, <2>0 DEF CopyRipe, LocalsOK, range
  <2>4. StageOK'
    <3>1. Append(content[TmpFn], Min(ripe)) \in Seq(Block)
      BY <2>0 DEF StageOK
    <3>2. QED
      BY <1>12, <3>1 DEF CopyRipe, StageOK
  <2>5. BlazeOK'
    BY <1>12 DEF CopyRipe, BlazeOK, blaze
  <2>6. StageThere'
    BY <1>12 DEF CopyRipe, StageThere, StageOK, LocalsOK, locals, range, stage
  <2>7. QED
    BY <2>1, <2>2, <2>3, <2>4, <2>5, <2>6 DEF TypeInv, TypeOK
<1>13. CASE CopyOutOfSequence
  <2>1. EnvOK' /\ LocalsOK' /\ IndexOK' /\ StageOK' /\ BlazeOK'
    BY <1>13, Keeps DEF CopyOutOfSequence, Goto, env, locals, range, index, stage, blaze
  <2>2. ProcessOK'
    BY <1>13 DEF CopyOutOfSequence, Goto, ProcessOK, Labels
  <2>3. StageThere'
    BY <1>13
    DEF CopyOutOfSequence, Goto, StageThere, StageOK, LocalsOK, locals, range, stage
  <2>4. QED
    BY <2>1, <2>2, <2>3 DEF TypeInv, TypeOK
<1>14. CASE CopyFail
  <2>1. EnvOK' /\ LocalsOK' /\ IndexOK' /\ StageOK' /\ BlazeOK'
    BY <1>14, Keeps DEF CopyFail, Goto, env, locals, range, index, stage, blaze
  <2>2. ProcessOK'
    BY <1>14 DEF CopyFail, Goto, ProcessOK, Labels
  <2>3. StageThere'
    BY <1>14 DEF CopyFail, Goto, StageThere, StageOK, LocalsOK, locals, range, stage
  <2>4. QED
    BY <2>1, <2>2, <2>3 DEF TypeInv, TypeOK
<1>15. CASE CopyDone
  <2>1. EnvOK' /\ IndexOK' /\ StageOK' /\ BlazeOK'
    BY <1>15, Keeps DEF CopyDone, env, locals, range, index, stage, blaze
  <2>2. ProcessOK'
    BY <1>15 DEF CopyDone, ProcessOK, Labels
  <2>3. LocalsOK'
    BY <1>15 DEF CopyDone, LocalsOK, locals, range
  <2>4. StageThere'
    BY <1>15 DEF CopyDone, StageThere, StageOK, LocalsOK, locals, range, stage
  <2>5. QED
    BY <2>1, <2>2, <2>3, <2>4 DEF TypeInv, TypeOK
<1>16. CASE Cleanup
  <2>1. EnvOK' /\ LocalsOK' /\ IndexOK' /\ StageOK'
    BY <1>16, Keeps DEF Cleanup, EndPass, env, locals, range, index, stage, blaze
  <2>2. ProcessOK'
    BY <1>16 DEF Cleanup, EndPass, ProcessOK, Labels
  <2>3. BlazeOK'
    BY <1>16 DEF Cleanup, EndPass, BlazeOK, blaze
  <2>4. StageThere'
    BY <1>16 DEF Cleanup, EndPass, StageThere, StageOK, LocalsOK, locals, range, stage
  <2>5. QED
    BY <2>1, <2>2, <2>3, <2>4 DEF TypeInv, TypeOK
<1>17. CASE StageSame
  <2>1. EnvOK' /\ IndexOK' /\ StageOK' /\ BlazeOK'
    BY <1>17, Keeps DEF StageSame, env, locals, range, index, stage, blaze
  <2>2. ProcessOK'
    BY <1>17 DEF StageSame, ProcessOK, Labels
  <2>3. LocalsOK'
    BY <1>17 DEF StageSame, LocalsOK, locals, range
  <2>4. StageThere'
    BY <1>17 DEF StageSame, StageThere, StageOK, LocalsOK, locals, range, stage
  <2>5. QED
    BY <2>1, <2>2, <2>3, <2>4 DEF TypeInv, TypeOK
<1>18. CASE StageAppendOld
  <2>0. Max(staging) \in StageName
    BY <1>18, MaxBlocks DEF StageAppendOld, StageOK, StageThere
  <2>1. EnvOK' /\ IndexOK' /\ BlazeOK'
    BY <1>18, Keeps DEF StageAppendOld, env, locals, range, index, stage, blaze
  <2>2. ProcessOK'
    BY <1>18 DEF StageAppendOld, ProcessOK, Labels
  <2>3. LocalsOK'
    BY <1>18, <2>0 DEF StageAppendOld, LocalsOK, range
  <2>4. StageOK'
    <3>1. content[Max(staging)] \in Seq(Block) /\ tmpFile \in Seq(Block)
      BY <2>0 DEF StageOK
    <3>2. tmpFile \o content[Max(staging)] \in Seq(Block)
      BY <3>1
    <3>3. QED
      BY <1>18, <3>2 DEF StageAppendOld, StageOK
  <2>5. StageThere'
    BY <1>18 DEF StageAppendOld, StageThere, StageOK, LocalsOK, locals, range, stage
  <2>6. QED
    BY <2>1, <2>2, <2>3, <2>4, <2>5 DEF TypeInv, TypeOK
<1>19. CASE StageFailOld
  <2>0. Max(staging) \in StageName
    BY <1>19, MaxBlocks DEF StageFailOld, StageOK, StageThere
  <2>1. EnvOK' /\ IndexOK' /\ StageOK' /\ BlazeOK'
    BY <1>19, Keeps DEF StageFailOld, env, locals, range, index, stage, blaze
  <2>2. ProcessOK'
    BY <1>19 DEF StageFailOld, ProcessOK, Labels
  <2>3. LocalsOK'
    BY <1>19, <2>0 DEF StageFailOld, LocalsOK, range
  <2>4. StageThere'
    BY <1>19 DEF StageFailOld, StageThere, StageOK, LocalsOK, locals, range, stage
  <2>5. QED
    BY <2>1, <2>2, <2>3, <2>4 DEF TypeInv, TypeOK
<1>20. CASE StageAppendNew
  <2>1. EnvOK' /\ LocalsOK' /\ IndexOK' /\ BlazeOK'
    BY <1>20, Keeps DEF StageAppendNew, Goto, env, locals, range, index, stage, blaze
  <2>2. ProcessOK'
    BY <1>20 DEF StageAppendNew, Goto, ProcessOK, Labels
  <2>3. StageOK'
    BY <1>20 DEF StageAppendNew, Goto, StageOK, stage
  <2>4. StageThere'
    BY <1>20
    DEF StageAppendNew, Goto, StageThere, StageOK, LocalsOK, locals, range, stage
  <2>5. QED
    BY <2>1, <2>2, <2>3, <2>4 DEF TypeInv, TypeOK
<1>21. CASE StageFailNew
  <2>1. EnvOK' /\ LocalsOK' /\ IndexOK' /\ BlazeOK'
    BY <1>21, Keeps DEF StageFailNew, Goto, env, locals, range, index, stage, blaze
  <2>2. ProcessOK'
    BY <1>21 DEF StageFailNew, Goto, ProcessOK, Labels
  <2>3. StageOK'
    BY <1>21 DEF StageFailNew, Goto, StageOK, stage
  <2>4. StageThere'
    BY <1>21 DEF StageFailNew, Goto, StageThere, StageOK, LocalsOK, locals, range, stage
  <2>5. QED
    BY <2>1, <2>2, <2>3, <2>4 DEF TypeInv, TypeOK
<1>22. CASE StageRename
  <2>1. EnvOK' /\ LocalsOK' /\ IndexOK' /\ BlazeOK'
    BY <1>22, Keeps DEF StageRename, Goto, env, locals, range, index, stage, blaze
  <2>2. ProcessOK'
    BY <1>22 DEF StageRename, Goto, ProcessOK, Labels
  <2>3. StageOK'
    <3>1. newStage \in StageName
      BY DEF LocalsOK
    <3>2. QED
      BY <1>22, <3>1 DEF StageRename, StageOK
  <2>4. StageThere'
    BY <1>22 DEF StageRename, Goto, StageThere, StageOK, LocalsOK, locals, range, stage
  <2>5. QED
    BY <2>1, <2>2, <2>3, <2>4 DEF TypeInv, TypeOK
<1>23. CASE StageDrop
  <2>1. EnvOK' /\ LocalsOK' /\ IndexOK' /\ BlazeOK'
    BY <1>23, Keeps DEF StageDrop, Goto, env, locals, range, index, stage, blaze
  <2>2. ProcessOK'
    BY <1>23 DEF StageDrop, Goto, ProcessOK, Labels
  <2>3. StageOK'
    BY <1>23 DEF StageDrop, Goto, StageOK, stage
  <2>4. StageThere'
    BY <1>23 DEF StageDrop, Goto, StageThere, StageOK, LocalsOK, locals, range, stage
  <2>5. QED
    BY <2>1, <2>2, <2>3, <2>4 DEF TypeInv, TypeOK
<1>24. CASE StageFailed
  <2>1. EnvOK' /\ LocalsOK' /\ IndexOK' /\ StageOK'
    BY <1>24, Keeps DEF StageFailed, Goto, env, locals, range, index, stage, blaze
  <2>2. ProcessOK'
    BY <1>24 DEF StageFailed, Goto, ProcessOK, Labels
  <2>3. BlazeOK'
    BY <1>24 DEF StageFailed, Goto, BlazeOK, blaze
  <2>4. StageThere'
    BY <1>24 DEF StageFailed, Goto, StageThere, StageOK, LocalsOK, locals, range, stage
  <2>5. QED
    BY <2>1, <2>2, <2>3, <2>4 DEF TypeInv, TypeOK
<1>25. CASE SnapQuit
  <2>1. EnvOK' /\ LocalsOK' /\ IndexOK' /\ StageOK' /\ BlazeOK'
    BY <1>25, Keeps DEF SnapQuit, Goto, env, locals, range, index, stage, blaze
  <2>2. ProcessOK'
    BY <1>25 DEF SnapQuit, Goto, ProcessOK, Labels
  <2>3. StageThere'
    BY <1>25 DEF SnapQuit, Goto, StageThere, StageOK, LocalsOK, locals, range, stage
  <2>4. QED
    BY <2>1, <2>2, <2>3 DEF TypeInv, TypeOK
<1>26. CASE SnapWrite
  <2>1. EnvOK' /\ IndexOK' /\ StageOK' /\ BlazeOK'
    BY <1>26, Keeps DEF SnapWrite, env, locals, range, index, stage, blaze
  <2>2. ProcessOK'
    BY <1>26 DEF SnapWrite, ProcessOK, Labels
  <2>3. LocalsOK'
    BY <1>26 DEF SnapWrite, LocalsOK, locals, range
  <2>4. StageThere'
    BY <1>26 DEF SnapWrite, StageThere, StageOK, LocalsOK, locals, range, stage
  <2>5. QED
    BY <2>1, <2>2, <2>3, <2>4 DEF TypeInv, TypeOK
<1>27. CASE Consolidate
  <2>1. EnvOK' /\ LocalsOK' /\ IndexOK' /\ StageOK' /\ BlazeOK'
    BY <1>27, Keeps
    DEF Consolidate, Goto, EndPass, env, locals, range, index, stage, blaze
  <2>2. ProcessOK'
    BY <1>27 DEF Consolidate, Goto, EndPass, ProcessOK, Labels
  <2>3. StageThere'
    BY <1>27
    DEF Consolidate, Goto, EndPass, StageThere, StageOK, LocalsOK, locals, range, stage
  <2>4. QED
    BY <2>1, <2>2, <2>3 DEF TypeInv, TypeOK
<1>28. CASE WriteBloom
  <2>1. EnvOK' /\ LocalsOK' /\ StageOK' /\ BlazeOK'
    BY <1>28, Keeps DEF WriteBloom, Goto, env, locals, range, index, stage, blaze
  <2>2. ProcessOK'
    BY <1>28 DEF WriteBloom, Goto, ProcessOK, Labels
  <2>3. IndexOK'
    <3>1. content[newStage] \in Seq(Block) /\ content[newStage] # << >>
      BY <1>28 DEF WriteBloom, StageOK, LocalsOK
    <3>2. Cut \in 1 .. Len(content[newStage])
      BY <3>1, BreakAtType DEF Cut
    <3>3. <<content[newStage][1], content[newStage][Cut]>> \in Block \X Block
      BY <3>1, <3>2
    <3>4. QED
      BY <1>28, <3>3 DEF WriteBloom, IndexOK
  <2>4. StageThere'
    BY <1>28 DEF WriteBloom, Goto, StageThere, StageOK, LocalsOK, locals, range, stage
  <2>5. QED
    BY <2>1, <2>2, <2>3, <2>4 DEF TypeInv, TypeOK
<1>29. CASE WriteBin
  <2>1. EnvOK' /\ LocalsOK' /\ StageOK' /\ BlazeOK'
    BY <1>29, Keeps DEF WriteBin, Goto, env, locals, range, index, stage, blaze
  <2>2. ProcessOK'
    BY <1>29 DEF WriteBin, Goto, ProcessOK, Labels
  <2>3. IndexOK'
    <3>1. content[newStage] \in Seq(Block) /\ content[newStage] # << >>
      BY <1>29 DEF WriteBin, StageOK, LocalsOK, StageThere
    <3>2. Chunk(SubSeq(content[newStage], 1, Cut))
             \in [first : Block, last : Block, blocks : Seq(Block)]
      BY <3>1, ChunkFacts
    <3>3. QED
      BY <1>29, <3>2 DEF WriteBin, IndexOK
  <2>4. StageThere'
    BY <1>29 DEF WriteBin, Goto, StageThere, StageOK, LocalsOK, locals, range, stage
  <2>5. QED
    BY <2>1, <2>2, <2>3, <2>4 DEF TypeInv, TypeOK
<1>30. CASE RemoveStage
  <2>1. EnvOK' /\ IndexOK' /\ BlazeOK'
    BY <1>30, Keeps DEF RemoveStage, env, locals, range, index, stage, blaze
  <2>2. ProcessOK'
    BY <1>30 DEF RemoveStage, ProcessOK, Labels
  <2>3. LocalsOK'
    <3>1. content[newStage] \in Seq(Block) /\ content[newStage] # << >>
      BY <1>30 DEF RemoveStage, StageOK, LocalsOK, StageThere
    <3>2. SubSeq(content[newStage], Cut + 1, Len(content[newStage])) \in Seq(Block)
      BY <3>1, BreakAtType DEF Cut
    <3>3. QED
      BY <1>30, <3>2 DEF RemoveStage, LocalsOK, range
  <2>4. StageOK'
    BY <1>30 DEF RemoveStage, StageOK, stage
  <2>5. StageThere'
    BY <1>30 DEF RemoveStage, StageThere, StageOK, LocalsOK, locals, range, stage
  <2>6. QED
    BY <2>1, <2>2, <2>3, <2>4, <2>5 DEF TypeInv, TypeOK
<1>31. CASE RewriteSome
  <2>1. EnvOK' /\ LocalsOK' /\ IndexOK' /\ BlazeOK'
    BY <1>31, Keeps DEF RewriteSome, env, locals, range, index, stage, blaze
  <2>2. ProcessOK'
    BY <1>31 DEF RewriteSome, ProcessOK, Labels
  <2>3. StageOK'
    <3>1. newStage \in StageName /\ remaining \in Seq(Block)
             /\ content[newStage] \in Seq(Block)
      BY DEF LocalsOK, StageOK
    <3>2. SubSeq(remaining, 1, Len(content[newStage]) + 1) \in Seq(Block)
      BY <1>31, <3>1 DEF RewriteSome
    <3>3. QED
      BY <1>31, <3>1, <3>2 DEF RewriteSome, StageOK
  <2>4. StageThere'
    BY <1>31 DEF RewriteSome, StageThere, StageOK, LocalsOK, locals, range, stage
  <2>5. QED
    BY <2>1, <2>2, <2>3, <2>4 DEF TypeInv, TypeOK
<1>32. CASE RewriteDone
  <2>1. EnvOK' /\ IndexOK' /\ StageOK' /\ BlazeOK'
    BY <1>32, Keeps DEF RewriteDone, env, locals, range, index, stage, blaze
  <2>2. ProcessOK'
    BY <1>32 DEF RewriteDone, ProcessOK, Labels
  <2>3. LocalsOK'
    BY <1>32 DEF RewriteDone, LocalsOK, locals, range
  <2>4. StageThere'
    BY <1>32 DEF RewriteDone, StageThere, StageOK, LocalsOK, locals, range, stage
  <2>5. QED
    BY <2>1, <2>2, <2>3, <2>4 DEF TypeInv, TypeOK
<1>33. CASE WriteDone
  <2>1. EnvOK' /\ LocalsOK' /\ IndexOK' /\ StageOK' /\ BlazeOK'
    BY <1>33, Keeps
    DEF WriteDone, Goto, EndPass, env, locals, range, index, stage, blaze
  <2>2. ProcessOK'
    BY <1>33 DEF WriteDone, Goto, EndPass, ProcessOK, Labels
  <2>3. StageThere'
    BY <1>33
    DEF WriteDone, Goto, EndPass, StageThere, StageOK, LocalsOK, locals, range, stage
  <2>4. QED
    BY <2>1, <2>2, <2>3 DEF TypeInv, TypeOK
<1>34. CASE CtrlC
  <2>1. EnvOK' /\ LocalsOK' /\ IndexOK' /\ StageOK' /\ BlazeOK'
    BY <1>34, Keeps DEF CtrlC, Terminate, env, locals, range, index, stage, blaze
  <2>2. ProcessOK'
    BY <1>34 DEF CtrlC, Terminate, ProcessOK, Labels
  <2>3. StageThere'
    BY <1>34 DEF CtrlC, Terminate, StageThere, StageOK, LocalsOK, locals, range, stage
  <2>4. QED
    BY <2>1, <2>2, <2>3 DEF TypeInv, TypeOK
<1>35. CASE Kill
  <2>1. EnvOK' /\ LocalsOK' /\ IndexOK' /\ StageOK' /\ BlazeOK'
    BY <1>35, Keeps DEF Kill, Terminate, env, locals, range, index, stage, blaze
  <2>2. ProcessOK'
    BY <1>35 DEF Kill, Terminate, ProcessOK, Labels
  <2>3. StageThere'
    BY <1>35 DEF Kill, Terminate, StageThere, StageOK, LocalsOK, locals, range, stage
  <2>4. QED
    BY <2>1, <2>2, <2>3 DEF TypeInv, TypeOK
<1>36. CASE HeadAdvance
  <2>1. LocalsOK' /\ IndexOK' /\ StageOK' /\ BlazeOK'
    BY <1>36, Keeps DEF HeadAdvance, env, locals, range, index, stage, blaze
  <2>2. ProcessOK'
    BY <1>36 DEF HeadAdvance, ProcessOK, Labels
  <2>3. EnvOK'
    <3>1. client + 1 \in Block
      BY <1>36, ChunkConstants DEF HeadAdvance, EnvOK, Block
    <3>2. QED
      BY <1>36, <3>1 DEF HeadAdvance, EnvOK
  <2>4. StageThere'
    BY <1>36 DEF HeadAdvance, StageThere, StageOK, LocalsOK, locals, range, stage
  <2>5. QED
    BY <2>1, <2>2, <2>3, <2>4 DEF TypeInv, TypeOK
<1>37. CASE Resync
  <2>1. LocalsOK' /\ IndexOK' /\ StageOK' /\ BlazeOK'
    BY <1>37, Keeps DEF Resync, Happens, env, locals, range, index, stage, blaze
  <2>2. ProcessOK'
    BY <1>37 DEF Resync, Happens, ProcessOK, Labels
  <2>3. EnvOK'
    <3>1. 0 .. client - 1 \subseteq Block
      BY ChunkConstants DEF EnvOK, Block
    <3>2. faults + 1 \in 0 .. MaxFaults
      BY <1>37, ScrapeConstants DEF Resync, Happens, EnvOK
    <3>3. QED
      BY <1>37, <3>1, <3>2 DEF Resync, Happens, EnvOK
  <2>4. StageThere'
    BY <1>37 DEF Resync, Happens, StageThere, StageOK, LocalsOK, locals, range, stage
  <2>5. QED
    BY <2>1, <2>2, <2>3, <2>4 DEF TypeInv, TypeOK
<1>38. CASE ExportStart
  <2>1. LocalsOK' /\ IndexOK' /\ StageOK' /\ BlazeOK'
    BY <1>38, Keeps DEF ExportStart, Happens, env, locals, range, index, stage, blaze
  <2>2. ProcessOK'
    BY <1>38 DEF ExportStart, Happens, ProcessOK, Labels
  <2>3. EnvOK'
    <3>1. faults + 1 \in 0 .. MaxFaults
      BY <1>38, ScrapeConstants DEF ExportStart, Happens, EnvOK
    <3>2. QED
      BY <1>38, <3>1 DEF ExportStart, Happens, EnvOK
  <2>4. StageThere'
    BY <1>38 DEF ExportStart, Happens, StageThere, StageOK, LocalsOK, locals, range, stage
  <2>5. QED
    BY <2>1, <2>2, <2>3, <2>4 DEF TypeInv, TypeOK
<1>39. CASE ExportEnd
  <2>1. LocalsOK' /\ IndexOK' /\ StageOK' /\ BlazeOK'
    BY <1>39, Keeps DEF ExportEnd, env, locals, range, index, stage, blaze
  <2>2. ProcessOK'
    BY <1>39 DEF ExportEnd, ProcessOK, Labels
  <2>3. EnvOK'
    BY <1>39 DEF ExportEnd, EnvOK, env
  <2>4. StageThere'
    BY <1>39 DEF ExportEnd, StageThere, StageOK, LocalsOK, locals, range, stage
  <2>5. QED
    BY <2>1, <2>2, <2>3, <2>4 DEF TypeInv, TypeOK
<1>40. CASE UNCHANGED vars
  <2>1. TypeOK'
    BY <1>40, Keeps DEF vars, ProcessOK
  <2>2. StageThere'
    BY <1>40 DEF vars, locals, range, stage, StageThere
  <2>3. QED
    BY <2>1, <2>2 DEF TypeInv
<1>41. CASE FirstFails
  <2>1. EnvOK' /\ LocalsOK' /\ StageOK' /\ BlazeOK'
    BY <1>41, Keeps DEF FirstFails, Goto, locals, range, stage, blaze
  <2>2. ProcessOK'
    BY <1>41 DEF FirstFails, Goto, ProcessOK, Labels
  <2>3. IndexOK'
    BY <1>41 DEF FirstFails, Goto, IndexOK
  <2>4. StageThere'
    BY <1>41 DEF FirstFails, Goto, StageThere, StageOK, LocalsOK, locals, range, stage
  <2>5. QED
    BY <2>1, <2>2, <2>3, <2>4 DEF TypeInv, TypeOK
<1>42. CASE ZeroFails
  <2>1. EnvOK' /\ LocalsOK' /\ StageOK' /\ IndexOK'
    BY <1>42, Keeps
    DEF ZeroFails, CleanOnStart, Goto, locals, range, index, stage, blaze
  <2>2. ProcessOK'
    BY <1>42 DEF ZeroFails, CleanOnStart, Goto, ProcessOK, Labels
  <2>3. BlazeOK'
    BY <1>42 DEF ZeroFails, CleanOnStart, Goto, BlazeOK, blaze
  <2>4. StageThere'
    BY <1>42
    DEF ZeroFails, CleanOnStart, Goto, StageThere, StageOK, LocalsOK, locals, range,
        stage
  <2>5. QED
    BY <2>1, <2>2, <2>3, <2>4 DEF TypeInv, TypeOK
<1>43. CASE BloomFails
  <2>1. EnvOK' /\ LocalsOK' /\ StageOK' /\ BlazeOK'
    BY <1>43, Keeps DEF BloomFails, Goto, locals, range, stage, blaze
  <2>2. ProcessOK'
    BY <1>43 DEF BloomFails, Goto, ProcessOK, Labels
  <2>3. IndexOK'
    <3>1. content[newStage] \in Seq(Block) /\ content[newStage] # << >>
      BY <1>43 DEF BloomFails, StageOK, LocalsOK
    <3>2. <<content[newStage][1], content[newStage][Cut]>> \in Block \X Block
      BY <3>1, ChunkFacts
    <3>3. QED
      BY <1>43, <3>2 DEF BloomFails, Goto, IndexOK
  <2>4. StageThere'
    BY <1>43 DEF BloomFails, Goto, StageThere, StageOK, LocalsOK, locals, range, stage
  <2>5. QED
    BY <2>1, <2>2, <2>3, <2>4 DEF TypeInv, TypeOK
<1>44. CASE BinFails
  <2>1. EnvOK' /\ LocalsOK' /\ IndexOK' /\ StageOK' /\ BlazeOK'
    BY <1>44, Keeps DEF BinFails, Goto, locals, range, index, stage, blaze
  <2>2. ProcessOK'
    BY <1>44 DEF BinFails, Goto, ProcessOK, Labels
  <2>3. StageThere'
    BY <1>44 DEF BinFails, Goto, StageThere, StageOK, LocalsOK, locals, range, stage
  <2>4. QED
    BY <2>1, <2>2, <2>3 DEF TypeInv, TypeOK
<1>45. CASE RewriteFails
  <2>1. EnvOK' /\ IndexOK' /\ StageOK' /\ BlazeOK'
    BY <1>45, Keeps DEF RewriteFails, range, index, stage, blaze
  <2>2. ProcessOK'
    BY <1>45 DEF RewriteFails, ProcessOK, Labels
  <2>3. LocalsOK'
    BY <1>45 DEF RewriteFails, LocalsOK, locals, range
  <2>4. StageThere'
    BY <1>45 DEF RewriteFails, StageThere, StageOK, LocalsOK, locals, range, stage
  <2>5. QED
    BY <2>1, <2>2, <2>3, <2>4 DEF TypeInv, TypeOK
<1>46. QED
  BY <1>1, <1>2, <1>3, <1>4, <1>5, <1>6, <1>7, <1>8, <1>9, <1>10, <1>11, <1>12,
     <1>13, <1>14, <1>15, <1>16, <1>17, <1>18, <1>19, <1>20, <1>21, <1>22, <1>23, <1>24,
     <1>25, <1>26, <1>27, <1>28, <1>29, <1>30, <1>31, <1>32, <1>33, <1>34, <1>35, <1>36,
     <1>37, <1>38, <1>39, <1>40, <1>41, <1>42, <1>43, <1>44, <1>45
  DEF Next, Scraper, Faulty, WriteFails, World, Starting, Blazing, Copying, Staging, Writing

\* Whatever blaze, stage_chunks, write_chunks, Ctrl-C's, kills, exports and the
\* node do, in any order: every variable keeps its type, so no file name and no
\* position in a file is ever computed from nothing.
THEOREM TypeCorrect == Spec => []TypeOK
<1>1. TypeInv => TypeOK
  BY DEF TypeInv
<1>2. QED
  BY TypeInit, TypeNext, <1>1, PTL DEF Spec

-----------------------------------------------------------------------------
(* A chunk has its bloom filter *)

\* Between the bloom and the chunk the process remembers which chunk it writes, be
\* the bloom there or not.
BloomInv ==
    /\ ChunkHasBloom
    /\ pc = "zero" => <<0, 0>> \in blooms \cup unbloomed
    /\ pc = "bin" =>
          <<content[newStage][1], content[newStage][Cut]>> \in blooms \cup unbloomed

LEMMA BloomNext == TypeInv /\ BloomInv /\ [Next]_vars => BloomInv'
<1> SUFFICES ASSUME TypeInv, BloomInv, [Next]_vars PROVE BloomInv'
  OBVIOUS
<1> USE DEF BloomInv, ChunkHasBloom
<1>1. CASE StartFirst
  BY <1>1 DEF StartFirst, Goto, Cut, index, stage, locals, range
<1>2. CASE StartZero
  <2>1. Name(Chunk(<<0>>)) = <<0, 0>>
    BY DEF Chunk, Name
  <2>2. finalized' = finalized \cup {Chunk(<<0>>)} /\ pc' = "idle"
           /\ UNCHANGED <<blooms, unbloomed>>
    BY <1>2 DEF StartZero, CleanOnStart, Goto
  <2>3. <<0, 0>> \in blooms \cup unbloomed
    BY <1>2 DEF StartZero
  <2>4. QED
    BY <2>1, <2>2, <2>3
<1>3. CASE Start
  BY <1>3 DEF Start, CleanOnStart, RemoveTmpFn, Goto, Cut, index, stage, locals, range
<1>4. CASE LoopExit
  BY <1>4 DEF LoopExit, Terminate, Forget, Cut, index, stage, locals, range
<1>5. CASE BeginPass
  BY <1>5 DEF BeginPass, StartPass, EndPass, Forget, index
<1>6. CASE BeginUnopened
  BY <1>6 DEF BeginUnopened, StartPass, EndPass, Forget, Cut, index, stage
<1>7. CASE QuitBeforeBlaze
  BY <1>7 DEF QuitBeforeBlaze, EndPass, Forget, Cut, index, stage, locals, range
<1>8. CASE RunBlaze
  BY <1>8 DEF RunBlaze, Goto, Cut, index, stage, locals, range
<1>9. ASSUME NEW b \in Block, BlazeWrite(b) PROVE BloomInv'
  BY <1>9 DEF BlazeWrite, Cut, index, stage, locals, range
<1>10. CASE BlazeDone
  BY <1>10 DEF BlazeDone, Goto, EndPass, Forget, Cut, index, stage, locals, range
<1>11. CASE BlazeFail
  BY <1>11
  DEF BlazeFail, Terminate, EndPass, Forget, Fault, Happens, Cut, index, stage, locals, range
<1>12. CASE CopyRipe
  BY <1>12 DEF CopyRipe, Cut, index, stage, locals, range
<1>13. CASE CopyOutOfSequence
  BY <1>13 DEF CopyOutOfSequence, Goto, Cut, index, stage, locals, range
<1>14. CASE CopyFail
  BY <1>14 DEF CopyFail, Goto, Fault, Happens, Cut, index, stage, locals, range
<1>15. CASE CopyDone
  BY <1>15 DEF CopyDone, Cut, index, stage, locals, range
<1>16. CASE Cleanup
  BY <1>16 DEF Cleanup, EndPass, Forget, RemoveTmpFn, Cut, index, stage, locals, range
<1>17. CASE StageSame
  BY <1>17 DEF StageSame, Cut, index, stage, locals, range
<1>18. CASE StageAppendOld
  BY <1>18 DEF StageAppendOld, Cut, index, stage, locals, range
<1>19. CASE StageFailOld
  BY <1>19 DEF StageFailOld, Fault, Happens, Cut, index, stage, locals, range
<1>20. CASE StageAppendNew
  BY <1>20 DEF StageAppendNew, Goto, Cut, index, stage, locals, range
<1>21. CASE StageFailNew
  BY <1>21 DEF StageFailNew, Goto, Fault, Happens, Cut, index, stage, locals, range
<1>22. CASE StageRename
  BY <1>22 DEF StageRename, Goto, Cut, index, stage, locals, range
<1>23. CASE StageDrop
  BY <1>23 DEF StageDrop, Goto, Cut, index, stage, locals, range
<1>24. CASE StageFailed
  BY <1>24 DEF StageFailed, Goto, RemoveTmpFn, Cut, index, stage, locals, range
<1>25. CASE SnapQuit
  BY <1>25 DEF SnapQuit, Goto, Cut, index, stage, locals, range
<1>26. CASE SnapWrite
  BY <1>26 DEF SnapWrite, Cut, index, stage, locals, range
<1>27. CASE Consolidate
  BY <1>27 DEF Consolidate, Goto, EndPass, Forget, Cut, index, stage, locals, range
<1>28. CASE WriteBloom
  BY <1>28 DEF WriteBloom, Goto, Cut, index, stage, locals, range
<1>29. CASE WriteBin
  <2>1. content[newStage] \in Seq(Block) /\ content[newStage] # << >>
    BY <1>29, NameFacts DEF WriteBin, TypeInv, TypeOK, StageOK, LocalsOK, StageThere
  <2>2. Name(Chunk(SubSeq(content[newStage], 1, Cut)))
          = <<content[newStage][1], content[newStage][Cut]>>
    BY <2>1, ChunkFacts
  <2>3. QED
    BY <1>29, <2>2 DEF WriteBin, Goto
<1>30. CASE RemoveStage
  BY <1>30 DEF RemoveStage, Cut, index, stage, locals, range
<1>31. CASE RewriteSome
  BY <1>31 DEF RewriteSome, Cut, index, stage, locals, range
<1>32. CASE RewriteDone
  BY <1>32 DEF RewriteDone, Cut, index, stage, locals, range
<1>33. CASE WriteDone
  BY <1>33 DEF WriteDone, Goto, EndPass, Forget, Cut, index, stage, locals, range
<1>34. CASE CtrlC
  BY <1>34 DEF CtrlC, Terminate, Forget, Fault, Happens, Cut, index, stage, locals, range
<1>35. CASE Kill
  BY <1>35 DEF Kill, Terminate, Forget, Fault, Happens, Cut, index, stage, locals, range
<1>36. CASE HeadAdvance
  BY <1>36 DEF HeadAdvance, Cut, index, stage, locals, range
<1>37. CASE Resync
  BY <1>37 DEF Resync, Happens, Cut, index, stage, locals, range
<1>38. CASE ExportStart
  BY <1>38 DEF ExportStart, Happens, Cut, index, stage, locals, range
<1>39. CASE ExportEnd
  BY <1>39 DEF ExportEnd, Cut, index, stage, locals, range
<1>40. CASE UNCHANGED vars
  BY <1>40 DEF vars, Cut, index, stage, locals, range
<1>41. CASE FirstFails
  BY <1>41 DEF FirstFails, Goto, Cut, stage, locals, range
<1>42. CASE ZeroFails
  BY <1>42
  DEF ZeroFails, CleanOnStart, RemoveTmpFn, Goto, Cut, index, stage, locals, range
<1>43. CASE BloomFails
  BY <1>43 DEF BloomFails, Goto, Cut, stage, locals, range
<1>44. CASE BinFails
  BY <1>44 DEF BinFails, Goto, Cut, index, stage, locals, range
<1>45. CASE RewriteFails
  BY <1>45 DEF RewriteFails, Cut, index, stage, locals, range
<1>46. QED
  BY <1>1, <1>2, <1>3, <1>4, <1>5, <1>6, <1>7, <1>8, <1>9, <1>10, <1>11, <1>12,
     <1>13, <1>14, <1>15, <1>16, <1>17, <1>18, <1>19, <1>20, <1>21, <1>22, <1>23, <1>24,
     <1>25, <1>26, <1>27, <1>28, <1>29, <1>30, <1>31, <1>32, <1>33, <1>34, <1>35, <1>36,
     <1>37, <1>38, <1>39, <1>40, <1>41, <1>42, <1>43, <1>44, <1>45
  DEF Next, Scraper, Faulty, WriteFails, World, Starting, Blazing, Copying, Staging, Writing

\* Even if the scraper is killed between any two writes, or writes fail that the
\* code does not look at, a chunk of finalized/ has its bloom filter, unless that very
\* filter could not be opened: acctExport misses no other chunk that is there.
THEOREM ChunksHaveBlooms == Spec => []ChunkHasBloom
<1>1. Init => BloomInv
  BY DEF Init, BloomInv, ChunkHasBloom
<1>2. BloomInv => ChunkHasBloom
  BY DEF BloomInv
<1>3. QED
  BY TypeInit, TypeNext, BloomNext, <1>1, <1>2, PTL DEF Spec

-----------------------------------------------------------------------------
(* Only ripe blocks are indexed *)

\* Everything on its way to the index is old enough: what blaze is told is ripe,
\* the ripe files, every staging file with tmp_fn, temp.txt and the records that
\* write_chunks holds in memory.
RipeInv ==
    /\ client <= maxHead
    /\ Old(blazeRipe)
    /\ \A b \in ripe : Old(b)
    /\ \A n \in StageName : AllOld(content[n])
    /\ AllOld(tmpFile)
    /\ AllOld(remaining)
    /\ \A c \in finalized : AllOld(c.blocks)

\* Appending, joining and cutting sequences of old blocks gives old blocks.
LEMMA AllOldFacts ==
    /\ AllOld(<< >>)
    /\ \A s \in Seq(Block), b \in Block : AllOld(s) /\ Old(b) => AllOld(Append(s, b))
    /\ \A s, t \in Seq(Block) : AllOld(s) /\ AllOld(t) => AllOld(s \o t)
    /\ \A s \in Seq(Block) : \A n \in 0 .. Len(s) :
          AllOld(s) => AllOld(SubSeq(s, 1, n)) /\ AllOld(SubSeq(s, n + 1, Len(s)))
<1>1. AllOld(<< >>)
  BY DEF AllOld
<1>2. ASSUME NEW s \in Seq(Block), NEW b \in Block, AllOld(s), Old(b)
      PROVE  AllOld(Append(s, b))
  BY <1>2 DEF AllOld
<1>3. ASSUME NEW s \in Seq(Block), NEW t \in Seq(Block), AllOld(s), AllOld(t)
      PROVE  AllOld(s \o t)
  BY <1>3 DEF AllOld
<1>4. ASSUME NEW s \in Seq(Block), NEW n \in 0 .. Len(s), AllOld(s)
      PROVE  AllOld(SubSeq(s, 1, n)) /\ AllOld(SubSeq(s, n + 1, Len(s)))
  <2> DEFINE t == SubSeq(s, 1, n)
             u == SubSeq(s, n + 1, Len(s))
  <2>1. Len(s) \in Nat /\ n \in Nat /\ n <= Len(s) /\ \A i \in 1 .. Len(s) : Old(s[i])
    BY <1>4 DEF AllOld
  <2>2. /\ Len(t) = n /\ \A i \in 1 .. n : t[i] = s[i]
        /\ Len(u) = Len(s) - n /\ \A i \in 1 .. Len(s) - n : u[i] = s[n + i]
    BY SubSeqFacts
  <2>3. /\ \A i \in 1 .. n : i \in 1 .. Len(s)
        /\ \A i \in 1 .. Len(s) - n : n + i \in 1 .. Len(s)
    BY <2>1
  <2> HIDE DEF t, u
  <2>4. (\A i \in 1 .. n : Old(t[i])) /\ (\A i \in 1 .. Len(s) - n : Old(u[i]))
    <3> HIDE DEF Old
    <3>1. \A i \in 1 .. n : Old(s[i])
      BY <2>1, <2>3, Zenon
    <3>2. \A i \in 1 .. Len(s) - n : Old(s[n + i])
      BY <2>1, <2>3, Zenon
    <3>3. QED
      BY <2>2, <3>1, <3>2
  <2>5. AllOld(t) /\ AllOld(u)
    BY <2>2, <2>4 DEF AllOld
  <2>6. QED
    BY <2>5 DEF t, u
<1>5. QED
  BY <1>1, <1>2, <1>3, <1>4

\* The head only moves the blocks further back.
LEMMA StaysOld ==
    ASSUME TypeOK, maxHead' \in Block, maxHead <= maxHead'
    PROVE  /\ \A b \in Block : Old(b) => Old(b)'
           /\ \A s \in Seq(Block) : AllOld(s) => AllOld(s)'
<1>1. \A b \in Block : Old(b) => Old(b)'
  BY NameFacts, ScrapeConstants DEF Old, TypeOK, EnvOK
<1>2. QED
  BY <1>1 DEF AllOld

\* What a pass tells blaze is ripe, is ripe.
LEMMA StartPassOld ==
    ASSUME TypeOK, RipeInv, NEW opened, StartPass(opened)
    PROVE  Old(blazeRipe') /\ AllOld(remaining')
<1>1. Old(RipeBlock)
  BY NameFacts, ScrapeConstants DEF TypeOK, EnvOK, RipeInv, Old, RipeBlock
<1>2. Old(0) /\ AllOld(<< >>) /\ AllOld(remaining)
  BY AllOldFacts DEF Old, RipeInv
<1>3. QED
  BY <1>1, <1>2 DEF StartPass, EndPass, Forget

LEMMA RipeNext == TypeInv /\ RipeInv /\ [Next]_vars => RipeInv'
<1> SUFFICES ASSUME TypeInv, RipeInv, [Next]_vars PROVE RipeInv'
  OBVIOUS
<1> USE NameFacts DEF RipeInv
<1>a. TypeOK /\ StageThere /\ TypeOK'
  BY TypeNext DEF TypeInv
<1>1. CASE StartFirst
  BY <1>1 DEF StartFirst, Goto, env, locals, range, index, stage, blaze, AllOld, Old
<1>2. CASE StartZero
  <2>1. AllOld(Chunk(<<0>>).blocks)
    BY DEF Chunk, AllOld, Old
  <2>2. QED
    BY <1>2, <2>1
    DEF StartZero, CleanOnStart, RemoveTmpFn, Goto, env, locals, range, AllOld, Old
<1>3. CASE Start
  BY <1>3
  DEF Start, CleanOnStart, RemoveTmpFn, Goto, env, locals, range, index, stage,
      blaze, AllOld, Old
<1>4. CASE LoopExit
  BY <1>4
  DEF LoopExit, Terminate, Forget, env, locals, range, index, stage, blaze, AllOld, Old
<1>5. CASE BeginPass
  <2>1. Old(blazeRipe') /\ AllOld(remaining')
    BY <1>5, <1>a, StartPassOld DEF BeginPass
  <2>2. \A n \in StageName : AllOld(content'[n])
    BY <1>5, <1>a, AllOldFacts DEF BeginPass, TypeOK, StageOK
  <2>3. UNCHANGED <<client, maxHead, ripe, tmpFile, finalized>>
    BY <1>5 DEF BeginPass, StartPass, env, index, blaze
  <2>4. QED
    BY <2>1, <2>2, <2>3 DEF AllOld, Old
<1>6. CASE BeginUnopened
  <2>1. Old(blazeRipe') /\ AllOld(remaining')
    BY <1>6, <1>a, StartPassOld DEF BeginUnopened
  <2>2. UNCHANGED <<client, maxHead, ripe, content, tmpFile, finalized>>
    BY <1>6 DEF BeginUnopened, StartPass, Fault, Happens, index, blaze
  <2>3. QED
    BY <2>1, <2>2 DEF AllOld, Old
<1>7. CASE QuitBeforeBlaze
  BY <1>7
  DEF QuitBeforeBlaze, EndPass, Forget, env, locals, range, index, stage, blaze,
      AllOld, Old
<1>8. CASE RunBlaze
  BY <1>8 DEF RunBlaze, Goto, env, locals, range, index, stage, blaze, AllOld, Old
<1>9. ASSUME NEW b \in Block, BlazeWrite(b) PROVE RipeInv'
  <2>1. b <= blazeRipe => Old(b)
    <3>1. b \in Nat /\ blazeRipe \in Nat /\ maxHead \in Nat /\ RipeDepth \in Nat
      BY <1>a, ScrapeConstants DEF TypeOK, EnvOK, LocalsOK
    <3>2. Old(blazeRipe)
      OBVIOUS
    <3>3. QED
      BY ONLY <3>1, <3>2 DEF Old
  <2>2. \A d \in ripe' : Old(d)
    <3>1. b > blazeRipe \/ b <= blazeRipe
      BY <1>a DEF TypeOK, LocalsOK
    <3>2. QED
      BY <1>9, <2>1, <3>1 DEF BlazeWrite
  <2>3. UNCHANGED <<client, maxHead, locals, finalized, stage>>
    BY <1>9 DEF BlazeWrite, env, index
  <2>4. QED
    BY <2>2, <2>3 DEF AllOld, Old, locals, range, stage
<1>10. CASE BlazeDone
  BY <1>10
  DEF BlazeDone, Goto, EndPass, Forget, env, locals, range, index, stage, blaze,
      AllOld, Old
<1>11. CASE BlazeFail
  BY <1>11
  DEF BlazeFail, Terminate, EndPass, Forget, Fault, Happens, env, locals, range, index, stage,
      blaze, AllOld, Old
<1>12. CASE CopyRipe
  <2>1. Min(ripe) \in Block /\ Old(Min(ripe))
    BY <1>12, <1>a, MinBlocks DEF CopyRipe, TypeOK, BlazeOK
  <2>2. content[TmpFn] \in Seq(Block)
    BY <1>a DEF TypeOK, StageOK
  <2>3. AllOld(Append(content[TmpFn], Min(ripe)))
    BY <2>1, <2>2, AllOldFacts
  <2>4. \A n \in StageName : AllOld(content'[n])
    BY <1>12, <1>a, <2>3 DEF CopyRipe, TypeOK, StageOK
  <2>5. ripe' \subseteq ripe
    BY <1>12 DEF CopyRipe
  <2>6. UNCHANGED <<client, maxHead, blazeRipe, remaining, tmpFile, finalized>>
    BY <1>12 DEF CopyRipe, env, index, range
  <2>7. QED
    BY <2>4, <2>5, <2>6 DEF AllOld, Old
<1>13. CASE CopyOutOfSequence
  BY <1>13
  DEF CopyOutOfSequence, Goto, env, locals, range, index, stage, blaze, AllOld, Old
<1>14. CASE CopyFail
  BY <1>14
  DEF CopyFail, Goto, Fault, Happens, env, locals, range, index, stage, blaze, AllOld, Old
<1>15. CASE CopyDone
  BY <1>15 DEF CopyDone, env, locals, range, index, stage, blaze, AllOld, Old
<1>16. CASE Cleanup
  BY <1>16
  DEF Cleanup, EndPass, Forget, RemoveTmpFn, env, locals, range, index, stage, blaze,
      AllOld, Old
<1>17. CASE StageSame
  BY <1>17 DEF StageSame, env, locals, range, index, stage, blaze, AllOld, Old
<1>18. CASE StageAppendOld
  <2>1. Max(staging) \in StageName
    BY <1>18, <1>a, MaxBlocks DEF StageAppendOld, TypeOK, StageOK, StageThere
  <2>2. tmpFile \in Seq(Block) /\ content[Max(staging)] \in Seq(Block)
    BY <1>a, <2>1 DEF TypeOK, StageOK
  <2>3. AllOld(tmpFile \o content[Max(staging)])
    BY <2>1, <2>2, AllOldFacts
  <2>4. AllOld(tmpFile')
    BY <1>18, <2>3 DEF StageAppendOld
  <2>5. UNCHANGED <<client, maxHead, blazeRipe, remaining, content, ripe, finalized>>
    BY <1>18 DEF StageAppendOld, env, index, blaze, range
  <2>6. QED
    BY <2>4, <2>5 DEF AllOld, Old
<1>19. CASE StageFailOld
  BY <1>19 DEF StageFailOld, Fault, Happens, env, locals, range, index, stage, blaze, AllOld, Old
<1>20. CASE StageAppendNew
  <2>1. tmpFile \in Seq(Block) /\ content[TmpFn] \in Seq(Block)
    BY <1>a DEF TypeOK, StageOK
  <2>2. AllOld(tmpFile \o content[TmpFn])
    BY <2>1, AllOldFacts
  <2>3. AllOld(tmpFile')
    BY <1>20, <2>2 DEF StageAppendNew
  <2>4. UNCHANGED <<client, maxHead, blazeRipe, remaining, content, ripe, finalized>>
    BY <1>20 DEF StageAppendNew, Goto, env, index, blaze, locals, range
  <2>5. QED
    BY <2>3, <2>4 DEF AllOld, Old
<1>21. CASE StageFailNew
  BY <1>21
  DEF StageFailNew, Goto, Fault, Happens, env, locals, range, index, stage, blaze, AllOld, Old
<1>22. CASE StageRename
  BY <1>22 DEF StageRename, Goto, env, locals, range, index, stage, blaze, AllOld, Old
<1>23. CASE StageDrop
  BY <1>23 DEF StageDrop, Goto, env, locals, range, index, stage, blaze, AllOld, Old
<1>24. CASE StageFailed
  BY <1>24
  DEF StageFailed, Goto, RemoveTmpFn, env, locals, range, index, stage, blaze,
      AllOld, Old
<1>25. CASE SnapQuit
  BY <1>25 DEF SnapQuit, Goto, env, locals, range, index, stage, blaze, AllOld, Old
<1>26. CASE SnapWrite
  BY <1>26 DEF SnapWrite, env, locals, range, index, stage, blaze, AllOld, Old
<1>27. CASE Consolidate
  BY <1>27
  DEF Consolidate, Goto, EndPass, Forget, env, locals, range, index, stage, blaze,
      AllOld, Old
<1>28. CASE WriteBloom
  BY <1>28 DEF WriteBloom, Goto, env, locals, range, index, stage, blaze, AllOld, Old
<1>29. CASE WriteBin
  <2>1. content[newStage] \in Seq(Block) /\ content[newStage] # << >>
           /\ AllOld(content[newStage])
    BY <1>29, <1>a DEF WriteBin, TypeOK, StageOK, LocalsOK, StageThere
  <2>2. LET c == Chunk(SubSeq(content[newStage], 1, Cut))
        IN  c.blocks = SubSeq(content[newStage], 1, Cut)
               /\ Cut \in 0 .. Len(content[newStage])
    BY <2>1, ChunkFacts
  <2>3. AllOld(Chunk(SubSeq(content[newStage], 1, Cut)).blocks)
    BY <2>1, <2>2, AllOldFacts
  <2>4. \A c \in finalized' : AllOld(c.blocks)
    BY <1>29, <2>3 DEF WriteBin
  <2>5. UNCHANGED <<client, maxHead, locals, stage, ripe>>
    BY <1>29 DEF WriteBin, Goto, env, blaze
  <2>6. QED
    BY <2>4, <2>5 DEF AllOld, Old, locals, range, stage
<1>30. CASE RemoveStage
  <2>1. content[newStage] \in Seq(Block) /\ content[newStage] # << >>
           /\ AllOld(content[newStage])
    BY <1>30, <1>a DEF RemoveStage, TypeOK, StageOK, LocalsOK, StageThere
  <2>2. Cut \in 0 .. Len(content[newStage])
    BY <2>1, ChunkFacts
  <2>3. AllOld(remaining')
    BY <1>30, <2>1, <2>2, AllOldFacts DEF RemoveStage
  <2>4. \A n \in StageName : AllOld(content'[n])
    BY <1>30, <1>a, AllOldFacts DEF RemoveStage, TypeOK, StageOK
  <2>5. UNCHANGED <<client, maxHead, blazeRipe, tmpFile, ripe, finalized>>
    BY <1>30 DEF RemoveStage, env, index, blaze, range
  <2>6. QED
    BY <2>3, <2>4, <2>5 DEF AllOld, Old
<1>31. CASE RewriteSome
  BY <1>31 DEF RewriteSome, env, locals, range, index, stage, blaze, AllOld, Old
<1>32. CASE RewriteDone
  BY <1>32 DEF RewriteDone, env, locals, range, index, stage, blaze, AllOld, Old
<1>33. CASE WriteDone
  BY <1>33
  DEF WriteDone, Goto, EndPass, Forget, env, locals, range, index, stage, blaze,
      AllOld, Old
<1>34. CASE CtrlC
  BY <1>34
  DEF CtrlC, Terminate, Forget, Fault, Happens, env, locals, range, index, stage, blaze,
      AllOld, Old
<1>35. CASE Kill
  BY <1>35
  DEF Kill, Terminate, Forget, Fault, Happens, env, locals, range, index, stage, blaze,
      AllOld, Old
<1>36. CASE HeadAdvance
  <2>1. maxHead <= maxHead' /\ client' <= maxHead' /\ maxHead' \in Block
    BY <1>36, <1>a DEF HeadAdvance, TypeOK, EnvOK
  <2>2. UNCHANGED <<locals, index, stage, blaze>>
    BY <1>36 DEF HeadAdvance
  <2>3. /\ \A d \in Block : Old(d) => Old(d)'
        /\ \A s \in Seq(Block) : AllOld(s) => AllOld(s)'
    BY <1>a, <2>1, StaysOld
  <2>4. Old(blazeRipe)' /\ AllOld(remaining)'
    BY <1>a, <2>2, <2>3 DEF locals, range, TypeOK, LocalsOK, AllOld, Old
  <2>5. (\A d \in ripe : Old(d))'
    BY <1>a, <2>2, <2>3 DEF blaze, TypeOK, BlazeOK
  <2>6. (\A n \in StageName : AllOld(content[n]))' /\ AllOld(tmpFile)'
    BY <1>a, <2>2, <2>3 DEF stage, TypeOK, StageOK, AllOld
  <2>7. (\A c \in finalized : AllOld(c.blocks))'
    BY <1>a, <2>2, <2>3 DEF index, TypeOK, IndexOK, AllOld
  <2>8. QED
    BY <2>1, <2>4, <2>5, <2>6, <2>7
<1>37. CASE Resync
  <2>1. client' <= maxHead'
    <3>1. client \in Nat /\ maxHead \in Nat
      BY <1>a DEF TypeOK, EnvOK
    <3>2. client' \in 0 .. client - 1 /\ maxHead' = maxHead /\ client <= maxHead
      BY <1>37 DEF Resync, Happens
    <3>3. QED
      BY ONLY <3>1, <3>2
  <2>2. UNCHANGED <<maxHead, locals, index, stage, blaze>>
    BY <1>37 DEF Resync, Happens
  <2>3. QED
    BY <2>1, <2>2 DEF AllOld, Old, locals, range, index, stage, blaze
<1>38. CASE ExportStart
  BY <1>38 DEF ExportStart, Happens, env, locals, range, index, stage, blaze, AllOld, Old
<1>39. CASE ExportEnd
  BY <1>39 DEF ExportEnd, env, locals, range, index, stage, blaze, AllOld, Old
<1>40. CASE UNCHANGED vars
  BY <1>40 DEF vars, env, locals, range, index, stage, blaze, AllOld, Old
<1>41. CASE FirstFails
  BY <1>41
  DEF FirstFails, Goto, Fault, Happens, locals, range, stage, blaze, AllOld, Old
<1>42. CASE ZeroFails
  BY <1>42
  DEF ZeroFails, CleanOnStart, RemoveTmpFn, Goto, Fault, Happens, locals, range, index,
      stage, blaze, AllOld, Old
<1>43. CASE BloomFails
  BY <1>43
  DEF BloomFails, Goto, Fault, Happens, locals, range, stage, blaze, AllOld, Old
<1>44. CASE BinFails
  BY <1>44
  DEF BinFails, Goto, Fault, Happens, locals, range, index, stage, blaze, AllOld, Old
<1>45. CASE RewriteFails
  <2>1. AllOld(remaining')
    BY <1>45 DEF RewriteFails, AllOld
  <2>2. UNCHANGED <<client, maxHead, range, index, stage, blaze>>
    BY <1>45 DEF RewriteFails, Fault, Happens
  <2>3. QED
    BY <2>1, <2>2 DEF range, index, stage, blaze, AllOld, Old
<1>46. QED
  BY <1>1, <1>2, <1>3, <1>4, <1>5, <1>6, <1>7, <1>8, <1>9, <1>10, <1>11, <1>12,
     <1>13, <1>14, <1>15, <1>16, <1>17, <1>18, <1>19, <1>20, <1>21, <1>22, <1>23, <1>24,
     <1>25, <1>26, <1>27, <1>28, <1>29, <1>30, <1>31, <1>32, <1>33, <1>34, <1>35, <1>36,
     <1>37, <1>38, <1>39, <1>40, <1>41, <1>42, <1>43, <1>44, <1>45
  DEF Next, Scraper, Faulty, WriteFails, World, Starting, Blazing, Copying, Staging, Writing

\* Even if the scraper is killed at any moment and the node goes back in between,
\* blocks that were not RipeDepth behind a head of the chain are never staged and
\* never finalized.
THEOREM IndexedBlocksAreRipe == Spec => []IndexOnlyRipe
<1>1. Init => RipeInv
  BY NameFacts DEF Init, RipeInv, AllOld, Old
<1>2. TypeInv /\ RipeInv => IndexOnlyRipe
  BY DEF RipeInv, IndexOnlyRipe, TypeInv, TypeOK, StageOK, Staged
<1>3. QED
  BY TypeInit, TypeNext, RipeNext, <1>1, <1>2, PTL DEF Spec

-----------------------------------------------------------------------------
(* Every block exactly once *)

Names == {Name(c) : c \in finalized}

\* The places from which the ripe files are known to follow prevBlock, and from
\* which newStage is set.
AfterCopy == {"stage", "append", "rename", "drop", "stageFailed", "staged",
              "write", "bin", "unstage", "rewrite"}
AfterStage == AfterCopy \ {"stage"}

\* The index exists once startup is over, it begins with block zero, and blooms/
\* has the same names, but for the one that is being written.
HasIndex ==
    /\ finalized # {} => <<0, 0>> \in Names
    /\ pc \notin {"down", "zero"} => finalized # {}
    /\ pc = "zero" => finalized = {} /\ blooms = {<<0, 0>>}
    /\ pc = "bin" => blooms = Names \cup {<<content[newStage][1], content[newStage][Cut]>>}
    /\ pc \notin {"zero", "bin"} => blooms = Names

\* Nothing that is finalized is scraped again.
RipeAhead ==
    /\ \A b \in ripe : b > FinalBlock
    /\ pc \in {"ready", "blaze"} => blazeStart > FinalBlock
    /\ pc \in AfterCopy => \A b \in ripe : b > prevBlock
    /\ pc \in AfterStage => newStage = prevBlock

\* There is one stage file, and it follows the index.
OneStage ==
    /\ pc # "drop" => \A m, n \in Staged : m = n
    /\ pc \notin {"drop", "unstage", "rewrite"} =>
          \A n \in Staged : content[n] = Run(FinalBlock + 1, n)

\* The places where tmp_fn is open or has been written.
HasTmpFn == \/ pc \in {"ready", "blaze"} /\ tmpOpen
            \/ pc \in {"copy", "stage", "staged"} /\ TmpFn \in staging

\* The stage and tmp_fn together follow the index up to prevBlock, ...
TmpFnFollows ==
    HasTmpFn =>
        /\ \A n \in Staged : content[n] \o content[TmpFn] = Run(FinalBlock + 1, prevBlock)
        /\ Staged = {} => content[TmpFn] = Run(FinalBlock + 1, prevBlock)

\* ... as do temp.txt and tmp_fn, then temp.txt, then newStage.
Copied ==
    /\ pc \notin {"append", "rename"} => tmpFile = << >>
    /\ pc = "append" /\ TmpFn \in staging =>
          tmpFile \o content[TmpFn] = Run(FinalBlock + 1, newStage)
    /\ pc = "rename" => tmpFile = Run(FinalBlock + 1, newStage)
    /\ pc \in {"append", "rename"} => \A n \in Staged : n = oldStage
    /\ pc = "drop" => /\ Staged \subseteq {oldStage, newStage}
                      /\ content[newStage] = Run(FinalBlock + 1, newStage)

\* What is put back on the stage follows the chunk that was cut off.
Rewritten ==
    /\ pc = "unstage" => LET s == content[newStage]
                         IN  SubSeq(s, Cut + 1, Len(s)) = Run(FinalBlock + 1, newStage)
    /\ pc = "rewrite" =>
          /\ remaining = Run(FinalBlock + 1, newStage)
          /\ Staged \subseteq {newStage}
          /\ Len(content[newStage]) <= Len(remaining)
          /\ content[newStage] = SubSeq(remaining, 1, Len(content[newStage]))

OnceInv == /\ ChunksTile /\ HasIndex /\ RipeAhead
           /\ OneStage /\ TmpFnFollows /\ Copied /\ Rewritten

-----------------------------------------------------------------------------
(* What several actions share *)

\* The finalized index is all that ChunksTile, FinalBlock and Names depend on.
LEMMA SameIndex ==
    ASSUME finalized' = finalized
    PROVE  /\ FinalBlock' = FinalBlock /\ Names' = Names
           /\ ChunksTile => ChunksTile'
  BY DEF FinalBlock, Names, ChunksTile

\* A step of the world, or a Ctrl-C that is only counted.
LEMMA SameDisk ==
    ASSUME OnceInv, UNCHANGED <<pc, locals, index, stage, ripe>>
    PROVE  OnceInv'
<1> USE DEF OnceInv, locals, range, index, stage
<1>1. ChunksTile' /\ FinalBlock' = FinalBlock /\ Names' = Names /\ Cut' = Cut
         /\ Staged' = Staged
  BY SameIndex DEF Cut, Staged
<1>2. HasIndex'
  BY <1>1 DEF HasIndex
<1>3. RipeAhead'
  BY <1>1 DEF RipeAhead
<1>4. OneStage' /\ TmpFnFollows'
  BY <1>1 DEF OneStage, TmpFnFollows, HasTmpFn
<1>5. Copied' /\ Rewritten'
  BY <1>1 DEF Copied, Rewritten
<1>6. QED
  BY <1>1, <1>2, <1>3, <1>4, <1>5

\* A pass that ends, or is about to, outside of the sections where the stage and
\* the index are replaced.  Only tmp_fn and ripe files are given up.
LEMMA GiveUp ==
    ASSUME TypeInv, OnceInv, UNCHANGED <<index, tmpFile>>, ripe' \subseteq ripe,
           Staged' = Staged, \A n \in Staged : content'[n] = content[n],
           pc \in {"down", "idle", "ready", "blaze", "copy", "cleanup", "stage",
                   "stageFailed", "staged", "write"},
           \/ pc' = "down"
           \/ pc' \in {"idle", "cleanup"} /\ finalized # {}
    PROVE  OnceInv'
<1> USE DEF OnceInv, index
<1>1. ChunksTile' /\ FinalBlock' = FinalBlock /\ Names' = Names
  BY SameIndex
<1>2. HasIndex'
  BY <1>1 DEF HasIndex
<1>3. RipeAhead'
  BY <1>1 DEF RipeAhead, AfterCopy, AfterStage
<1>4. OneStage'
  BY <1>1 DEF OneStage
<1>5. TmpFnFollows' /\ Copied' /\ Rewritten'
  BY <1>1 DEF TmpFnFollows, HasTmpFn, Copied, Rewritten
<1>6. QED
  BY <1>1, <1>2, <1>3, <1>4, <1>5

\* Removing tmp_fn leaves the stage alone.
LEMMA RemoveTmpFnFacts ==
    ASSUME TypeOK, RemoveTmpFn
    PROVE  /\ Staged' = Staged /\ TmpFn \notin staging'
           /\ \A n \in Staged : content'[n] = content[n]
           /\ \A n \in Block : content'[n] = content[n]
  BY NameFacts DEF RemoveTmpFn, Staged, TypeOK, StageOK

\* The scraper finds the end of the index through blooms/: the chunks tile the
\* chain, so the last name is the name of the last chunk.
LEMMA LatestFinalIsLast ==
    ASSUME TypeOK, ChunksTile, finalized # {}, blooms = Names
    PROVE  LatestFinal = FinalBlock
<1>1. finalized \in SUBSET ChunkSet /\ blooms \in SUBSET (Block \X Block)
  BY DEF TypeOK, IndexOK, ChunkSet
<1>2. PICK d \in finalized : d.last = FinalBlock
  BY <1>1, FinalBlockFacts
<1>3. FinalBlock \in Nat /\ \A c \in finalized :
         c.first \in Nat /\ c.last \in Nat /\ c.last <= FinalBlock
  BY <1>1, FinalBlockFacts, NameFacts DEF ChunkSet
<1>4. Name(d) \in blooms
  BY Zenon DEF Names
<1>5. /\ LastBloom \in blooms
      /\ \A q \in blooms : \/ q[1] < LastBloom[1]
                           \/ q[1] = LastBloom[1] /\ q[2] <= LastBloom[2]
  BY <1>1, <1>4, LastBloomExists
<1>6. PICK c \in finalized : LastBloom = Name(c)
  BY <1>5, Zenon DEF Names
<1>7. \/ d.first < c.first
      \/ d.first = c.first /\ d.last <= c.last
  BY <1>4, <1>5, <1>6 DEF Name
<1>8. c = d \/ c.last < d.first \/ d.last < c.first
  BY DEF ChunksTile
<1>9. c.first <= c.last /\ d.first <= d.last
  BY DEF ChunksTile
<1>10. c.last = d.last
  BY <1>2, <1>3, <1>7, <1>8, <1>9
<1>11. QED
  BY <1>2, <1>4, <1>6, <1>10 DEF LatestFinal, Name

\* How far along a pass finds the stage: at its one file, if there is one.
LEMMA LatestStagingFacts ==
    ASSUME TypeOK, OneStage, pc = "idle", LatestFinal = FinalBlock
    PROVE  /\ \A n \in Staged : LatestStaging = n
           /\ Staged = {} => LatestStaging \in {0, FinalBlock}
<1>1. staging \in SUBSET StageName /\ \A m, n \in Staged : m = n
  BY DEF TypeOK, StageOK, OneStage
<1>2. ASSUME NEW n \in Staged PROVE LatestStaging = n
  <2>1. n \in staging /\ n \in Block /\ n \in Nat
    BY <1>1, NameFacts DEF Staged
  <2>2. Max(staging) \in staging /\ Max(staging) >= n
    BY <1>1, <2>1, MaxBlocks
  <2>3. Max(staging) # TmpFn
    BY <2>1, <2>2 DEF TmpFn
  <2>4. Max(staging) = n
    BY <1>1, <2>2, <2>3 DEF Staged
  <2>5. QED
    BY <2>1, <2>3, <2>4 DEF LatestStaging, BnFromPath
<1>3. ASSUME Staged = {} PROVE LatestStaging \in {0, FinalBlock}
  <2>1. CASE staging = {}
    BY <2>1 DEF LatestStaging
  <2>2. CASE staging # {}
    <3>1. Max(staging) \in staging
      BY <1>1, <2>2, MaxBlocks
    <3>2. Max(staging) = TmpFn
      BY <1>3, <3>1 DEF Staged
    <3>3. QED
      BY <2>2, <3>2 DEF LatestStaging, BnFromPath
  <2>3. QED
    BY <2>1, <2>2
<1>4. QED
  BY <1>2, <1>3

\* An empty file adds nothing to the one it is appended to.
LEMMA EmptyEnd == \A s \in Seq(Block) : s \o << >> = s /\ << >> \o s = s
<1> SUFFICES ASSUME NEW s \in Seq(Block) PROVE s \o << >> = s /\ << >> \o s = s
  OBVIOUS
<1>1. << >> \in Seq(Block) /\ s \o << >> \in Seq(Block) /\ << >> \o s \in Seq(Block)
  OBVIOUS
<1>2. Len(s \o << >>) = Len(s) /\ Len(<< >> \o s) = Len(s)
  OBVIOUS
<1>3. \A i \in 1 .. Len(s) : (s \o << >>)[i] = s[i] /\ (<< >> \o s)[i] = s[i]
  OBVIOUS
<1>4. QED
  BY <1>1, <1>2, <1>3, SeqEqual

\* A pass starts right after the index, or not at all.
LEMMA StartPassOnce ==
    ASSUME TypeInv, OnceInv, NEW opened \in BOOLEAN, StartPass(opened),
           Staged' = Staged, \A n \in Staged : content'[n] = content[n],
           opened => content'[TmpFn] = << >>
    PROVE  OnceInv'
<1> USE DEF OnceInv
<1>1. TypeOK /\ pc = "idle" /\ UNCHANGED <<finalized, blooms, unbloomed, tmpFile, ripe>>
  BY DEF TypeInv, StartPass, index, blaze
<1>2. ChunksTile' /\ FinalBlock' = FinalBlock /\ Names' = Names
  BY <1>1, SameIndex
<1>3. finalized # {} /\ blooms = Names
  BY <1>1 DEF HasIndex
<1>4. LatestFinal = FinalBlock
  BY <1>1, <1>3, LatestFinalIsLast
<1>5. /\ \A n \in Staged : LatestStaging = n
      /\ Staged = {} => LatestStaging \in {0, FinalBlock}
  BY <1>1, <1>4, LatestStagingFacts
<1>6. CASE pc' = "idle"
  BY <1>1, <1>3, <1>6, GiveUp DEF index
<1>7. CASE pc' # "idle"
  <2>1. pc' = "ready" /\ prevBlock' = LatestStaging
           /\ blazeStart' = Max({LatestRipe, LatestStaging, LatestFinal}) + 1
           /\ tmpOpen' = opened
    BY <1>7 DEF StartPass, EndPass
  <2>2. FinalBlock \in Block /\ LatestStaging \in Block /\ FinalBlock \in Nat
    BY <1>1, FinalBlockFacts, LatestStagingType, NameFacts
    DEF TypeOK, IndexOK, StageOK, ChunkSet
  <2>3. blazeStart' > FinalBlock
    <3>1. {LatestRipe, LatestStaging, LatestFinal} \in SUBSET StageName
      BY <1>1, <1>4, <2>2, LatestRipeType, NameFacts
      DEF TypeOK, IndexOK, StageOK, BlazeOK
    <3>2. Max({LatestRipe, LatestStaging, LatestFinal}) >= FinalBlock
             /\ Max({LatestRipe, LatestStaging, LatestFinal}) \in StageName
      BY <1>4, <3>1, MaxBlocks
    <3>3. QED
      BY <2>1, <2>2, <3>2, ChunkConstants DEF StageName, TmpFn, Block
  <2>4. HasIndex' /\ RipeAhead'
    BY <1>1, <1>2, <1>3, <2>1, <2>3 DEF HasIndex, RipeAhead, AfterCopy, AfterStage
  <2>5. OneStage'
    BY <1>1, <1>2, <2>1 DEF OneStage
  <2>6. TmpFnFollows'
    <3>1. CASE ~ opened
      BY <2>1, <3>1 DEF TmpFnFollows, HasTmpFn
    <3>2. CASE opened
      <4>1. ASSUME NEW n \in Staged
            PROVE  content'[n] \o content'[TmpFn] = Run(FinalBlock + 1, LatestStaging)
        <5>1. content[n] = Run(FinalBlock + 1, n) /\ LatestStaging = n
          BY <1>1, <1>5 DEF OneStage
        <5>2. content'[n] \in Seq(Block) /\ content'[n] = content[n]
          BY <1>1 DEF TypeOK, StageOK, Staged
        <5>3. content'[n] \o << >> = content'[n]
          BY <5>2, EmptyEnd
        <5>4. QED
          BY <3>2, <5>1, <5>2, <5>3
      <4>2. ASSUME Staged = {} PROVE Run(FinalBlock + 1, LatestStaging) = << >>
        <5>1. LatestStaging < FinalBlock + 1 /\ FinalBlock + 1 \in Nat
          BY <1>5, <2>2, <4>2
        <5>2. QED
          BY <2>2, <5>1, RunEmpty
      <4>3. QED
        BY <1>2, <2>1, <3>2, <4>1, <4>2 DEF TmpFnFollows
    <3>3. QED
      BY <3>1, <3>2
  <2>7. Copied' /\ Rewritten'
    BY <1>1, <2>1 DEF Copied, Rewritten
  <2>8. QED
    BY <1>2, <2>4, <2>5, <2>6, <2>7
<1>8. QED
  BY <1>6, <1>7

-----------------------------------------------------------------------------
(* The steps *)

\* Appending a block to tmp_fn appends it to the stage and tmp_fn together.
LEMMA AppendEnd ==
    ASSUME NEW s \in Seq(Block), NEW t \in Seq(Block), NEW b \in Block
    PROVE  s \o Append(t, b) = Append(s \o t, b)
<1>1. s \o Append(t, b) \in Seq(Block) /\ Append(s \o t, b) \in Seq(Block)
  OBVIOUS
<1>2. Len(s \o Append(t, b)) = Len(Append(s \o t, b))
  OBVIOUS
<1>3. \A i \in 1 .. Len(s \o Append(t, b)) :
         (s \o Append(t, b))[i] = Append(s \o t, b)[i]
  OBVIOUS
<1>4. QED
  BY <1>1, <1>2, <1>3, SeqEqual

\* write_chunks: the chunk it cuts off the stage is the next one of the index.
LEMMA WriteBinOnce ==
    ASSUME TypeInv, OnceInv, WriteBin
    PROVE  /\ OnceInv'
           /\ \E last \in FinalBlock + 1 .. newStage :
                /\ FinalBlock' = last
                /\ Names' = Names \cup {<<FinalBlock + 1, last>>}
<1> USE DEF OnceInv
<1> DEFINE s == content[newStage]
           F == FinalBlock
           c == Chunk(SubSeq(s, 1, Cut))
<1>1. /\ TypeOK /\ pc = "bin" /\ pc' = "unstage"
      /\ finalized' = {d \in finalized : Name(d) # Name(c)} \cup {c}
      /\ UNCHANGED <<blooms, newStage, prevBlock, staging, content, tmpFile, ripe>>
  BY DEF TypeInv, WriteBin, Goto, locals, stage, blaze
<1>2. /\ s \in Seq(Block) /\ s # << >> /\ newStage \in Block /\ newStage \in Nat
      /\ newStage \in Staged
  BY <1>1, NameFacts DEF TypeInv, TypeOK, StageOK, LocalsOK, StageThere, Staged
<1>3. F \in Block /\ F \in Nat /\ finalized \in SUBSET ChunkSet
         /\ \A d \in finalized : d.last <= F
  BY <1>1, FinalBlockFacts, NameFacts DEF TypeOK, IndexOK, ChunkSet
<1>4. s = Run(F + 1, newStage)
  BY <1>1, <1>2 DEF OneStage
<1>5. Cut \in 1 .. Len(s) /\ Name(c) = <<s[1], s[Cut]>> /\ c.blocks = SubSeq(s, 1, Cut)
         /\ c \in ChunkSet
  BY <1>2, ChunkFacts DEF ChunkSet
<1>6. /\ Cut \in Nat /\ Cut >= 1
      /\ F + 1 <= newStage /\ F + Cut <= newStage /\ F + Cut \in Block
      /\ s[1] = F + 1 /\ s[Cut] = F + Cut
      /\ SubSeq(s, 1, Cut) = Run(F + 1, F + Cut)
      /\ SubSeq(s, Cut + 1, Len(s)) = Run(F + Cut + 1, newStage)
  <2>1. F + 1 \in Nat /\ Cut \in 1 .. Len(Run(F + 1, newStage)) /\ Cut \in Nat /\ Cut >= 1
    BY <1>2, <1>3, <1>4, <1>5
  <2>2. F + 1 + Cut - 1 = F + Cut /\ F + 1 + Cut = F + Cut + 1
    BY <1>3, <2>1
  <2> HIDE DEF s, F
  <2>3. /\ F + 1 <= newStage /\ Cut <= newStage - (F + 1) + 1
        /\ F + 1 + Cut - 1 \in Block
        /\ s[1] = F + 1 /\ s[Cut] = F + 1 + Cut - 1
        /\ SubSeq(s, 1, Cut) = Run(F + 1, F + 1 + Cut - 1)
        /\ SubSeq(s, Cut + 1, Len(s)) = Run(F + 1 + Cut, newStage)
    BY <1>2, <1>4, <2>1, RunCut, ZenonT(60)
  <2>4. F + Cut <= newStage
    BY <1>2, <1>3, <2>1, <2>3
  <2>5. QED
    BY <2>1, <2>2, <2>3, <2>4
<1> HIDE DEF s, c
<1>7. c.first = F + 1 /\ c.last = F + Cut /\ c.blocks = Run(F + 1, F + Cut)
  BY <1>5, <1>6 DEF Name
<1>8. finalized' = finalized \cup {c}
  <2>1. \A d \in finalized : d.first <= d.last /\ d.first \in Nat /\ d.last \in Nat
           /\ d.last <= F
    BY <1>3, NameFacts DEF ChunksTile, ChunkSet
  <2> HIDE DEF F
  <2>2. \A d \in finalized : d.first # c.first
    BY <1>3, <1>7, <2>1
  <2>3. \A d \in finalized : Name(d) # Name(c)
    BY <2>2 DEF Name
  <2>4. QED
    BY <1>1, <2>3
<1>9. FinalBlock' = F + Cut
  <2>1. finalized' \in SUBSET ChunkSet
    BY <1>3, <1>5, <1>8
  <2>2. FinalBlock' \in Block /\ (\A d \in finalized' : d.last <= FinalBlock')
           /\ (finalized' # {} => \E d \in finalized' : d.last = FinalBlock')
    <3>1. FinalBlock' = EndOf(finalized')
      BY DEF FinalBlock, EndOf
    <3>2. QED
      BY <2>1, <3>1, EndOfFacts
  <2>3. PICK d \in finalized' : d.last = FinalBlock'
    BY <1>8, <2>2
  <2>4. F + Cut <= FinalBlock' /\ FinalBlock' \in Nat
    BY <1>7, <1>8, <2>2, NameFacts
  <2>5. FinalBlock' <= F + Cut
    BY <1>3, <1>6, <1>7, <1>8, <2>3, <2>4
  <2>6. QED
    BY <1>3, <1>6, <2>4, <2>5
<1>10. Names' = Names \cup {<<s[1], s[Cut]>>} /\ blooms' = Names'
  <2>1. Names' = Names \cup {Name(c)}
    <3>1. Names' = {Name(d) : d \in finalized'}
      BY DEF Names, Name
    <3>2. QED
      BY <1>8, <3>1, Zenon DEF Names
  <2>2. blooms = Names \cup {<<s[1], s[Cut]>>}
    BY <1>1 DEF HasIndex, s
  <2>3. QED
    BY <1>1, <1>5, <2>1, <2>2
<1>11. ChunksTile'
  <2> HIDE DEF F
  <2>1. \A d \in finalized : /\ d.first <= d.last /\ d.first \in Nat /\ d.last \in Nat
                             /\ d.last <= F /\ d.blocks = Run(d.first, d.last)
    BY <1>3, NameFacts DEF ChunksTile, ChunkSet
  <2>2. \A d \in finalized' : d.blocks = Run(d.first, d.last) /\ d.first <= d.last
    BY <1>3, <1>6, <1>7, <1>8, <2>1
  <2>3. \A d, e \in finalized' : d # e => d.last < e.first \/ e.last < d.first
    <3>1. \A d \in finalized : d.last < c.first
      BY <1>3, <1>7, <2>1
    <3>2. QED
      BY <1>8, <3>1 DEF ChunksTile
  <2>4. \A b \in 0 .. F + Cut : \E d \in finalized' : d.first <= b /\ b <= d.last
    <3> SUFFICES ASSUME NEW b \in 0 .. F + Cut
                 PROVE  \E d \in finalized' : d.first <= b /\ b <= d.last
      OBVIOUS
    <3>1. CASE b \in 0 .. F
      <4>1. \E d \in finalized : d.first <= b /\ b <= d.last
        BY <1>1, <3>1 DEF ChunksTile, HasIndex, F
      <4>2. QED
        BY <1>8, <4>1
    <3>2. CASE b \notin 0 .. F
      <4>1. c.first <= b /\ b <= c.last
        BY <1>3, <1>6, <1>7, <3>2
      <4>2. QED
        BY <1>8, <4>1
    <3>3. QED
      BY <3>1, <3>2
  <2>5. QED
    BY <1>9, <2>2, <2>3, <2>4 DEF ChunksTile
<1>12. HasIndex'
  BY <1>1, <1>8, <1>10 DEF HasIndex
<1>13. RipeAhead'
  <2>1. \A b \in ripe : b > F + Cut
    <3>1. \A b \in ripe : b \in Nat /\ b > newStage
      BY <1>1, NameFacts DEF RipeAhead, AfterCopy, AfterStage, TypeOK, BlazeOK
    <3>2. QED
      BY <1>2, <1>3, <1>6, <3>1
  <2>2. QED
    BY <1>1, <1>9, <2>1 DEF RipeAhead, AfterCopy, AfterStage
<1>14. OneStage' /\ TmpFnFollows' /\ Copied'
  BY <1>1 DEF OneStage, TmpFnFollows, HasTmpFn, Copied, Staged
<1>15. Rewritten'
  BY <1>1, <1>6, <1>9 DEF Rewritten, Cut, s
<1>16. OnceInv'
  BY <1>11, <1>12, <1>13, <1>14, <1>15
<1>17. F + Cut \in F + 1 .. newStage
  BY <1>2, <1>3, <1>6
<1>18. Names' = Names \cup {<<F + 1, F + Cut>>}
  BY <1>6, <1>10
<1>19. QED
  BY <1>9, <1>16, <1>17, <1>18

\* Every step keeps the invariant: a Ctrl-C only counts, nobody kills the process, and
\* no write fails unseen.
LEMMA OnceNext ==
    ASSUME "kill" \notin FaultKinds, "write" \notin FaultKinds, MaxSignals <= 2
    PROVE  TypeInv /\ OnceInv /\ [Next]_vars => OnceInv'
<1> SUFFICES ASSUME TypeInv, OnceInv, [Next]_vars PROVE OnceInv'
  OBVIOUS
<1> USE DEF OnceInv
<1>a. TypeOK /\ StageThere
  BY DEF TypeInv
<1>b. FinalBlock \in Block /\ FinalBlock \in Nat
  BY <1>a, FinalBlockFacts, NameFacts DEF TypeOK, IndexOK, ChunkSet
<1>c. TypeOK'
  BY TypeNext DEF TypeInv
<1>1. CASE StartFirst
  <2>1. finalized' = finalized
    BY <1>1 DEF StartFirst, index
  <2>2. ChunksTile' /\ FinalBlock' = FinalBlock /\ Names' = Names
    BY <2>1, SameIndex
  <2>3. HasIndex'
    <3>1. finalized = {} /\ Names = {}
      BY <1>1 DEF StartFirst, HasIndex, Names
    <3>2. blooms' = {<<0, 0>>} /\ pc' = "zero"
      BY <1>1, <3>1 DEF StartFirst, HasIndex, Goto
    <3>3. QED
      BY <2>1, <3>1, <3>2 DEF HasIndex
  <2>4. RipeAhead'
    BY <1>1, <1>a, <2>1, <2>2
    DEF StartFirst, Goto, RipeAhead, AfterCopy, AfterStage, blaze, locals
  <2>5. OneStage'
    BY <1>1, <1>a, <2>1, <2>2 DEF StartFirst, Goto, OneStage, Staged, stage
  <2>6. TmpFnFollows'
    BY <1>1, <1>a, <2>1, <2>2
    DEF StartFirst, Goto, TmpFnFollows, HasTmpFn, Staged, stage, locals, range
  <2>7. Copied'
    BY <1>1, <1>a, <2>1, <2>2 DEF StartFirst, Goto, Copied, Staged, stage, locals
  <2>8. Rewritten'
    BY <1>1, <1>a, <2>1, <2>2 DEF StartFirst, Goto, Rewritten
  <2>9. QED
    BY <2>2, <2>3, <2>4, <2>5, <2>6, <2>7, <2>8
<1>2. CASE StartZero
  <2> DEFINE c == Chunk(<<0>>)
  <2>1. c.first = 0 /\ c.last = 0 /\ c.blocks = <<0>> /\ Name(c) = <<0, 0>>
    BY DEF Chunk, Name
  <2>a. finalized = {} /\ finalized' = {c} /\ blooms = {<<0, 0>>} /\ blooms' = blooms
           /\ pc' = "idle" /\ UNCHANGED <<ripe, tmpFile>> /\ RemoveTmpFn /\ tmpFile = << >>
    BY <1>2 DEF StartZero, CleanOnStart, Goto, HasIndex, Copied
  <2>b. Names' = {<<0, 0>>}
    BY <2>1, <2>a DEF Names
  <2>c. {d.last : d \in finalized'} = {0}
    BY <2>1, <2>a
  <2>d. Max({0}) = 0
    BY MaxExists
  <2>e. FinalBlock' = 0 /\ FinalBlock = 0
    BY <2>a, <2>c, <2>d DEF FinalBlock
  <2>2. ChunksTile'
    <3>1. Run(0, 0) = <<0>>
      BY DEF Run
    <3> HIDE DEF c
    <3>2. QED
      BY <2>1, <2>a, <2>e, <3>1 DEF ChunksTile
  <2> HIDE DEF c
  <2>3. HasIndex'
    BY <2>a, <2>b DEF HasIndex
  <2>4. RipeAhead'
    BY <2>a, <2>e DEF RipeAhead, AfterCopy, AfterStage
  <2>5. OneStage'
    BY <1>2, <1>a, <2>a, <2>e, RemoveTmpFnFacts DEF StartZero, OneStage
  <2>6. TmpFnFollows' /\ Copied' /\ Rewritten'
    BY <2>a DEF TmpFnFollows, HasTmpFn, Copied, Rewritten
  <2>7. QED
    BY <2>2, <2>3, <2>4, <2>5, <2>6
<1>3. CASE Start
  <2>1. pc = "down" /\ pc' = "idle" /\ UNCHANGED <<index, tmpFile, ripe>> /\ RemoveTmpFn
    BY <1>3 DEF Start, CleanOnStart, Goto, index
  <2>2. finalized # {}
    BY <1>3 DEF Start, HasIndex, Names
  <2>3. QED
    BY <1>a, <2>1, <2>2, GiveUp, RemoveTmpFnFacts
<1>4. CASE LoopExit
  <2>1. pc' \in {"down", "idle", "cleanup"} /\ finalized # {}
    BY <1>4 DEF LoopExit, Terminate, EndPass, Goto, HasIndex
  <2>2. UNCHANGED <<index, staging, content, tmpFile>> /\ ripe' \subseteq ripe
    BY <1>4 DEF LoopExit, index, stage, blaze
  <2>3. QED
    BY <1>4, <2>1, <2>2, GiveUp DEF LoopExit, Staged
<1>5. CASE BeginPass
  <2>1. Staged' = Staged /\ content'[TmpFn] = << >>
           /\ \A n \in Staged : content'[n] = content[n]
    BY <1>5, <1>a, NameFacts DEF BeginPass, Staged, TypeOK, StageOK
  <2>2. QED
    BY <1>5, <2>1, StartPassOnce DEF BeginPass
<1>6. CASE BeginUnopened
  <2>1. Staged' = Staged /\ content' = content
    BY <1>6 DEF BeginUnopened, Staged
  <2>2. QED
    BY <1>6, <2>1, StartPassOnce DEF BeginUnopened
<1>7. CASE QuitBeforeBlaze
  <2>1. pc' \in {"down", "idle", "cleanup"} /\ finalized # {}
    BY <1>7 DEF QuitBeforeBlaze, Terminate, EndPass, Goto, HasIndex
  <2>2. UNCHANGED <<index, staging, content, tmpFile>> /\ ripe' \subseteq ripe
    BY <1>7 DEF QuitBeforeBlaze, index, stage, blaze
  <2>3. QED
    BY <1>7, <2>1, <2>2, GiveUp DEF QuitBeforeBlaze, Staged
<1>8. CASE RunBlaze
  <2>1. finalized' = finalized
    BY <1>8 DEF RunBlaze, index
  <2>2. ChunksTile' /\ FinalBlock' = FinalBlock /\ Names' = Names
    BY <2>1, SameIndex
  <2>3. HasIndex'
    BY <1>8, <1>a, <2>1, <2>2 DEF RunBlaze, Goto, range, HasIndex, index
  <2>4. RipeAhead'
    BY <1>8, <1>a, <2>1, <2>2
    DEF RunBlaze, Goto, range, RipeAhead, AfterCopy, AfterStage, blaze, locals
  <2>5. OneStage'
    BY <1>8, <1>a, <2>1, <2>2 DEF RunBlaze, Goto, range, OneStage, Staged, stage
  <2>6. TmpFnFollows'
    BY <1>8, <1>a, <2>1, <2>2
    DEF RunBlaze, Goto, range, TmpFnFollows, HasTmpFn, Staged, stage, locals, range
  <2>7. Copied'
    BY <1>8, <1>a, <2>1, <2>2 DEF RunBlaze, Goto, range, Copied, Staged, stage, locals
  <2>8. Rewritten'
    BY <1>8, <1>a, <2>1, <2>2 DEF RunBlaze, Goto, range, Rewritten
  <2>9. QED
    BY <2>2, <2>3, <2>4, <2>5, <2>6, <2>7, <2>8
<1>9. ASSUME NEW b \in Block, BlazeWrite(b) PROVE OnceInv'
  <2>1. finalized' = finalized
    BY <1>9 DEF BlazeWrite, index
  <2>2. ChunksTile' /\ FinalBlock' = FinalBlock /\ Names' = Names
    BY <2>1, SameIndex
  <2>3. HasIndex'
    BY <1>9, <1>a, <2>1, <2>2 DEF BlazeWrite, Goto, HasIndex, index
  <2>4. RipeAhead'
    <3>1. FinalBlock \in Nat /\ blazeStart \in Nat /\ blazeStart > FinalBlock
             /\ b \in BlazeRange /\ pc' = pc /\ pc = "blaze" /\ blazeStart' = blazeStart
      BY <1>9, <1>a, <1>b DEF BlazeWrite, RipeAhead, TypeOK, LocalsOK, locals, range
    <3>2. b > FinalBlock
      BY <1>a, <3>1 DEF BlazeRange, TypeOK, LocalsOK
    <3>3. \A d \in ripe' : d > FinalBlock
      BY <1>9, <3>2 DEF BlazeWrite, RipeAhead
    <3>4. QED
      BY <2>2, <3>1, <3>3 DEF RipeAhead, AfterCopy, AfterStage
  <2>5. OneStage'
    BY <1>9, <1>a, <2>1, <2>2 DEF BlazeWrite, Goto, OneStage, Staged, stage
  <2>6. TmpFnFollows'
    BY <1>9, <1>a, <2>1, <2>2
    DEF BlazeWrite, Goto, TmpFnFollows, HasTmpFn, Staged, stage, locals, range
  <2>7. Copied'
    BY <1>9, <1>a, <2>1, <2>2 DEF BlazeWrite, Goto, Copied, Staged, stage, locals
  <2>8. Rewritten'
    BY <1>9, <1>a, <2>1, <2>2 DEF BlazeWrite, Goto, Rewritten
  <2>9. QED
    BY <2>2, <2>3, <2>4, <2>5, <2>6, <2>7, <2>8
<1>10. CASE BlazeDone
  <2>a. CASE exporting \/ ~ tmpOpen
    <3>1. pc = "blaze" /\ pc' = "idle" /\ finalized # {} /\ UNCHANGED <<index, stage, ripe>>
      BY <1>10, <2>a DEF BlazeDone, EndPass, HasIndex, blaze
    <3>2. QED
      BY <3>1, GiveUp DEF stage, Staged
  <2>b. CASE ~ (exporting \/ ~ tmpOpen)
    <3>1. finalized' = finalized
      BY <1>10 DEF BlazeDone, index
    <3>2. ChunksTile' /\ FinalBlock' = FinalBlock /\ Names' = Names
      BY <3>1, SameIndex
    <3>3. HasIndex'
      BY <1>10, <1>a, <2>b, <3>1, <3>2 DEF BlazeDone, Goto, HasIndex, index
    <3>4. RipeAhead'
      BY <1>10, <1>a, <2>b, <3>1, <3>2
      DEF BlazeDone, Goto, RipeAhead, AfterCopy, AfterStage, blaze, locals
    <3>5. OneStage'
      BY <1>10, <1>a, <2>b, <3>1, <3>2 DEF BlazeDone, Goto, OneStage, Staged, stage
    <3>6. TmpFnFollows'
      BY <1>10, <1>a, <2>b, <3>1, <3>2
      DEF BlazeDone, Goto, TmpFnFollows, HasTmpFn, Staged, stage, locals, range
    <3>7. Copied'
      BY <1>10, <1>a, <2>b, <3>1, <3>2
      DEF BlazeDone, Goto, Copied, Staged, stage, locals
    <3>8. Rewritten'
      BY <1>10, <1>a, <2>b, <3>1, <3>2 DEF BlazeDone, Goto, Rewritten
    <3>9. QED
      BY <3>2, <3>3, <3>4, <3>5, <3>6, <3>7, <3>8
  <2>c. QED
    BY <2>a, <2>b
<1>11. CASE BlazeFail
  <2>1. pc' \in {"down", "idle", "cleanup"} /\ finalized # {}
    BY <1>11 DEF BlazeFail, Terminate, EndPass, Goto, HasIndex
  <2>2. UNCHANGED <<index, staging, content, tmpFile>> /\ ripe' \subseteq ripe
    BY <1>11 DEF BlazeFail, index, stage, blaze
  <2>3. QED
    BY <1>11, <2>1, <2>2, GiveUp DEF BlazeFail, Staged
<1>12. CASE CopyRipe
  <2>1. finalized' = finalized
    BY <1>12 DEF CopyRipe, index
  <2>2. ChunksTile' /\ FinalBlock' = FinalBlock /\ Names' = Names
    BY <2>1, SameIndex
  <2> DEFINE bn == Min(ripe)
  <2>a. bn \in ripe /\ bn \in Block /\ bn = prevBlock + 1 /\ \A d \in ripe : bn <= d
    BY <1>12, <1>a, MinBlocks DEF CopyRipe, TypeOK, BlazeOK
  <2>b. bn \in Nat /\ prevBlock \in Block /\ prevBlock \in Nat /\ bn > FinalBlock
    BY <1>a, <2>a, NameFacts DEF TypeOK, LocalsOK, RipeAhead
  <2>c. pc = "copy" /\ pc' \in {"stage", "cleanup", "copy"} /\ prevBlock' = bn
           /\ ripe' = ripe \ {bn} /\ UNCHANGED <<blooms, staging, tmpFile>>
    BY <1>12 DEF CopyRipe, index
  <2>d. Append(Run(FinalBlock + 1, prevBlock), bn) = Run(FinalBlock + 1, bn)
    BY <1>b, <2>a, <2>b, RunAppend
  <2>e. Staged' = Staged /\ \A n \in Staged : content'[n] = content[n]
    BY <1>12, <1>a DEF CopyRipe, Staged, TypeOK, StageOK
  <2>f. TmpFn \in staging => content'[TmpFn] = Append(content[TmpFn], bn)
    BY <1>12, <1>a DEF CopyRipe, TypeOK, StageOK
  <2> HIDE DEF bn
  <2>3. HasIndex'
    BY <2>1, <2>2, <2>c DEF HasIndex
  <2>4. RipeAhead'
    <3>1. \A d \in ripe' : d > bn /\ d \in Nat
      BY <1>a, <2>a, <2>b, <2>c, NameFacts DEF TypeOK, BlazeOK
    <3>2. QED
      BY <2>2, <2>c, <3>1 DEF RipeAhead, AfterCopy, AfterStage
  <2>5. OneStage'
    BY <2>2, <2>c, <2>e DEF OneStage
  <2>6. TmpFnFollows'
    <3> SUFFICES ASSUME HasTmpFn' PROVE
            /\ \A n \in Staged : content[n] \o content'[TmpFn] = Run(FinalBlock + 1, bn)
            /\ Staged = {} => content'[TmpFn] = Run(FinalBlock + 1, bn)
      BY <2>2, <2>c, <2>e DEF TmpFnFollows
    <3>1. TmpFn \in staging /\ HasTmpFn
      BY <2>c DEF HasTmpFn
    <3>2. content[TmpFn] \in Seq(Block)
      BY <1>a, NameFacts DEF TypeOK, StageOK
    <3>3. ASSUME NEW n \in Staged
          PROVE  content[n] \o content'[TmpFn] = Run(FinalBlock + 1, bn)
      <4>1. content[n] \in Seq(Block)
        BY <1>a DEF TypeOK, StageOK, Staged
      <4>2. content[n] \o content[TmpFn] = Run(FinalBlock + 1, prevBlock)
        BY <3>1 DEF TmpFnFollows
      <4>3. content[n] \o Append(content[TmpFn], bn) = Append(content[n] \o content[TmpFn], bn)
        BY <2>a, <3>2, <4>1, AppendEnd
      <4>4. QED
        BY <2>d, <2>f, <3>1, <4>2, <4>3
    <3>4. Staged = {} => content'[TmpFn] = Run(FinalBlock + 1, bn)
      BY <2>d, <2>f, <3>1 DEF TmpFnFollows
    <3>5. QED
      BY <3>3, <3>4
  <2>7. Copied'
    BY <2>c DEF Copied
  <2>8. Rewritten'
    BY <2>c DEF Rewritten
  <2>9. QED
    BY <2>2, <2>3, <2>4, <2>5, <2>6, <2>7, <2>8
<1>13. CASE CopyOutOfSequence
  <2>1. pc' \in {"down", "idle", "cleanup"} /\ finalized # {}
    BY <1>13 DEF CopyOutOfSequence, Terminate, EndPass, Goto, HasIndex
  <2>2. UNCHANGED <<index, staging, content, tmpFile>> /\ ripe' \subseteq ripe
    BY <1>13 DEF CopyOutOfSequence, index, stage, blaze
  <2>3. QED
    BY <1>13, <2>1, <2>2, GiveUp DEF CopyOutOfSequence, Staged
<1>14. CASE CopyFail
  <2>1. pc' \in {"down", "idle", "cleanup"} /\ finalized # {}
    BY <1>14 DEF CopyFail, Terminate, EndPass, Goto, HasIndex
  <2>2. UNCHANGED <<index, staging, content, tmpFile>> /\ ripe' \subseteq ripe
    BY <1>14 DEF CopyFail, index, stage, blaze
  <2>3. QED
    BY <1>14, <2>1, <2>2, GiveUp DEF CopyFail, Staged
<1>15. CASE CopyDone
  <2>1. finalized' = finalized
    BY <1>15 DEF CopyDone, index
  <2>2. ChunksTile' /\ FinalBlock' = FinalBlock /\ Names' = Names
    BY <2>1, SameIndex
  <2>3. HasIndex'
    BY <1>15, <1>a, <2>1, <2>2 DEF CopyDone, range, HasIndex, index
  <2>4. RipeAhead'
    BY <1>15, <1>a, <2>1, <2>2
    DEF CopyDone, range, RipeAhead, AfterCopy, AfterStage, blaze, locals
  <2>5. OneStage'
    BY <1>15, <1>a, <2>1, <2>2 DEF CopyDone, range, OneStage, Staged, stage
  <2>6. TmpFnFollows'
    BY <1>15, <1>a, <2>1, <2>2
    DEF CopyDone, range, TmpFnFollows, HasTmpFn, Staged, stage, locals, range
  <2>7. Copied'
    BY <1>15, <1>a, <2>1, <2>2 DEF CopyDone, range, Copied, Staged, stage, locals
  <2>8. Rewritten'
    BY <1>15, <1>a, <2>1, <2>2 DEF CopyDone, range, Rewritten
  <2>9. QED
    BY <2>2, <2>3, <2>4, <2>5, <2>6, <2>7, <2>8
<1>16. CASE Cleanup
  <2>1. pc = "cleanup" /\ pc' = "idle" /\ UNCHANGED <<index, tmpFile>> /\ RemoveTmpFn
           /\ ripe' \subseteq ripe
    BY <1>16 DEF Cleanup, EndPass, index
  <2>2. finalized # {}
    BY <2>1 DEF HasIndex
  <2>3. QED
    BY <1>a, <2>1, <2>2, GiveUp, RemoveTmpFnFacts
<1>17. CASE StageSame
  <2>1. finalized' = finalized
    BY <1>17 DEF StageSame, index
  <2>2. ChunksTile' /\ FinalBlock' = FinalBlock /\ Names' = Names
    BY <2>1, SameIndex
  <2>3. HasIndex'
    BY <1>17, <1>a, <2>1, <2>2 DEF StageSame, range, HasIndex, index
  <2>4. RipeAhead'
    BY <1>17, <1>a, <2>1, <2>2
    DEF StageSame, range, RipeAhead, AfterCopy, AfterStage, blaze, locals
  <2>5. OneStage'
    BY <1>17, <1>a, <2>1, <2>2 DEF StageSame, range, OneStage, Staged, stage
  <2>6. TmpFnFollows'
    BY <1>17, <1>a, <2>1, <2>2
    DEF StageSame, range, TmpFnFollows, HasTmpFn, Staged, stage, locals, range
  <2>7. Copied'
    BY <1>17, <1>a, <2>1, <2>2 DEF StageSame, range, Copied, Staged, stage, locals
  <2>8. Rewritten'
    BY <1>17, <1>a, <2>1, <2>2 DEF StageSame, range, Rewritten
  <2>9. QED
    BY <2>2, <2>3, <2>4, <2>5, <2>6, <2>7, <2>8
<1>18. CASE StageAppendOld
  <2>1. finalized' = finalized
    BY <1>18 DEF StageAppendOld, index
  <2>2. ChunksTile' /\ FinalBlock' = FinalBlock /\ Names' = Names
    BY <2>1, SameIndex
  <2>3. HasIndex'
    BY <1>18, <1>a, <2>1, <2>2 DEF StageAppendOld, range, HasIndex, index
  <2>4. RipeAhead'
    BY <1>18, <1>a, <2>1, <2>2
    DEF StageAppendOld, range, RipeAhead, AfterCopy, AfterStage, blaze, locals
  <2>5. OneStage'
    BY <1>18, <1>a, <2>1, <2>2 DEF StageAppendOld, range, OneStage, Staged, stage
  <2>6. TmpFnFollows'
    BY <1>18, <1>a, <2>1, <2>2
    DEF StageAppendOld, range, TmpFnFollows, HasTmpFn, Staged, stage, locals, range
  <2>7. Copied'
    <3>1. staging # {} /\ tmpFile = << >> /\ pc' = "append" /\ newStage' = prevBlock
             /\ UNCHANGED <<staging, content>>
      BY <1>18, <1>a DEF StageAppendOld, StageThere, Copied
    <3>2. Max(staging) \in staging /\ Max(staging) \in StageName
             /\ \A n \in staging : Max(staging) >= n
      BY <1>a, <3>1, MaxBlocks DEF TypeOK, StageOK
    <3>3. CASE Max(staging) = TmpFn
      <4>1. Staged = {}
        <5>1. \A n \in Staged : n \in Nat /\ Max(staging) >= n
          BY <1>a, <3>2, NameFacts DEF TypeOK, StageOK, Staged
        <5>2. QED
          BY <3>3, <5>1 DEF TmpFn
      <4>2. tmpFile' = << >> /\ content[TmpFn] \in Seq(Block)
        BY <1>18, <1>a, <3>1, <3>3, NameFacts DEF StageAppendOld, TypeOK, StageOK
      <4>3. << >> \o content[TmpFn] = content[TmpFn]
        BY <4>2, EmptyEnd
      <4>4. content[TmpFn] = Run(FinalBlock + 1, prevBlock)
        BY <1>18, <3>2, <3>3, <4>1 DEF StageAppendOld, TmpFnFollows, HasTmpFn
      <4>5. QED
        BY <2>2, <3>1, <4>1, <4>2, <4>3, <4>4 DEF Copied, Staged
    <3>4. CASE Max(staging) # TmpFn
      <4> DEFINE m == Max(staging)
      <4>1. m \in Staged /\ \A n \in Staged : n = m
        BY <1>18, <3>2, <3>4 DEF StageAppendOld, Staged, OneStage
      <4>2. content[m] \in Seq(Block)
        BY <1>a, <3>2 DEF TypeOK, StageOK
      <4>3. tmpFile' = content[m] /\ oldStage' = m
        BY <1>18, <3>1, <3>4, <4>2, EmptyEnd DEF StageAppendOld
      <4> HIDE DEF m
      <4>4. TmpFn \in staging =>
               content[m] \o content[TmpFn] = Run(FinalBlock + 1, prevBlock)
        BY <1>18, <4>1 DEF StageAppendOld, TmpFnFollows, HasTmpFn
      <4>5. QED
        BY <2>2, <3>1, <4>1, <4>3, <4>4 DEF Copied, Staged
    <3>5. QED
      BY <3>3, <3>4
  <2>8. Rewritten'
    BY <1>18, <1>a, <2>1, <2>2 DEF StageAppendOld, range, Rewritten
  <2>9. QED
    BY <2>2, <2>3, <2>4, <2>5, <2>6, <2>7, <2>8
<1>19. CASE StageFailOld
  <2>1. finalized' = finalized
    BY <1>19 DEF StageFailOld, index
  <2>2. ChunksTile' /\ FinalBlock' = FinalBlock /\ Names' = Names
    BY <2>1, SameIndex
  <2>3. HasIndex'
    BY <1>19, <1>a, <2>1, <2>2 DEF StageFailOld, range, HasIndex, index
  <2>4. RipeAhead'
    BY <1>19, <1>a, <2>1, <2>2
    DEF StageFailOld, range, RipeAhead, AfterCopy, AfterStage, blaze, locals
  <2>5. OneStage'
    BY <1>19, <1>a, <2>1, <2>2 DEF StageFailOld, range, OneStage, Staged, stage
  <2>6. TmpFnFollows'
    BY <1>19, <1>a, <2>1, <2>2
    DEF StageFailOld, range, TmpFnFollows, HasTmpFn, Staged, stage, locals, range
  <2>7. Copied'
    BY <1>19, <1>a, <2>1, <2>2 DEF StageFailOld, range, Copied, Staged, stage, locals
  <2>8. Rewritten'
    BY <1>19, <1>a, <2>1, <2>2 DEF StageFailOld, range, Rewritten
  <2>9. QED
    BY <2>2, <2>3, <2>4, <2>5, <2>6, <2>7, <2>8
<1>20. CASE StageAppendNew
  <2>1. finalized' = finalized
    BY <1>20 DEF StageAppendNew, index
  <2>2. ChunksTile' /\ FinalBlock' = FinalBlock /\ Names' = Names
    BY <2>1, SameIndex
  <2>3. HasIndex'
    BY <1>20, <1>a, <2>1, <2>2 DEF StageAppendNew, Goto, HasIndex, index
  <2>4. RipeAhead'
    BY <1>20, <1>a, <2>1, <2>2
    DEF StageAppendNew, Goto, RipeAhead, AfterCopy, AfterStage, blaze, locals
  <2>5. OneStage'
    BY <1>20, <1>a, <2>1, <2>2 DEF StageAppendNew, Goto, OneStage, Staged, stage
  <2>6. TmpFnFollows'
    BY <1>20, <1>a, <2>1, <2>2
    DEF StageAppendNew, Goto, TmpFnFollows, HasTmpFn, Staged, stage, locals, range
  <2>7. Copied'
    BY <1>20, <1>a, <2>1, <2>2 DEF StageAppendNew, Goto, Copied, Staged, stage, locals
  <2>8. Rewritten'
    BY <1>20, <1>a, <2>1, <2>2 DEF StageAppendNew, Goto, Rewritten
  <2>9. QED
    BY <2>2, <2>3, <2>4, <2>5, <2>6, <2>7, <2>8
<1>21. CASE StageFailNew
  <2>1. finalized' = finalized
    BY <1>21 DEF StageFailNew, index
  <2>2. ChunksTile' /\ FinalBlock' = FinalBlock /\ Names' = Names
    BY <2>1, SameIndex
  <2>3. HasIndex'
    BY <1>21, <1>a, <2>1, <2>2 DEF StageFailNew, Goto, HasIndex, index
  <2>4. RipeAhead'
    BY <1>21, <1>a, <2>1, <2>2
    DEF StageFailNew, Goto, RipeAhead, AfterCopy, AfterStage, blaze, locals
  <2>5. OneStage'
    BY <1>21, <1>a, <2>1, <2>2 DEF StageFailNew, Goto, OneStage, Staged, stage
  <2>6. TmpFnFollows'
    BY <1>21, <1>a, <2>1, <2>2
    DEF StageFailNew, Goto, TmpFnFollows, HasTmpFn, Staged, stage, locals, range
  <2>7. Copied'
    BY <1>21, <1>a, <2>1, <2>2 DEF StageFailNew, Goto, Copied, Staged, stage, locals
  <2>8. Rewritten'
    BY <1>21, <1>a, <2>1, <2>2 DEF StageFailNew, Goto, Rewritten
  <2>9. QED
    BY <2>2, <2>3, <2>4, <2>5, <2>6, <2>7, <2>8
<1>22. CASE StageRename
  <2>1. finalized' = finalized
    BY <1>22 DEF StageRename, index
  <2>2. ChunksTile' /\ FinalBlock' = FinalBlock /\ Names' = Names
    BY <2>1, SameIndex
  <2>a. newStage \in Block /\ newStage \in StageName /\ newStage # TmpFn
           /\ content'[newStage] = tmpFile /\ Staged' = Staged \cup {newStage}
    BY <1>22, <1>a, NameFacts DEF StageRename, TypeOK, LocalsOK, StageOK, Staged
  <2>b. pc = "rename" /\ pc' = "drop" /\ tmpFile' = << >>
           /\ UNCHANGED <<oldStage, newStage>>
    BY <1>22 DEF StageRename, Goto, locals
  <2>3. HasIndex'
    BY <1>22, <1>a, <2>1, <2>2 DEF StageRename, Goto, HasIndex, index
  <2>4. RipeAhead'
    BY <1>22, <1>a, <2>1, <2>2
    DEF StageRename, Goto, RipeAhead, AfterCopy, AfterStage, blaze, locals
  <2>5. OneStage'
    BY <2>b DEF OneStage
  <2>6. TmpFnFollows'
    BY <1>22, <1>a, <2>1, <2>2
    DEF StageRename, Goto, TmpFnFollows, HasTmpFn, Staged, stage, locals, range
  <2>7. Copied'
    BY <2>2, <2>a, <2>b DEF Copied
  <2>8. Rewritten'
    BY <1>22, <1>a, <2>1, <2>2 DEF StageRename, Goto, Rewritten
  <2>9. QED
    BY <2>2, <2>3, <2>4, <2>5, <2>6, <2>7, <2>8
<1>23. CASE StageDrop
  <2>1. finalized' = finalized
    BY <1>23 DEF StageDrop, index
  <2>2. ChunksTile' /\ FinalBlock' = FinalBlock /\ Names' = Names
    BY <2>1, SameIndex
  <2>a. newStage \in Block /\ newStage \in StageName /\ newStage # TmpFn
    BY <1>a, NameFacts DEF TypeOK, LocalsOK
  <2>b. pc = "drop" /\ pc' = "staged" /\ UNCHANGED <<newStage, tmpFile>>
    BY <1>23 DEF StageDrop, Goto, locals
  <2>c. Staged' \subseteq {newStage} /\ TmpFn \notin staging'
    BY <1>23, <2>b DEF StageDrop, Staged, Copied
  <2>d. content'[newStage] = content[newStage]
    BY <1>23, <2>a DEF StageDrop
  <2>3. HasIndex'
    BY <1>23, <1>a, <2>1, <2>2 DEF StageDrop, Goto, HasIndex, index
  <2>4. RipeAhead'
    BY <1>23, <1>a, <2>1, <2>2
    DEF StageDrop, Goto, RipeAhead, AfterCopy, AfterStage, blaze, locals
  <2>5. OneStage'
    BY <2>2, <2>b, <2>c, <2>d DEF OneStage, Copied
  <2>6. TmpFnFollows'
    BY <2>b, <2>c DEF TmpFnFollows, HasTmpFn
  <2>7. Copied'
    BY <2>b DEF Copied
  <2>8. Rewritten'
    BY <1>23, <1>a, <2>1, <2>2 DEF StageDrop, Goto, Rewritten
  <2>9. QED
    BY <2>2, <2>3, <2>4, <2>5, <2>6, <2>7, <2>8
<1>24. CASE StageFailed
  <2>a. pc = "stageFailed" /\ pc' \in {"cleanup", "staged"} /\ RemoveTmpFn /\ ripe' = {}
           /\ finalized # {} /\ UNCHANGED <<index, tmpFile, newStage, prevBlock>>
    BY <1>24 DEF StageFailed, Goto, HasIndex, locals
  <2>b. Staged' = Staged /\ TmpFn \notin staging'
           /\ \A n \in Staged : content'[n] = content[n]
    BY <1>a, <2>a, RemoveTmpFnFacts
  <2>1. finalized' = finalized
    BY <1>24 DEF StageFailed, index
  <2>2. ChunksTile' /\ FinalBlock' = FinalBlock /\ Names' = Names
    BY <2>1, SameIndex
  <2>3. HasIndex'
    BY <2>2, <2>a DEF HasIndex, index
  <2>4. RipeAhead'
    BY <2>2, <2>a DEF RipeAhead, AfterCopy, AfterStage
  <2>5. OneStage'
    BY <2>2, <2>a, <2>b DEF OneStage
  <2>6. TmpFnFollows'
    BY <2>a, <2>b DEF TmpFnFollows, HasTmpFn
  <2>7. Copied'
    BY <2>a DEF Copied
  <2>8. Rewritten'
    BY <2>a DEF Rewritten
  <2>9. QED
    BY <2>2, <2>3, <2>4, <2>5, <2>6, <2>7, <2>8
<1>25. CASE SnapQuit
  <2>1. finalized' = finalized
    BY <1>25 DEF SnapQuit, index
  <2>2. ChunksTile' /\ FinalBlock' = FinalBlock /\ Names' = Names
    BY <2>1, SameIndex
  <2>3. HasIndex'
    BY <1>25, <1>a, <2>1, <2>2 DEF SnapQuit, Goto, HasIndex, index
  <2>4. RipeAhead'
    BY <1>25, <1>a, <2>1, <2>2
    DEF SnapQuit, Goto, RipeAhead, AfterCopy, AfterStage, blaze, locals
  <2>5. OneStage'
    BY <1>25, <1>a, <2>1, <2>2 DEF SnapQuit, Goto, OneStage, Staged, stage
  <2>6. TmpFnFollows'
    BY <1>25, <1>a, <2>1, <2>2
    DEF SnapQuit, Goto, TmpFnFollows, HasTmpFn, Staged, stage, locals, range
  <2>7. Copied'
    BY <1>25, <1>a, <2>1, <2>2 DEF SnapQuit, Goto, Copied, Staged, stage, locals
  <2>8. Rewritten'
    BY <1>25, <1>a, <2>1, <2>2 DEF SnapQuit, Goto, Rewritten
  <2>9. QED
    BY <2>2, <2>3, <2>4, <2>5, <2>6, <2>7, <2>8
<1>26. CASE SnapWrite
  <2>1. finalized' = finalized
    BY <1>26 DEF SnapWrite, index
  <2>2. ChunksTile' /\ FinalBlock' = FinalBlock /\ Names' = Names
    BY <2>1, SameIndex
  <2>3. HasIndex'
    BY <1>26, <1>a, <2>1, <2>2 DEF SnapWrite, range, HasIndex, index
  <2>4. RipeAhead'
    BY <1>26, <1>a, <2>1, <2>2
    DEF SnapWrite, range, RipeAhead, AfterCopy, AfterStage, blaze, locals
  <2>5. OneStage'
    BY <1>26, <1>a, <2>1, <2>2 DEF SnapWrite, range, OneStage, Staged, stage
  <2>6. TmpFnFollows'
    BY <1>26, <1>a, <2>1, <2>2
    DEF SnapWrite, range, TmpFnFollows, HasTmpFn, Staged, stage, locals, range
  <2>7. Copied'
    BY <1>26, <1>a, <2>1, <2>2 DEF SnapWrite, range, Copied, Staged, stage, locals
  <2>8. Rewritten'
    BY <1>26, <1>a, <2>1, <2>2 DEF SnapWrite, range, Rewritten
  <2>9. QED
    BY <2>2, <2>3, <2>4, <2>5, <2>6, <2>7, <2>8
<1>27. CASE Consolidate
  <2>a. CASE ~ (quit = 0 /\ NRecords(content[newStage]) > MaxRows)
    <3>1. pc = "staged" /\ pc' = "idle" /\ finalized # {} /\ UNCHANGED <<index, stage, ripe>>
      BY <1>27, <2>a DEF Consolidate, EndPass, HasIndex, blaze
    <3>2. QED
      BY <3>1, GiveUp DEF stage, Staged
  <2>b. CASE quit = 0 /\ NRecords(content[newStage]) > MaxRows
    <3>1. finalized' = finalized
      BY <1>27 DEF Consolidate, index
    <3>2. ChunksTile' /\ FinalBlock' = FinalBlock /\ Names' = Names
      BY <3>1, SameIndex
    <3>3. HasIndex'
      BY <1>27, <1>a, <2>b, <3>1, <3>2 DEF Consolidate, Goto, HasIndex, index
    <3>4. RipeAhead'
      BY <1>27, <1>a, <2>b, <3>1, <3>2
      DEF Consolidate, Goto, RipeAhead, AfterCopy, AfterStage, blaze, locals
    <3>5. OneStage'
      BY <1>27, <1>a, <2>b, <3>1, <3>2 DEF Consolidate, Goto, OneStage, Staged, stage
    <3>6. TmpFnFollows'
      BY <1>27, <1>a, <2>b, <3>1, <3>2
      DEF Consolidate, Goto, TmpFnFollows, HasTmpFn, Staged, stage, locals, range
    <3>7. Copied'
      BY <1>27, <1>a, <2>b, <3>1, <3>2
      DEF Consolidate, Goto, Copied, Staged, stage, locals
    <3>8. Rewritten'
      BY <1>27, <1>a, <2>b, <3>1, <3>2 DEF Consolidate, Goto, Rewritten
    <3>9. QED
      BY <3>2, <3>3, <3>4, <3>5, <3>6, <3>7, <3>8
  <2>c. QED
    BY <2>a, <2>b
<1>28. CASE WriteBloom
  <2>1. finalized' = finalized
    BY <1>28 DEF WriteBloom, index
  <2>2. ChunksTile' /\ FinalBlock' = FinalBlock /\ Names' = Names
    BY <2>1, SameIndex
  <2>3. HasIndex'
    BY <1>28, <2>1, <2>2 DEF WriteBloom, Goto, HasIndex, Cut, stage, locals
  <2>4. RipeAhead'
    BY <1>28, <1>a, <2>1, <2>2
    DEF WriteBloom, Goto, RipeAhead, AfterCopy, AfterStage, blaze, locals
  <2>5. OneStage'
    BY <1>28, <1>a, <2>1, <2>2 DEF WriteBloom, Goto, OneStage, Staged, stage
  <2>6. TmpFnFollows'
    BY <1>28, <1>a, <2>1, <2>2
    DEF WriteBloom, Goto, TmpFnFollows, HasTmpFn, Staged, stage, locals, range
  <2>7. Copied'
    BY <1>28, <1>a, <2>1, <2>2 DEF WriteBloom, Goto, Copied, Staged, stage, locals
  <2>8. Rewritten'
    BY <1>28, <1>a, <2>1, <2>2 DEF WriteBloom, Goto, Rewritten
  <2>9. QED
    BY <2>2, <2>3, <2>4, <2>5, <2>6, <2>7, <2>8
<1>29. CASE WriteBin
  BY <1>29, WriteBinOnce
<1>30. CASE RemoveStage
  <2>1. finalized' = finalized
    BY <1>30 DEF RemoveStage, index
  <2>2. ChunksTile' /\ FinalBlock' = FinalBlock /\ Names' = Names
    BY <2>1, SameIndex
  <2>a. newStage \in Block /\ newStage \in StageName /\ newStage # TmpFn
    BY <1>a, NameFacts DEF TypeOK, LocalsOK
  <2>b. pc = "unstage" /\ pc' = "rewrite"
           /\ UNCHANGED <<newStage, prevBlock, tmpFile, ripe, blooms>>
           /\ remaining' = SubSeq(content[newStage], Cut + 1, Len(content[newStage]))
    BY <1>30 DEF RemoveStage, index, blaze
  <2>c. newStage \in Staged
    BY <1>a, <2>a, <2>b DEF TypeOK, StageOK, StageThere, Staged
  <2>d. Staged' = {} /\ content'[newStage] = << >>
    BY <1>30, <1>a, <2>a, <2>b, <2>c DEF RemoveStage, OneStage, Staged, TypeOK, StageOK
  <2>e. remaining' = Run(FinalBlock + 1, newStage) /\ remaining' \in Seq(Block)
    BY <1>c, <2>b DEF Rewritten, TypeOK, LocalsOK
  <2>3. HasIndex'
    BY <2>1, <2>2, <2>b DEF HasIndex
  <2>4. RipeAhead'
    BY <2>2, <2>b DEF RipeAhead, AfterCopy, AfterStage
  <2>5. OneStage'
    BY <2>b, <2>d DEF OneStage
  <2>6. TmpFnFollows'
    BY <2>b DEF TmpFnFollows, HasTmpFn
  <2>7. Copied'
    BY <2>b DEF Copied
  <2>8. Rewritten'
    <3>1. Len(<< >>) = 0 /\ 0 <= Len(remaining')
      BY <2>e
    <3>2. SubSeq(remaining', 1, 0) = << >>
      BY <2>e
    <3>3. QED
      BY <2>2, <2>b, <2>d, <2>e, <3>1, <3>2 DEF Rewritten
  <2>9. QED
    BY <2>2, <2>3, <2>4, <2>5, <2>6, <2>7, <2>8
<1>31. CASE RewriteSome
  <2>1. finalized' = finalized
    BY <1>31 DEF RewriteSome, index
  <2>2. ChunksTile' /\ FinalBlock' = FinalBlock /\ Names' = Names
    BY <2>1, SameIndex
  <2>a. newStage \in Block /\ newStage \in StageName /\ newStage # TmpFn
    BY <1>a, NameFacts DEF TypeOK, LocalsOK
  <2>b. pc = "rewrite" /\ pc' = "rewrite"
           /\ UNCHANGED <<newStage, prevBlock, remaining, tmpFile, ripe, blooms>>
    BY <1>31 DEF RewriteSome, index, blaze, locals
  <2>c. Staged' \subseteq {newStage}
    BY <1>31, <2>b DEF RewriteSome, Staged, Rewritten
  <2>d. content'[newStage] = SubSeq(remaining, 1, Len(content[newStage]) + 1)
    BY <1>31, <1>a, <2>a DEF RewriteSome, TypeOK, StageOK
  <2>e. remaining \in Seq(Block) /\ Len(content[newStage]) + 1 \in 0 .. Len(remaining)
    BY <1>31, <1>a, <2>a DEF RewriteSome, TypeOK, LocalsOK, StageOK
  <2>f. Len(content'[newStage]) = Len(content[newStage]) + 1
    BY <2>d, <2>e, SubSeqFacts
  <2>3. HasIndex'
    BY <2>1, <2>2, <2>b DEF HasIndex
  <2>4. RipeAhead'
    BY <2>2, <2>b DEF RipeAhead, AfterCopy, AfterStage
  <2>5. OneStage'
    BY <2>b, <2>c DEF OneStage
  <2>6. TmpFnFollows'
    BY <2>b DEF TmpFnFollows, HasTmpFn
  <2>7. Copied'
    BY <2>b DEF Copied
  <2>8. Rewritten'
    <3>1. Len(content'[newStage]) <= Len(remaining)
      BY <2>e, <2>f
    <3>2. QED
      BY <2>2, <2>b, <2>c, <2>d, <2>f, <3>1 DEF Rewritten
  <2>9. QED
    BY <2>2, <2>3, <2>4, <2>5, <2>6, <2>7, <2>8
<1>32. CASE RewriteDone
  <2>1. finalized' = finalized
    BY <1>32 DEF RewriteDone, index
  <2>2. ChunksTile' /\ FinalBlock' = FinalBlock /\ Names' = Names
    BY <2>1, SameIndex
  <2>a. pc = "rewrite" /\ pc' = "write"
           /\ UNCHANGED <<newStage, prevBlock, staging, content, tmpFile, ripe, blooms>>
    BY <1>32 DEF RewriteDone, index, blaze, stage
  <2>b. remaining \in Seq(Block)
    BY <1>a DEF TypeOK, LocalsOK
  <2>c. SubSeq(remaining, 1, Len(remaining)) = remaining
    <3>1. Len(remaining) \in 0 .. Len(remaining)
      BY <2>b
    <3>2. QED
      BY <2>b, <3>1, SubSeqFacts, SeqEqual
  <2>d. content[newStage] = Run(FinalBlock + 1, newStage)
    BY <1>32, <2>c DEF RewriteDone, Rewritten
  <2>3. HasIndex'
    BY <2>1, <2>2, <2>a DEF HasIndex
  <2>4. RipeAhead'
    BY <2>2, <2>a DEF RipeAhead, AfterCopy, AfterStage
  <2>5. OneStage'
    BY <2>2, <2>a, <2>d DEF OneStage, Rewritten, Staged
  <2>6. TmpFnFollows'
    BY <2>a DEF TmpFnFollows, HasTmpFn
  <2>7. Copied'
    BY <2>a DEF Copied
  <2>8. Rewritten'
    BY <2>a DEF Rewritten
  <2>9. QED
    BY <2>2, <2>3, <2>4, <2>5, <2>6, <2>7, <2>8
<1>33. CASE WriteDone
  <2>1. pc' \in {"down", "idle", "cleanup"} /\ finalized # {}
    BY <1>33 DEF WriteDone, Terminate, EndPass, Goto, HasIndex
  <2>2. UNCHANGED <<index, staging, content, tmpFile>> /\ ripe' \subseteq ripe
    BY <1>33 DEF WriteDone, index, stage, blaze
  <2>3. QED
    BY <1>33, <2>1, <2>2, GiveUp DEF WriteDone, Staged
<1>34. CASE CtrlC
  <2>1. ~ (quit + 1 > 2)
    BY <1>34, <1>a, ScrapeConstants DEF CtrlC, TypeOK, ProcessOK
  <2>2. QED
    BY <1>34, <2>1, SameDisk DEF CtrlC, blaze
<1>35. CASE Kill
  BY <1>35 DEF Kill, Fault, Happens
<1>36. CASE HeadAdvance
  BY <1>36, SameDisk DEF HeadAdvance, blaze
<1>37. CASE Resync
  BY <1>37, SameDisk DEF Resync, Happens, blaze
<1>38. CASE ExportStart
  BY <1>38, SameDisk DEF ExportStart, Happens, blaze
<1>39. CASE ExportEnd
  BY <1>39, SameDisk DEF ExportEnd, blaze
<1>40. CASE UNCHANGED vars
  BY <1>40, SameDisk DEF vars, blaze
<1>41. CASE WriteFails
  BY <1>41 DEF WriteFails, FirstFails, ZeroFails, BloomFails, BinFails, RewriteFails,
                Fault, Happens
<1>42. QED
  BY <1>1, <1>2, <1>3, <1>4, <1>5, <1>6, <1>7, <1>8, <1>9, <1>10, <1>11, <1>12,
     <1>13, <1>14, <1>15, <1>16, <1>17, <1>18, <1>19, <1>20, <1>21, <1>22, <1>23, <1>24,
     <1>25, <1>26, <1>27, <1>28, <1>29, <1>30, <1>31, <1>32, <1>33, <1>34, <1>35, <1>36,
     <1>37, <1>38, <1>39, <1>40, <1>41
  DEF Next, Scraper, Faulty, World, Starting, Blazing, Copying, Staging, Writing

\* The index is empty to begin with.
LEMMA OnceInit == Init => OnceInv
<1> SUFFICES ASSUME Init PROVE OnceInv
  OBVIOUS
<1>1. ChunksTile /\ HasIndex /\ RipeAhead
  BY DEF Init, ChunksTile, HasIndex, Names, RipeAhead, AfterCopy, AfterStage
<1>2. OneStage /\ TmpFnFollows /\ Copied /\ Rewritten
  BY DEF Init, OneStage, TmpFnFollows, HasTmpFn, Copied, Rewritten, Staged
<1>3. QED
  BY <1>1, <1>2 DEF OnceInv

\* Every block from zero on gets into the index exactly once, in order and in the
\* chunk that its name promises, however passes, snaps, Ctrl-C's, failures of
\* blaze and of the disk, exports and re-syncs of the node interleave, for every
\* chain, MAX_ROWS, snap grid and n_blocks, provided that the scraper is neither
\* killed nor stopped on the spot by a third Ctrl-C, and that no write fails unseen.
THEOREM IndexedExactlyOnce ==
    ASSUME "kill" \notin FaultKinds, "write" \notin FaultKinds, MaxSignals <= 2
    PROVE  Spec => []IndexExactlyOnce
<1>1. OnceInv => IndexExactlyOnce
  BY DEF OnceInv, OneStage, IndexExactlyOnce, StageFollows
<1>2. QED
  BY TypeInit, TypeNext, OnceInit, OnceNext, <1>1, PTL DEF Spec

-----------------------------------------------------------------------------
(* Chunks are cut where the chain alone says *)

\* A non-empty set of numbers has a least one: induction, as these proofs use it.
LEMMA LeastOf ==
    ASSUME NEW S \in SUBSET Nat, S # {}
    PROVE  \E n \in S : \A k \in S : n <= k
  BY MinExists

\* What is built up in m steps from v0 on, step j making it from what the steps before
\* made: counting a file's
\* records, or putting them one block's after the other, builds something up.
BuildsUp(m, V, v0, T) == m \in Nat /\ v0 \in V /\ T \in [V \X (1 .. m) -> V]
Built(m, V, v0, T, f) ==
    /\ f \in [0 .. m -> V]
    /\ \A j \in 0 .. m : f[j] = IF j = 0 THEN v0 ELSE T[<<f[j - 1], j>>]

LEMMA RecursionExists ==
    ASSUME NEW m, NEW V, NEW v0, NEW T, BuildsUp(m, V, v0, T)
    PROVE  \E f : Built(m, V, v0, T, f)
<1> USE DEF BuildsUp, Built
<1> DEFINE Counts(n, f) == \A j \in 0 .. n : f[j] = IF j = 0 THEN v0 ELSE T[<<f[j - 1], j>>]
           Bad == {n \in 0 .. m : ~ \E f \in [0 .. n -> V] : Counts(n, f)}
<1>1. SUFFICES ASSUME Bad # {} PROVE FALSE
  <2>1. m \in 0 .. m
    OBVIOUS
  <2>2. QED
    BY <2>1, ZenonT(60)
<1>2. PICK n \in Bad : \A k \in Bad : n <= k
  <2>1. Bad \in SUBSET Nat
    OBVIOUS
  <2>2. QED
    BY <1>1, <2>1, LeastOf
<1>3. n \in 0 .. m /\ ~ \E f \in [0 .. n -> V] : Counts(n, f)
  BY Zenon
<1>4. n # 0
  <2>1. SUFFICES ASSUME n = 0 PROVE FALSE
    OBVIOUS
  <2> DEFINE f == [j \in 0 .. 0 |-> v0]
  <2>2. f \in [0 .. n -> V] /\ Counts(n, f)
    BY <2>1
  <2>3. QED
    BY <1>3, <2>2, Zenon
<1>5. n - 1 \in 0 .. m /\ n \in 1 .. m /\ n \in Nat
  BY <1>3, <1>4
<1>6. n - 1 \notin Bad
  <2> HIDE DEF Bad
  <2>1. n - 1 \in Bad => n <= n - 1
    BY <1>2, Zenon
  <2>2. QED
    BY <1>5, <2>1
<1>7. PICK f \in [0 .. n - 1 -> V] : Counts(n - 1, f)
  BY <1>5, <1>6, Zenon
<1> DEFINE g == [j \in 0 .. n |-> IF j = n THEN T[<<f[n - 1], n>>] ELSE f[j]]
<1>8. f[n - 1] \in V /\ T[<<f[n - 1], n>>] \in V
  BY <1>5
<1>9. g \in [0 .. n -> V]
  BY <1>5, <1>8
<1>10. \A j \in 0 .. n : g[j] = IF j = 0 THEN v0 ELSE T[<<g[j - 1], j>>]
  <2> SUFFICES ASSUME NEW j \in 0 .. n
               PROVE  g[j] = IF j = 0 THEN v0 ELSE T[<<g[j - 1], j>>]
    OBVIOUS
  <2>1. CASE j = n
    <3>1. n - 1 \in 0 .. n /\ n - 1 # n
      BY <1>5
    <3>2. g[n - 1] = f[n - 1] /\ g[n] = T[<<f[n - 1], n>>]
      BY <1>5, <3>1
    <3> HIDE DEF g
    <3>3. QED
      BY <1>4, <2>1, <3>2
  <2>2. CASE j # n
    <3>1. j \in 0 .. n - 1 /\ (j # 0 => j - 1 \in 0 .. n /\ j - 1 # n)
      BY <1>5, <2>2
    <3>2. f[j] = IF j = 0 THEN v0 ELSE T[<<f[j - 1], j>>]
      BY <1>7, <3>1
    <3>3. g[j] = f[j] /\ (j # 0 => g[j - 1] = f[j - 1])
      BY <2>2, <3>1
    <3>4. QED
      BY <3>2, <3>3
  <2>3. QED
    BY <2>1, <2>2
<1>11. Counts(n, g)
  BY <1>10
<1> HIDE DEF g, Counts
<1>12. QED
  BY <1>3, <1>9, <1>11, Zenon

\* Counting a file's records, or the records carried over along the chain, up to j from
\* what was counted up to j - 1: there is such a count.
LEMMA CountExists ==
    ASSUME NEW m \in Nat, NEW T \in [Nat \X (1 .. m) -> Nat]
    PROVE  \E f \in [0 .. m -> Nat] :
              \A j \in 0 .. m : f[j] = IF j = 0 THEN 0 ELSE T[<<f[j - 1], j>>]
<1> DEFINE V == Nat
           v0 == 0
<1>1. v0 \in V
  OBVIOUS
<1>2. T \in [V \X (1 .. m) -> V]
  OBVIOUS
<1> HIDE DEF V, v0
<1>3. \E f \in [0 .. m -> V] :
              \A j \in 0 .. m : f[j] = IF j = 0 THEN v0 ELSE T[<<f[j - 1], j>>]
  <2>1. BuildsUp(m, V, v0, T)
    BY <1>1, <1>2 DEF BuildsUp
  <2>2. \E f : Built(m, V, v0, T, f)
    BY <2>1, RecursionExists, Zenon
  <2>3. QED
    BY <2>2 DEF Built
<1>4. QED
  BY <1>3 DEF V, v0

\* The records carried over after a block, from those carried over after the one before.
NextCarried(n, b) == IF n + Weight[b] >= MaxRows \/ Snaps(b) THEN 0 ELSE n + Weight[b]

\* What Carried is.
LEMMA CarriedFacts ==
    /\ Carried[0] = 0
    /\ \A b \in Block : Carried[b] \in Nat
    /\ \A b \in Block \ {0} : Carried[b] = NextCarried(Carried[b - 1], b)
<1>0. MaxBlock \in Nat /\ Weight \in [Block -> Nat \ {0}] /\ Block = 0 .. MaxBlock
  BY ChunkConstants DEF Block
<1> DEFINE Is(f) == f = [b \in Block |->
                            IF b = 0 THEN 0
                            ELSE LET n == f[b - 1] + Weight[b]
                                 IN  IF n >= MaxRows \/ Snaps(b) THEN 0 ELSE n]
           T == [x \in Nat \X (1 .. MaxBlock) |-> NextCarried(x[1], x[2])]
<1>1. \A n \in Nat, b \in 1 .. MaxBlock : NextCarried(n, b) \in Nat
  BY <1>0 DEF NextCarried
<1>2. T \in [Nat \X (1 .. MaxBlock) -> Nat]
  BY <1>1
<1>3. \A n \in Nat, b \in 1 .. MaxBlock : T[<<n, b>>] = NextCarried(n, b)
  OBVIOUS
<1> HIDE DEF T
<1>4. PICK f \in [0 .. MaxBlock -> Nat] :
        \A b \in 0 .. MaxBlock : f[b] = IF b = 0 THEN 0 ELSE T[<<f[b - 1], b>>]
  BY <1>0, <1>2, CountExists
<1>5. \A b \in Block : f[b] = IF b = 0 THEN 0 ELSE NextCarried(f[b - 1], b)
  <2>1. \A b \in Block \ {0} : f[b - 1] \in Nat /\ b \in 1 .. MaxBlock
    BY <1>0
  <2>2. \A b \in Block \ {0} : T[<<f[b - 1], b>>] = NextCarried(f[b - 1], b)
    BY <1>3, <2>1, Zenon
  <2>3. QED
    BY <1>0, <1>4, <2>2
<1>6. Is(f)
  BY <1>0, <1>5 DEF NextCarried
<1>7. Carried = CHOOSE g : Is(g)
  BY DEF Carried
<1>8. Is(Carried)
  BY <1>6, <1>7, Zenon
<1>9. \A b \in Block : Carried[b] = IF b = 0 THEN 0 ELSE NextCarried(Carried[b - 1], b)
  BY <1>8 DEF NextCarried
<1> HIDE DEF Is
<1>10. \A b \in Block : Carried[b] \in Nat
  <2> DEFINE Bad == {b \in Block : Carried[b] \notin Nat}
  <2>1. SUFFICES ASSUME Bad # {} PROVE FALSE
    OBVIOUS
  <2>2. PICK b \in Bad : \A k \in Bad : b <= k
    <3>1. Bad \in SUBSET Nat
      BY <1>0
    <3>2. QED
      BY <2>1, <3>1, LeastOf
  <2>3. b \in Block /\ Carried[b] \notin Nat /\ b \in Nat
    BY <1>0
  <2>4. b # 0
    BY <1>9, <2>3
  <2>5. b - 1 \in Block /\ b - 1 \notin Bad /\ b \in 1 .. MaxBlock
    BY <1>0, <2>2, <2>3, <2>4
  <2>6. Carried[b - 1] \in Nat
    BY <2>5
  <2>7. QED
    BY <1>1, <1>9, <2>3, <2>4, <2>5, <2>6
<1>11. QED
  BY <1>0, <1>9, <1>10

\* What RecordsUpTo counts.
LEMMA RecordsFacts ==
    ASSUME NEW s \in Seq(Block)
    PROVE  /\ RecordsUpTo(s, 0) = 0
           /\ \A j \in 0 .. Len(s) : RecordsUpTo(s, j) \in Nat
           /\ \A j \in 1 .. Len(s) : RecordsUpTo(s, j) = RecordsUpTo(s, j - 1) + Weight[s[j]]
<1>0. Weight \in [Block -> Nat \ {0}] /\ Len(s) \in Nat
         /\ \A j \in 1 .. Len(s) : s[j] \in Block /\ Weight[s[j]] \in Nat
  BY ChunkConstants
<1> DEFINE m == Len(s)
           Is(f) == f = [j \in 0 .. Len(s) |-> IF j = 0 THEN 0 ELSE f[j - 1] + Weight[s[j]]]
           T == [x \in Nat \X (1 .. m) |-> x[1] + Weight[s[x[2]]]]
           U == CHOOSE f : Is(f)
<1>2. T \in [Nat \X (1 .. m) -> Nat]
  BY <1>0
<1>3. \A n \in Nat, j \in 1 .. m : T[<<n, j>>] = n + Weight[s[j]]
  OBVIOUS
<1> HIDE DEF T
<1>4. PICK f \in [0 .. m -> Nat] :
        \A j \in 0 .. m : f[j] = IF j = 0 THEN 0 ELSE T[<<f[j - 1], j>>]
  BY <1>0, <1>2, CountExists
<1>5. \A j \in 0 .. m : f[j] = IF j = 0 THEN 0 ELSE f[j - 1] + Weight[s[j]]
  <2>1. \A j \in 0 .. m : j # 0 => j - 1 \in 0 .. m /\ j \in 1 .. m
    BY <1>0
  <2>4. \A j \in 0 .. m : j # 0 => f[j - 1] \in Nat
    BY <2>1
  <2>2. \A j \in 0 .. m : j # 0 => T[<<f[j - 1], j>>] = f[j - 1] + Weight[s[j]]
    BY <1>3, <2>1, <2>4, Zenon
  <2>3. QED
    BY <1>4, <2>2
<1>6. Is(f)
  BY <1>5
<1>7. \A j : RecordsUpTo(s, j) = U[j]
  BY DEF RecordsUpTo
<1>8. Is(U)
  BY <1>6, Zenon
<1>9. \A j \in 0 .. m : U[j] = IF j = 0 THEN 0 ELSE U[j - 1] + Weight[s[j]]
  BY <1>8
<1> HIDE DEF U, Is
<1>10. \A j \in 0 .. m : U[j] \in Nat
  <2> DEFINE Bad == {j \in 0 .. m : U[j] \notin Nat}
  <2>1. SUFFICES ASSUME Bad # {} PROVE FALSE
    OBVIOUS
  <2>2. PICK j \in Bad : \A k \in Bad : j <= k
    <3>1. Bad \in SUBSET Nat
      BY <1>0
    <3>2. QED
      BY <2>1, <3>1, LeastOf
  <2>3. j \in 0 .. m /\ U[j] \notin Nat
    OBVIOUS
  <2>4. j # 0
    BY <1>9, <2>3
  <2>5. j - 1 \in 0 .. m /\ j - 1 \notin Bad /\ j \in 1 .. m
    BY <1>0, <2>2, <2>3, <2>4
  <2>6. U[j - 1] \in Nat
    BY <2>5
  <2>7. QED
    BY <1>0, <1>9, <2>3, <2>4, <2>5, <2>6, SMTT(40)
<1>11. QED
  <2>1. 0 \in 0 .. m /\ \A j \in 1 .. m : j \in 0 .. m /\ j # 0
    BY <1>0
  <2>2. QED
    BY <1>7, <1>9, <1>10, <2>1

\* No block is without records, so more blocks have more of them.
LEMMA RecordsAscend ==
    ASSUME NEW s \in Seq(Block), NEW i \in 0 .. Len(s), NEW j \in 0 .. Len(s), i < j
    PROVE  RecordsUpTo(s, i) < RecordsUpTo(s, j)
<1> DEFINE R(x) == RecordsUpTo(s, x)
           Bad == {x \in 0 .. Len(s) : i < x /\ ~ (R(i) < R(x))}
<1>1. /\ \A x \in 0 .. Len(s) : R(x) \in Nat
      /\ \A x \in 1 .. Len(s) : R(x) = R(x - 1) + Weight[s[x]]
      /\ \A x \in 1 .. Len(s) : Weight[s[x]] \in Nat \ {0}
      /\ Len(s) \in Nat
  BY RecordsFacts, ChunkConstants
<1>2. SUFFICES ASSUME Bad # {} PROVE FALSE
  OBVIOUS
<1> HIDE DEF R
<1>3. PICK x \in Bad : \A k \in Bad : x <= k
  <2>1. Bad \in SUBSET Nat
    BY <1>1
  <2>2. QED
    BY <1>2, <2>1, LeastOf
<1>4. x \in 1 .. Len(s) /\ x - 1 \in 0 .. Len(s) /\ i < x /\ ~ (R(i) < R(x))
  BY <1>1
<1>a. /\ R(x) \in Nat /\ R(x - 1) \in Nat /\ R(i) \in Nat
      /\ R(x) = R(x - 1) + Weight[s[x]] /\ Weight[s[x]] \in Nat /\ Weight[s[x]] # 0
  BY <1>1, <1>4
<1>b. R(x - 1) < R(x)
  BY <1>a, SMTT(40)
<1>5. ~ (R(i) < R(x - 1))
  BY <1>4, <1>a, SMTT(40)
<1>6. x - 1 # i
  BY <1>4, <1>b
<1>7. x - 1 \in Bad
  BY <1>1, <1>4, <1>5, <1>6
<1>8. QED
  <2> HIDE DEF Bad
  <2>1. x <= x - 1
    BY <1>3, <1>7, Zenon
  <2>2. QED
    BY <1>4, <2>1

\* Where write_chunks cuts a stage that has the records for it: at the first block with
\* which the count is reached.
LEMMA BreakAtRun ==
    ASSUME NEW a \in Nat, NEW n \in Block, a <= n, NEW k \in Nat,
           k <= NRecords(Run(a, n))
    PROVE  LET s == Run(a, n)
               i == BreakAt(s, k)
           IN  /\ i \in 1 .. Len(s)
               /\ RecordsUpTo(s, i) >= k
               /\ \A j \in 1 .. i - 1 : RecordsUpTo(s, j) < k
<1> DEFINE s == Run(a, n)
           i == BreakAt(s, k)
           S == {j \in 1 .. Len(s) : RecordsUpTo(s, j) >= k}
<1>1. n \in Nat /\ n - a + 1 \in Nat /\ n - a + 1 >= 1
  BY NameFacts
<1>2. s \in Seq(Block) /\ Len(s) = n - a + 1 /\ \A j \in 1 .. n - a + 1 : s[j] = a + j - 1
  BY <1>1, RunType
<1> HIDE DEF s
<1>3. Len(s) \in Nat /\ Len(s) \in 1 .. Len(s)
         /\ \A j \in 1 .. Len(s) : RecordsUpTo(s, j) \in Nat
  BY <1>1, <1>2, RecordsFacts
<1>4. Len(s) \in S
  BY <1>3 DEF NRecords, s
<1>5. PICK m \in S : \A j \in S : m <= j
  <2>1. S \in SUBSET Nat /\ S # {}
    BY <1>3, <1>4
  <2>2. QED
    BY <2>1, LeastOf
<1>6. \A j \in 1 .. Len(s) : j < Len(s) => s[j + 1] # s[j]
  BY <1>1, <1>2
<1>7. m \in 1 .. Len(s) /\ RecordsUpTo(s, m) >= k
  OBVIOUS
<1>8. \A j \in 1 .. m - 1 : j \in 1 .. Len(s) /\ ~ (RecordsUpTo(s, j) >= k)
  <2> SUFFICES ASSUME NEW j \in 1 .. m - 1
               PROVE  j \in 1 .. Len(s) /\ ~ (RecordsUpTo(s, j) >= k)
    OBVIOUS
  <2>1. j \in 1 .. Len(s) /\ ~ (m <= j)
    BY <1>3, <1>7
  <2>2. j \notin S
    BY <1>5, <2>1, Zenon
  <2>3. QED
    BY <2>1, <2>2
<1>9. IsBreak(s, k, m)
  BY <1>6, <1>7, <1>8 DEF IsBreak
<1>10. i \in 1 .. Len(s) /\ IsBreak(s, k, i)
  BY <1>7, <1>9, Zenon DEF BreakAt
<1> HIDE DEF i, S
<1>11. RecordsUpTo(s, i) >= k
  BY <1>10 DEF IsBreak
<1>12. \A j \in 1 .. i - 1 : RecordsUpTo(s, j) < k
  <2> SUFFICES ASSUME NEW j \in 1 .. i - 1 PROVE RecordsUpTo(s, j) < k
    OBVIOUS
  <2>1. j \in 1 .. Len(s)
    BY <1>3, <1>10
  <2>2. ~ (RecordsUpTo(s, j) >= k)
    <3>1. ~ (RecordsUpTo(s, j) >= k /\ (j < Len(s) => s[j + 1] # s[j]))
      BY <1>10, Zenon DEF IsBreak
    <3>2. QED
      BY <1>6, <2>1, <3>1, Zenon
  <2>3. QED
    BY <1>3, <2>1, <2>2
<1>13. QED
  BY <1>10, <1>11, <1>12 DEF s, i

\* Between two chunks what is carried over are the records of the stage so far.
LEMMA CarriedAlong ==
    ASSUME NEW a \in Nat \ {0}, NEW n \in Block, a <= n, Carried[a - 1] = 0,
           NEW i \in 0 .. Len(Run(a, n)),
           \A j \in 1 .. i : RecordsUpTo(Run(a, n), j) < MaxRows /\ ~ Snaps(a + j - 1)
    PROVE  Carried[a + i - 1] = RecordsUpTo(Run(a, n), i)
<1> DEFINE s == Run(a, n)
           Bad == {j \in 0 .. i : Carried[a + j - 1] # RecordsUpTo(s, j)}
<1>1. n \in Nat /\ n - a + 1 \in Nat /\ n <= MaxBlock /\ MaxBlock \in Nat
  BY ChunkConstants DEF Block
<1>2. s \in Seq(Block) /\ Len(s) = n - a + 1 /\ \A j \in 1 .. n - a + 1 : s[j] = a + j - 1
  BY <1>1, RunType
<1> HIDE DEF s
<1>3. /\ RecordsUpTo(s, 0) = 0
      /\ \A j \in 0 .. Len(s) : RecordsUpTo(s, j) \in Nat
      /\ \A j \in 1 .. Len(s) : RecordsUpTo(s, j) = RecordsUpTo(s, j - 1) + Weight[s[j]]
  BY <1>2, RecordsFacts
<1>4. i \in Nat /\ i <= Len(s)
  BY <1>1, <1>2 DEF s
<1>5. SUFFICES ASSUME Bad # {} PROVE FALSE
  BY <1>4 DEF s
<1>6. PICK j \in Bad : \A k \in Bad : j <= k
  <2>1. Bad \in SUBSET Nat
    BY <1>4
  <2>2. QED
    BY <1>5, <2>1, LeastOf
<1>7. j \in 0 .. i /\ Carried[a + j - 1] # RecordsUpTo(s, j)
  OBVIOUS
<1>8. j # 0
  <2>1. SUFFICES ASSUME j = 0 PROVE FALSE
    OBVIOUS
  <2>2. a + j - 1 = a - 1
    BY <2>1
  <2>3. QED
    BY <1>3, <1>7, <2>1, <2>2
<1>9. j \in 1 .. Len(s) /\ j - 1 \in 0 .. i /\ j \in 1 .. i /\ ~ (j <= j - 1)
  BY <1>4, <1>7, <1>8
<1>10. Carried[a + (j - 1) - 1] = RecordsUpTo(s, j - 1)
  <2>1. j - 1 \notin Bad
    <3> HIDE DEF Bad
    <3>1. QED
      BY <1>6, <1>9, Zenon
  <2>2. QED
    BY <1>9, <2>1
<1>11. a + j - 1 \in Block \ {0} /\ a + (j - 1) - 1 = (a + j - 1) - 1
          /\ s[j] = a + j - 1
  BY <1>1, <1>2, <1>9, SMTT(40) DEF Block
<1>12. Carried[a + j - 1] = NextCarried(RecordsUpTo(s, j - 1), a + j - 1)
  BY <1>10, <1>11, CarriedFacts
<1>13. RecordsUpTo(s, j - 1) + Weight[a + j - 1] = RecordsUpTo(s, j)
          /\ RecordsUpTo(s, j) < MaxRows /\ ~ Snaps(a + j - 1)
          /\ RecordsUpTo(s, j) \in Nat /\ MaxRows \in Nat
  BY <1>3, <1>4, <1>9, <1>11, ChunkConstants DEF s
<1>14. Carried[a + j - 1] = RecordsUpTo(s, j)
  BY <1>12, <1>13 DEF NextCarried
<1>15. QED
  BY <1>7, <1>14

\* write_chunks: a chunk cut off a stage that starts where the chain starts one and
\* reaches across no snap, ends where the chain ends it, if there are records enough or
\* the stage ends with a snap.
LEMMA ChunkIsCanonical ==
    ASSUME NEW a \in Nat \ {0}, NEW n \in Block, a <= n, Carried[a - 1] = 0,
           \A b \in a .. n - 1 : ~ Snaps(b),
           NRecords(Run(a, n)) >= MaxRows \/ Snaps(n)
    PROVE  LET s == Run(a, n)
               i == BreakAt(s, ChunkSize(s))
           IN  /\ Carried[a + i - 1] = 0
               /\ \A b \in a .. a + i - 2 : Carried[b] # 0
<1> DEFINE s == Run(a, n)
           k == ChunkSize(s)
           i == BreakAt(s, k)
           R(j) == RecordsUpTo(s, j)
<1>1. n \in Nat /\ n - a + 1 \in Nat /\ n <= MaxBlock /\ MaxBlock \in Nat
         /\ MaxRows \in Nat \ {0}
  BY ChunkConstants DEF Block
<1>2. s \in Seq(Block) /\ Len(s) = n - a + 1 /\ \A j \in 1 .. n - a + 1 : s[j] = a + j - 1
  BY <1>1, RunType
<1>3. /\ R(0) = 0
      /\ \A j \in 0 .. Len(s) : R(j) \in Nat
      /\ \A j \in 1 .. Len(s) : R(j) = R(j - 1) + Weight[s[j]]
      /\ NRecords(s) = R(Len(s)) /\ Len(s) \in 0 .. Len(s)
  <2> HIDE DEF s
  <2>1. QED
    BY <1>1, <1>2, RecordsFacts DEF NRecords
<1>4. k \in Nat /\ k <= NRecords(s) /\ k <= MaxRows
         /\ (k = MaxRows \/ (k = NRecords(s) /\ Snaps(n)))
  <2> HIDE DEF s
  <2>1. NRecords(s) \in Nat
    BY <1>3
  <2>2. NRecords(s) >= MaxRows \/ Snaps(n)
    BY DEF s
  <2> HIDE DEF R
  <2>3. QED
    BY <1>1, <2>1, <2>2 DEF ChunkSize
<1>5. i \in 1 .. Len(s) /\ R(i) >= k /\ \A j \in 1 .. i - 1 : R(j) < k
  <2> HIDE DEF k
  <2>1. QED
    BY <1>4, BreakAtRun
<1>6. \A j \in 1 .. Len(s) : R(j) > 0
  <2> SUFFICES ASSUME NEW j \in 1 .. Len(s) PROVE R(j) > 0
    OBVIOUS
  <2> HIDE DEF s
  <2>1. 0 \in 0 .. Len(s) /\ j \in 0 .. Len(s) /\ 0 < j
    BY <1>1, <1>2
  <2>2. QED
    BY <1>2, <1>3, <2>1, RecordsAscend
<1>a. \A j \in 0 .. i - 1 : Carried[a + j - 1] = R(j)
  <2> SUFFICES ASSUME NEW j \in 0 .. i - 1 PROVE Carried[a + j - 1] = R(j)
    OBVIOUS
  <2> HIDE DEF k, i
  <2>1. j \in 0 .. Len(s)
    BY <1>1, <1>2, <1>5
  <2>2. \A x \in 1 .. j : R(x) < MaxRows /\ ~ Snaps(a + x - 1)
    <3> SUFFICES ASSUME NEW x \in 1 .. j PROVE R(x) < MaxRows /\ ~ Snaps(a + x - 1)
      OBVIOUS
    <3>1. x \in 1 .. i - 1 /\ x \in 0 .. Len(s) /\ a + x - 1 \in a .. n - 1
      BY <1>1, <1>2, <1>5
    <3>2. R(x) < k /\ R(x) \in Nat
      BY <1>3, <1>5, <3>1, Zenon
    <3> HIDE DEF R
    <3>3. R(x) < MaxRows
      BY <1>1, <1>4, <3>2
    <3>4. QED
      BY <3>1, <3>3, Zenon
  <2>3. QED
    BY <2>1, <2>2, CarriedAlong
<1> HIDE DEF s, k, i, R
<1>7. \A b \in a .. a + i - 2 : Carried[b] # 0
  <2> SUFFICES ASSUME NEW b \in a .. a + i - 2 PROVE Carried[b] # 0
    OBVIOUS
  <2>1. /\ b - a + 1 \in 0 .. i - 1 /\ b - a + 1 \in 1 .. Len(s)
        /\ a + (b - a + 1) - 1 = b
    BY <1>1, <1>2, <1>5
  <2>2. Carried[b] = R(b - a + 1)
    BY <1>a, <2>1
  <2>3. QED
    BY <1>3, <1>6, <2>1, <2>2
<1>8. Carried[a + i - 1] = 0
  <2>1. i \in Nat /\ i - 1 \in 0 .. i - 1 /\ i \in 0 .. Len(s)
           /\ a + (i - 1) - 1 = (a + i - 1) - 1
           /\ a + i - 1 \in Block \ {0} /\ s[i] = a + i - 1
    BY <1>1, <1>2, <1>5 DEF Block
  <2>2. Carried[(a + i - 1) - 1] = R(i - 1)
    BY <1>a, <2>1
  <2>3. R(i) = R(i - 1) + Weight[a + i - 1]
    BY <1>3, <1>5, <2>1
  <2>4. Carried[a + i - 1] = NextCarried(R(i - 1), a + i - 1)
    BY <2>1, <2>2, CarriedFacts
  <2>5. R(i) >= MaxRows \/ Snaps(a + i - 1)
    <3>1. CASE k = MaxRows
      BY <1>5, <3>1
    <3>2. CASE k = NRecords(s) /\ Snaps(n)
      <4>1. i = Len(s)
        <5>1. SUFFICES ASSUME i # Len(s) PROVE FALSE
          OBVIOUS
        <5>2. i < Len(s)
          BY <1>1, <1>2, <1>5, <5>1
        <5>3. R(i) < R(Len(s))
          BY <1>2, <1>3, <2>1, <5>2, RecordsAscend DEF R
        <5>4. QED
          BY <1>3, <1>5, <2>1, <3>2, <5>3, SMTT(40)
      <4>2. a + i - 1 = n
        BY <1>1, <1>2, <4>1
      <4>3. QED
        BY <3>2, <4>2
    <3>3. QED
      BY <1>4, <3>1, <3>2
  <2>6. QED
    BY <2>3, <2>4, <2>5 DEF NextCarried
<1>9. QED
  BY <1>7, <1>8 DEF s, k, i

\* No block up to n that is not finalized is one the index snaps to.
NoSnapUpTo(n) == \A b \in FinalBlock + 1 .. n : ~ Snaps(b)

InWrite == {"write", "bin", "unstage", "rewrite"}

\* The inductive invariant where nobody interrupts the scraper.  At a snap the stage may
\* end with the block that is snapped to, and nowhere else may such a block be on it; a
\* chunk is cut only at a snap, until nothing is left, or with more than MAX_ROWS records.
CanonInv ==
    /\ quit > 0 => pc = "idle"
    /\ ChunksCanonical /\ Carried[FinalBlock] = 0
    /\ \A n \in Staged :
          \/ NoSnapUpTo(n)
          \/ snapping /\ pc \in InWrite \cup {"drop", "staged"} /\ n = prevBlock
    /\ pc \in {"ready", "blaze", "copy"} => NoSnapUpTo(prevBlock)
    /\ pc \in AfterCopy =>
          /\ NoSnapUpTo(prevBlock - 1)
          /\ snapping => Snaps(prevBlock)
          /\ ~ snapping => NoSnapUpTo(prevBlock)
    /\ once => snapping /\ pc \in InWrite \cup {"cleanup"}
    /\ pc \in InWrite /\ snapping => once \/ (pc = "write" /\ NoSnapUpTo(newStage))
    /\ pc = "bin" => once \/ NRecords(content[newStage]) > MaxRows

LEMMA CanonInit == Init => CanonInv
<1> SUFFICES ASSUME Init PROVE CanonInv
  OBVIOUS
<1>1. FinalBlock = 0 /\ Staged = {}
  BY DEF Init, FinalBlock, Staged
<1>2. QED
  BY <1>1, CarriedFacts DEF Init, CanonInv, ChunksCanonical, InWrite, AfterCopy

\* A step that leaves the index alone leaves alone what is said of its end.
LEMMA SameEnd ==
    ASSUME finalized' = finalized
    PROVE  /\ FinalBlock' = FinalBlock
           /\ ChunksCanonical => ChunksCanonical'
           /\ \A n : NoSnapUpTo(n)' = NoSnapUpTo(n)
  BY DEF FinalBlock, ChunksCanonical, NoSnapUpTo, Carried

\* What a step that leaves the index alone has to establish.
LEMMA CanonStep ==
    ASSUME CanonInv, finalized' = finalized,
           quit' > 0 => pc' = "idle",
           \A n \in Staged' :
              \/ NoSnapUpTo(n)
              \/ snapping' /\ pc' \in InWrite \cup {"drop", "staged"} /\ n = prevBlock',
           pc' \in {"ready", "blaze", "copy"} => NoSnapUpTo(prevBlock'),
           pc' \in AfterCopy =>
              /\ NoSnapUpTo(prevBlock' - 1)
              /\ snapping' => Snaps(prevBlock')
              /\ ~ snapping' => NoSnapUpTo(prevBlock'),
           once' => snapping' /\ pc' \in InWrite \cup {"cleanup"},
           pc' \in InWrite /\ snapping' => once' \/ (pc' = "write" /\ NoSnapUpTo(newStage')),
           pc' = "bin" => once' \/ NRecords(content'[newStage']) > MaxRows
    PROVE  CanonInv'
<1>1. FinalBlock' = FinalBlock
  BY SameEnd
<1>2. ChunksCanonical' /\ Carried[FinalBlock'] = 0
  BY <1>1, SameEnd DEF CanonInv
<1>3. \A n \in Staged' :
         \/ NoSnapUpTo(n)'
         \/ (snapping /\ pc \in InWrite \cup {"drop", "staged"} /\ n = prevBlock)'
  BY <1>1 DEF NoSnapUpTo
<1>4. (pc \in {"ready", "blaze", "copy"} => NoSnapUpTo(prevBlock))'
  BY <1>1 DEF NoSnapUpTo
<1>5. (pc \in AfterCopy =>
              /\ NoSnapUpTo(prevBlock - 1)
              /\ snapping => Snaps(prevBlock)
              /\ ~ snapping => NoSnapUpTo(prevBlock))'
  BY <1>1 DEF NoSnapUpTo, Snaps, AfterCopy
<1>6. (pc \in InWrite /\ snapping => once \/ (pc = "write" /\ NoSnapUpTo(newStage)))'
  BY <1>1 DEF NoSnapUpTo, InWrite
<1>7. (pc = "bin" => once \/ NRecords(content[newStage]) > MaxRows)'
  BY DEF NRecords, RecordsUpTo
<1>8. (once => snapping /\ pc \in InWrite \cup {"cleanup"})'
  BY DEF InWrite
<1>9. (Carried[FinalBlock] = 0)'
  BY <1>2 DEF Carried
<1>10. QED
  BY <1>2, <1>3, <1>4, <1>5, <1>6, <1>7, <1>8, <1>9 DEF CanonInv

\* The chunk that write_chunks adds is canonical, and the index ends with it.
LEMMA WriteBinCanon ==
    ASSUME TypeInv, OnceInv, CanonInv, WriteBin
    PROVE  CanonInv'
<1> DEFINE s == content[newStage]
           F == FinalBlock
           c == Chunk(SubSeq(s, 1, Cut))
<1>1. /\ TypeOK /\ pc = "bin" /\ pc' = "unstage" /\ c \in finalized'
      /\ finalized' \subseteq finalized \cup {c}
      /\ UNCHANGED <<quit, newStage, prevBlock, staging, content, snapping, once>>
  BY DEF TypeInv, WriteBin, Goto, locals, stage
<1>2. /\ s \in Seq(Block) /\ s # << >> /\ newStage \in Block /\ newStage \in Nat
      /\ newStage \in Staged
  BY <1>1, NameFacts DEF TypeInv, TypeOK, StageOK, LocalsOK, StageThere, Staged
<1>3. F \in Block /\ F \in Nat /\ finalized \in SUBSET ChunkSet
         /\ \A d \in finalized : d.last <= F
  BY <1>1, FinalBlockFacts, NameFacts DEF TypeOK, IndexOK, ChunkSet
<1>4. s = Run(F + 1, newStage)
  BY <1>1, <1>2 DEF OnceInv, OneStage
<1>5. Cut \in 1 .. Len(s) /\ Name(c) = <<s[1], s[Cut]>>
  BY <1>2, ChunkFacts
<1>6. PICK last \in FinalBlock + 1 .. newStage :
         FinalBlock' = last /\ Names' = Names \cup {<<FinalBlock + 1, last>>}
  BY WriteBinOnce
<1>7. F + 1 <= newStage /\ Cut \in Nat /\ Cut >= 1 /\ s[1] = F + 1 /\ s[Cut] = F + Cut
  <2>1. F + 1 \in Nat /\ Cut \in 1 .. Len(Run(F + 1, newStage)) /\ Cut \in Nat /\ Cut >= 1
    BY <1>2, <1>3, <1>4, <1>5
  <2> HIDE DEF s, F
  <2>2. F + 1 <= newStage /\ s[1] = F + 1 /\ s[Cut] = F + 1 + Cut - 1
    BY <1>2, <1>4, <2>1, RunCut, ZenonT(60)
  <2>3. QED
    BY <1>3, <2>1, <2>2
<1> HIDE DEF s, c
<1>8. c.first = F + 1 /\ c.last = F + Cut
  BY <1>5, <1>7 DEF Name
<1>9. FinalBlock' = F + Cut
  <2>1. Name(c) \in Names'
    BY <1>1, Zenon DEF Names, Name
  <2>2. Name(c) \notin Names
    <3>1. SUFFICES ASSUME NEW d \in finalized, Name(c) = Name(d) PROVE FALSE
      BY Zenon DEF Names
    <3>2. d.last = F + Cut
      BY <1>8, <3>1 DEF Name
    <3>3. QED
      BY <1>3, <1>7, <3>2
  <2>3. Name(c) = <<F + 1, last>>
    BY <1>6, <2>1, <2>2, Zenon
  <2>4. QED
    BY <1>6, <1>8, <2>3 DEF Name
<1>10. newStage = prevBlock /\ quit = 0 /\ NoSnapUpTo(prevBlock - 1)
       /\ (snapping => once /\ Snaps(prevBlock))
       /\ (~ snapping => NoSnapUpTo(prevBlock) /\ ~ once /\ NRecords(s) > MaxRows)
  <2>1. newStage = prevBlock
    BY <1>1 DEF OnceInv, RipeAhead, AfterStage, AfterCopy
  <2>2. quit = 0
    BY <1>1 DEF CanonInv, TypeOK, ProcessOK
  <2>3. QED
    BY <1>1, <2>1, <2>2 DEF CanonInv, InWrite, AfterCopy, s
<1>11. NRecords(s) \in Nat /\ MaxRows \in Nat
  BY <1>2, RecordsFacts, ChunkConstants DEF NRecords
<1>12. Carried[F + Cut] = 0 /\ \A b \in F + 1 .. F + Cut - 1 : Carried[b] # 0
  <2>1. F + 1 \in Nat \ {0} /\ (F + 1) - 1 = F /\ Carried[F] = 0
    BY <1>3 DEF CanonInv
  <2>2. \A b \in F + 1 .. newStage - 1 : ~ Snaps(b)
    BY <1>10 DEF NoSnapUpTo
  <2>3. NRecords(Run(F + 1, newStage)) >= MaxRows \/ Snaps(newStage)
    BY <1>4, <1>10, <1>11
  <2>4. Cut = BreakAt(Run(F + 1, newStage), ChunkSize(Run(F + 1, newStage)))
    BY <1>4 DEF Cut, s
  <2>5. F + 1 + Cut - 1 = F + Cut /\ F + 1 + Cut - 2 = F + Cut - 1
    BY <1>3, <1>7
  <2> HIDE DEF F
  <2>6. Carried[F + 1 + Cut - 1] = 0 /\ \A b \in F + 1 .. F + 1 + Cut - 2 : Carried[b] # 0
    BY <1>2, <1>7, <2>1, <2>2, <2>3, <2>4, ChunkIsCanonical, ZenonT(60)
  <2>7. QED
    BY <2>5, <2>6
<1> HIDE DEF F
<1>13. ChunksCanonical'
  <2>1. \A d \in finalized' : /\ Carried[d.last] = 0
                              /\ \A b \in d.first .. d.last - 1 : Carried[b] # 0
    <3>1. Carried[c.last] = 0 /\ \A b \in c.first .. c.last - 1 : Carried[b] # 0
      <4>1. F + Cut \in Int /\ c.last = F + Cut /\ c.first = F + 1
        BY <1>3, <1>7, <1>8
      <4>2. c.last - 1 = F + Cut - 1
        BY <1>3, <1>7, <4>1
      <4>3. Carried[c.last] = 0
        BY <4>1, <1>12
      <4>4. \A b \in F + 1 .. F + Cut - 1 : Carried[b] # 0
        BY <1>12
      <4>5. QED
        BY <4>1, <4>2, <4>3, <4>4
    <3>2. \A d \in finalized : /\ Carried[d.last] = 0
                               /\ \A b \in d.first .. d.last - 1 : Carried[b] # 0
      BY DEF CanonInv, ChunksCanonical
    <3>3. QED
      BY <1>1, <3>1, <3>2, Zenon
  <2>2. QED
    BY <2>1 DEF ChunksCanonical
<1>14. \A n : NoSnapUpTo(n) => \A b \in FinalBlock' + 1 .. n : ~ Snaps(b)
  <2> SUFFICES ASSUME NEW n, NoSnapUpTo(n), NEW b \in FinalBlock' + 1 .. n
               PROVE  ~ Snaps(b)
    OBVIOUS
  <2>1. b \in FinalBlock + 1 .. n
    BY <1>3, <1>7, <1>9 DEF F
  <2>2. QED
    BY <2>1 DEF NoSnapUpTo
<1>15. (Carried[FinalBlock] = 0)'
  BY <1>9, <1>12 DEF Carried
<1>16. (\A n \in Staged :
          \/ NoSnapUpTo(n)
          \/ snapping /\ pc \in InWrite \cup {"drop", "staged"} /\ n = prevBlock)'
  <2>1. Staged' = Staged
    BY <1>1 DEF Staged
  <2>2. \A n \in Staged : NoSnapUpTo(n) \/ (snapping /\ n = prevBlock)
    BY DEF CanonInv
  <2>3. \A n \in Staged : \/ \A b \in FinalBlock' + 1 .. n : ~ Snaps(b)
                          \/ snapping /\ n = prevBlock
    BY <1>14, <2>2, Zenon
  <2>4. QED
    BY <1>1, <2>1, <2>3 DEF NoSnapUpTo, InWrite
<1>17. (pc \in AfterCopy =>
          /\ NoSnapUpTo(prevBlock - 1)
          /\ snapping => Snaps(prevBlock)
          /\ ~ snapping => NoSnapUpTo(prevBlock))'
  <2>1. \A b \in FinalBlock' + 1 .. prevBlock - 1 : ~ Snaps(b)
    BY <1>10, <1>14, Zenon
  <2>2. ~ snapping => \A b \in FinalBlock' + 1 .. prevBlock : ~ Snaps(b)
    BY <1>10, <1>14, Zenon
  <2>3. QED
    BY <1>1, <1>10, <2>1, <2>2 DEF NoSnapUpTo, Snaps
<1>18. quit' = 0 /\ pc' = "unstage" /\ (once' => snapping') /\ (snapping' => once')
  BY <1>1, <1>10
<1>19. (pc \in {"ready", "blaze", "copy"} => NoSnapUpTo(prevBlock))'
  BY <1>18
<1>20. (pc \in InWrite /\ snapping => once \/ (pc = "write" /\ NoSnapUpTo(newStage)))'
  BY <1>18
<1>21. (pc = "bin" => once \/ NRecords(content[newStage]) > MaxRows)'
  BY <1>18
<1>22. (once => snapping /\ pc \in InWrite \cup {"cleanup"})'
  BY <1>18 DEF InWrite
<1>23. (quit > 0 => pc = "idle")'
  BY <1>18
<1>24. QED
  BY <1>13, <1>15, <1>16, <1>17, <1>19, <1>20, <1>21, <1>22, <1>23, Zenon DEF CanonInv

\* A step that changes nothing the invariant speaks of.
LEMMA SameCanon ==
    ASSUME CanonInv, UNCHANGED <<pc, quit, locals, index, stage>>
    PROVE  CanonInv'
<1>1. finalized' = finalized /\ Staged' = Staged
  BY DEF index, stage, Staged
<1>2. QED
  BY <1>1, CanonStep DEF CanonInv, locals, range, stage

\* A stage that is empty ends before the index does.
LEMMA EndsEmpty ==
    ASSUME FinalBlock \in Nat, NEW n \in Block, Run(FinalBlock + 1, n) = << >>
    PROVE  NoSnapUpTo(n)
<1>1. n \in Nat
  BY NameFacts
<1>2. n < FinalBlock + 1
  <2>1. SUFFICES ASSUME FinalBlock + 1 <= n PROVE FALSE
    BY <1>1
  <2>2. FinalBlock + 1 \in Nat /\ n - (FinalBlock + 1) + 1 \in Nat
           /\ n - (FinalBlock + 1) + 1 # 0
    BY <1>1, <2>1
  <2>3. Len(Run(FinalBlock + 1, n)) = n - (FinalBlock + 1) + 1
    BY <2>2, RunType
  <2>4. QED
    BY <2>2, <2>3
<1>3. QED
  BY <1>1, <1>2 DEF NoSnapUpTo

\* A pass starts from a stage on which there is no snap.
LEMMA StartPassCanon ==
    ASSUME TypeInv, OnceInv, CanonInv, NEW opened \in BOOLEAN, StartPass(opened),
           Staged' = Staged
    PROVE  CanonInv'
<1>1. /\ TypeOK /\ pc = "idle" /\ UNCHANGED <<finalized, blooms, quit>> /\ quit = 0
      /\ \/ pc' = "idle" /\ once' = FALSE
         \/ pc' = "ready" /\ prevBlock' = LatestStaging /\ once' = once
  BY DEF TypeInv, StartPass, EndPass, Forget, index
<1>2. ~ once' /\ \A n \in Staged : NoSnapUpTo(n)
  BY <1>1 DEF CanonInv, InWrite
<1>3. finalized # {} /\ blooms = Names
  BY <1>1 DEF OnceInv, HasIndex
<1>4. LatestFinal = FinalBlock
  BY <1>1, <1>3, LatestFinalIsLast DEF OnceInv
<1>5. /\ \A n \in Staged : LatestStaging = n
      /\ Staged = {} => LatestStaging \in {0, FinalBlock}
  BY <1>1, <1>4, LatestStagingFacts DEF OnceInv
<1>6. FinalBlock \in Nat
  BY <1>1, FinalBlockFacts, NameFacts DEF TypeOK, IndexOK, ChunkSet
<1>7. NoSnapUpTo(0) /\ NoSnapUpTo(FinalBlock)
  BY <1>6 DEF NoSnapUpTo
<1>8. NoSnapUpTo(LatestStaging)
  BY <1>2, <1>5, <1>7
<1>9. QED
  BY <1>1, <1>2, <1>8, CanonStep DEF AfterCopy, InWrite

\* Every step keeps the invariant, as long as nobody interrupts the scraper.
LEMMA CanonNext ==
    ASSUME "kill" \notin FaultKinds, "write" \notin FaultKinds, MaxSignals = 0
    PROVE  TypeInv /\ OnceInv /\ CanonInv /\ [Next]_vars => CanonInv'
<1> SUFFICES ASSUME TypeInv, OnceInv, CanonInv, [Next]_vars PROVE CanonInv'
  OBVIOUS
<1>a. /\ TypeOK /\ StageThere /\ quit \in 0 .. 2
      /\ pc # "idle" => quit = 0
      /\ pc \in AfterStage => newStage = prevBlock
      /\ snapping \in BOOLEAN /\ once \in BOOLEAN
  BY DEF TypeInv, TypeOK, ProcessOK, LocalsOK, CanonInv, OnceInv, RipeAhead
<1>b. FinalBlock \in Block /\ FinalBlock \in Nat /\ prevBlock \in Nat
  BY <1>a, FinalBlockFacts, NameFacts DEF TypeOK, LocalsOK, IndexOK, ChunkSet
<1>c. NoSnapUpTo(prevBlock) => NoSnapUpTo(prevBlock - 1)
  BY <1>b DEF NoSnapUpTo
<1>d. pc \in {"down", "zero", "idle", "ready", "blaze", "copy", "cleanup", "stage", "append",
              "rename", "stageFailed"} => \A n \in Staged : NoSnapUpTo(n)
  BY DEF CanonInv, InWrite
<1>e. pc \notin InWrite \cup {"cleanup"} => ~ once
  BY DEF CanonInv
<1>1. CASE StartFirst
  BY <1>1, <1>a, <1>b, CanonStep
  DEF StartFirst, CanonInv, AfterCopy, InWrite, env, locals, range, index, stage, blaze, Goto,
      Forget, EndPass, Terminate, Fault, Happens, Staged
<1>2. CASE StartZero
  <2> DEFINE c == Chunk(<<0>>)
  <2>1. c.first = 0 /\ c.last = 0
    BY DEF Chunk
  <2>2. finalized = {} /\ finalized' = {c} /\ pc = "zero" /\ pc' = "idle" /\ RemoveTmpFn
           /\ UNCHANGED <<quit, once>>
    BY <1>2 DEF StartZero, CleanOnStart, Goto, locals, OnceInv, HasIndex
  <2>3. {d.last : d \in finalized'} = {0}
    BY <2>1, <2>2
  <2>4. Max({0}) = 0
    BY MaxExists
  <2>5. FinalBlock' = 0 /\ FinalBlock = 0
    BY <2>2, <2>3, <2>4 DEF FinalBlock
  <2>6. Staged' = Staged
    BY <1>a, <2>2, RemoveTmpFnFacts
  <2> HIDE DEF c
  <2>7. ChunksCanonical'
    BY <2>1, <2>2, CarriedFacts DEF ChunksCanonical
  <2>8. (Carried[FinalBlock] = 0)'
    BY <2>5, CarriedFacts
  <2>9. (\A n \in Staged : NoSnapUpTo(n))'
    BY <1>d, <2>2, <2>5, <2>6 DEF NoSnapUpTo
  <2>10. ~ once' /\ quit' = 0
    BY <1>a, <1>e, <2>2 DEF InWrite
  <2>11. QED
    BY <2>2, <2>7, <2>8, <2>9, <2>10 DEF CanonInv, InWrite, AfterCopy
<1>3. CASE Start
  <2>1. pc = "down" /\ pc' = "idle" /\ UNCHANGED <<finalized, quit, once>> /\ RemoveTmpFn
    BY <1>3 DEF Start, CleanOnStart, Goto, locals
  <2>2. QED
    BY <1>a, <1>d, <1>e, <2>1, CanonStep, RemoveTmpFnFacts DEF InWrite, AfterCopy
<1>4. CASE LoopExit
  BY <1>4, <1>a, <1>b, CanonStep
  DEF LoopExit, CanonInv, AfterCopy, InWrite, env, locals, range, index, stage, blaze, Goto,
      Forget, EndPass, Terminate, Fault, Happens, Staged
<1>5. CASE BeginPass
  <2>1. Staged' = Staged
    BY <1>5, <1>a, NameFacts DEF BeginPass, Staged, TypeOK, StageOK
  <2>2. QED
    BY <1>5, <2>1, StartPassCanon DEF BeginPass
<1>6. CASE BeginUnopened
  <2>1. Staged' = Staged
    BY <1>6 DEF BeginUnopened, Staged
  <2>2. QED
    BY <1>6, <2>1, StartPassCanon DEF BeginUnopened
<1>7. CASE QuitBeforeBlaze
  BY <1>7, <1>a, <1>b, CanonStep
  DEF QuitBeforeBlaze, CanonInv, AfterCopy, InWrite, env, locals, range, index, stage, blaze,
      Goto, Forget, EndPass, Terminate, Fault, Happens, Staged
<1>8. CASE RunBlaze
  BY <1>8, <1>a, <1>b, CanonStep
  DEF RunBlaze, CanonInv, AfterCopy, InWrite, env, locals, range, index, stage, blaze, Goto,
      Forget, EndPass, Terminate, Fault, Happens, Staged
<1>9. ASSUME NEW b \in Block, BlazeWrite(b) PROVE CanonInv'
  BY <1>9, SameCanon DEF BlazeWrite, locals, range, index, stage
<1>10. CASE BlazeDone
  BY <1>10, <1>a, <1>b, CanonStep
  DEF BlazeDone, CanonInv, AfterCopy, InWrite, env, locals, range, index, stage, blaze, Goto,
      Forget, EndPass, Terminate, Fault, Happens, Staged
<1>11. CASE BlazeFail
  BY <1>11, <1>a, <1>b, CanonStep
  DEF BlazeFail, CanonInv, AfterCopy, InWrite, env, locals, range, index, stage, blaze, Goto,
      Forget, EndPass, Terminate, Fault, Happens, Staged
<1>12. CASE CopyRipe
  <2>1. /\ pc = "copy" /\ quit = 0 /\ ~ once /\ NoSnapUpTo(prevBlock)
        /\ prevBlock' = prevBlock + 1 /\ UNCHANGED <<quit, once, finalized>>
        /\ Staged' = Staged /\ \A n \in Staged : NoSnapUpTo(n)
    BY <1>12, <1>a, <1>d, <1>e DEF CopyRipe, index, CanonInv, InWrite, Staged
  <2>2. \/ Snaps(prevBlock') /\ pc' = "stage" /\ snapping' = TRUE
        \/ ~ Snaps(prevBlock') /\ pc' = "copy" /\ UNCHANGED snapping
    BY <1>12, <2>1 DEF CopyRipe
  <2>3. prevBlock' - 1 = prevBlock
    BY <1>b, <2>1
  <2>4. ASSUME ~ Snaps(prevBlock') PROVE NoSnapUpTo(prevBlock')
    BY <1>b, <2>1, <2>4 DEF NoSnapUpTo
  <2>5. QED
    BY <2>1, <2>2, <2>3, <2>4, CanonStep DEF InWrite, AfterCopy
<1>13. CASE CopyOutOfSequence
  BY <1>13, <1>a, <1>b, CanonStep
  DEF CopyOutOfSequence, CanonInv, AfterCopy, InWrite, env, locals, range, index, stage, blaze,
      Goto, Forget, EndPass, Terminate, Fault, Happens, Staged
<1>14. CASE CopyFail
  BY <1>14, <1>a, <1>b, CanonStep
  DEF CopyFail, CanonInv, AfterCopy, InWrite, env, locals, range, index, stage, blaze, Goto,
      Forget, EndPass, Terminate, Fault, Happens, Staged
<1>15. CASE CopyDone
  <2>1. /\ pc = "copy" /\ pc' = "stage" /\ quit = 0 /\ ~ once /\ NoSnapUpTo(prevBlock)
        /\ UNCHANGED <<quit, once, finalized, prevBlock>> /\ snapping' = FALSE
        /\ Staged' = Staged /\ \A n \in Staged : NoSnapUpTo(n)
    BY <1>15, <1>a, <1>d, <1>e DEF CopyDone, index, stage, CanonInv, InWrite, Staged
  <2>2. QED
    BY <1>c, <2>1, CanonStep DEF InWrite, AfterCopy
<1>16. CASE Cleanup
  <2>1. pc = "cleanup" /\ pc' = "idle" /\ ~ once' /\ RemoveTmpFn
           /\ UNCHANGED <<finalized, quit>>
    BY <1>16 DEF Cleanup, EndPass, Forget, index
  <2>2. QED
    BY <1>a, <1>d, <2>1, CanonStep, RemoveTmpFnFacts DEF InWrite, AfterCopy
<1>17. CASE StageSame
  BY <1>17, <1>a, <1>b, CanonStep
  DEF StageSame, CanonInv, AfterCopy, InWrite, env, locals, range, index, stage, blaze, Goto,
      Forget, EndPass, Terminate, Fault, Happens, Staged
<1>18. CASE StageAppendOld
  BY <1>18, <1>a, <1>b, CanonStep
  DEF StageAppendOld, CanonInv, AfterCopy, InWrite, env, locals, range, index, stage, blaze,
      Goto, Forget, EndPass, Terminate, Fault, Happens, Staged
<1>19. CASE StageFailOld
  BY <1>19, <1>a, <1>b, CanonStep
  DEF StageFailOld, CanonInv, AfterCopy, InWrite, env, locals, range, index, stage, blaze,
      Goto, Forget, EndPass, Terminate, Fault, Happens, Staged
<1>20. CASE StageAppendNew
  BY <1>20, <1>a, <1>b, CanonStep
  DEF StageAppendNew, CanonInv, AfterCopy, InWrite, env, locals, range, index, stage, blaze,
      Goto, Forget, EndPass, Terminate, Fault, Happens, Staged
<1>21. CASE StageFailNew
  BY <1>21, <1>a, <1>b, CanonStep
  DEF StageFailNew, CanonInv, AfterCopy, InWrite, env, locals, range, index, stage, blaze,
      Goto, Forget, EndPass, Terminate, Fault, Happens, Staged
<1>22. CASE StageRename
  <2>1. /\ pc = "rename" /\ pc' = "drop" /\ quit = 0 /\ ~ once /\ newStage = prevBlock
        /\ UNCHANGED <<quit, once, finalized, prevBlock, snapping>>
        /\ Staged' \subseteq Staged \cup {prevBlock} /\ \A n \in Staged : NoSnapUpTo(n)
    BY <1>22, <1>a, <1>d, <1>e
    DEF StageRename, Goto, locals, index, InWrite, Staged, AfterStage, AfterCopy
  <2>2. /\ NoSnapUpTo(prevBlock - 1) /\ (snapping => Snaps(prevBlock))
        /\ (~ snapping => NoSnapUpTo(prevBlock))
    BY <2>1 DEF CanonInv, AfterCopy
  <2>3. QED
    BY <1>a, <2>1, <2>2, CanonStep DEF InWrite
<1>23. CASE StageDrop
  BY <1>23, <1>a, <1>b, CanonStep
  DEF StageDrop, CanonInv, AfterCopy, InWrite, env, locals, range, index, stage, blaze, Goto,
      Forget, EndPass, Terminate, Fault, Happens, Staged
<1>24. CASE StageFailed
  <2>1. /\ pc = "stageFailed" /\ quit = 0 /\ ~ once /\ RemoveTmpFn
        /\ UNCHANGED <<quit, once, finalized, prevBlock, snapping>>
        /\ \A n \in Staged : NoSnapUpTo(n)
        /\ pc' = IF snapping THEN "cleanup" ELSE "staged"
    BY <1>24, <1>a, <1>d, <1>e DEF StageFailed, Goto, locals, index, InWrite
  <2>2. /\ NoSnapUpTo(prevBlock - 1) /\ (~ snapping => NoSnapUpTo(prevBlock))
    BY <2>1 DEF CanonInv, AfterCopy
  <2>3. QED
    BY <1>a, <2>1, <2>2, CanonStep, RemoveTmpFnFacts DEF InWrite, AfterCopy
<1>25. CASE SnapQuit
  BY <1>25, <1>a, <1>b, CanonStep
  DEF SnapQuit, CanonInv, AfterCopy, InWrite, env, locals, range, index, stage, blaze, Goto,
      Forget, EndPass, Terminate, Fault, Happens, Staged
<1>26. CASE SnapWrite
  BY <1>26, <1>a, <1>b, CanonStep
  DEF SnapWrite, CanonInv, AfterCopy, InWrite, env, locals, range, index, stage, blaze, Goto,
      Forget, EndPass, Terminate, Fault, Happens, Staged
<1>27. CASE Consolidate
  BY <1>27, <1>a, <1>b, CanonStep
  DEF Consolidate, CanonInv, AfterCopy, InWrite, env, locals, range, index, stage, blaze, Goto,
      Forget, EndPass, Terminate, Fault, Happens, Staged
<1>28. CASE WriteBloom
  <2>1. /\ pc = "write" /\ pc' = "bin" /\ quit = 0 /\ newStage = prevBlock
        /\ UNCHANGED <<quit, once, finalized, prevBlock, snapping, newStage, content>>
        /\ Staged' = Staged /\ LoopGoesOn /\ content[newStage] # << >>
    BY <1>28, <1>a DEF WriteBloom, Goto, locals, index, stage, Staged, AfterStage, AfterCopy
  <2>2. /\ NoSnapUpTo(prevBlock - 1) /\ (snapping => Snaps(prevBlock))
        /\ (~ snapping => NoSnapUpTo(prevBlock)) /\ (once => snapping)
        /\ snapping => once \/ NoSnapUpTo(newStage)
    BY <2>1 DEF CanonInv, AfterCopy, InWrite
  <2>3. newStage \in Staged /\ content[newStage] = Run(FinalBlock + 1, newStage)
    BY <1>a, <2>1, NameFacts DEF TypeOK, StageOK, LocalsOK, Staged, OnceInv, OneStage
  <2>4. snapping => once
    <3>1. SUFFICES ASSUME Snaps(newStage), NoSnapUpTo(newStage) PROVE FALSE
      BY <2>1, <2>2
    <3>2. newStage < FinalBlock + 1 /\ FinalBlock + 1 \in Nat /\ newStage \in Block
      BY <1>a, <1>b, <2>1, <3>1 DEF NoSnapUpTo, TypeOK, LocalsOK
    <3>3. QED
      BY <2>1, <2>3, <3>2, RunEmpty
  <2>5. once \/ NRecords(content[newStage]) > MaxRows
    <3>1. content[newStage] \in Seq(Block)
      BY <1>a, NameFacts DEF TypeOK, StageOK, LocalsOK
    <3>2. NRecords(content[newStage]) \in Nat /\ MaxRows \in Nat
      BY <3>1, RecordsFacts, ChunkConstants DEF NRecords
    <3>3. ~ once => NRecords(content[newStage]) > ChunkSize(content[newStage])
      BY <2>1 DEF LoopGoesOn
    <3>4. QED
      BY <3>2, <3>3 DEF ChunkSize
  <2>6. \A n \in Staged : NoSnapUpTo(n) \/ (snapping /\ n = prevBlock)
    BY DEF CanonInv
  <2>7. QED
    BY <2>1, <2>2, <2>4, <2>5, <2>6, CanonStep DEF InWrite, AfterCopy
<1>29. CASE WriteBin
  BY <1>29, WriteBinCanon
<1>30. CASE RemoveStage
  BY <1>30, <1>a, <1>b, CanonStep
  DEF RemoveStage, CanonInv, AfterCopy, InWrite, env, locals, range, index, stage, blaze, Goto,
      Forget, EndPass, Terminate, Fault, Happens, Staged
<1>31. CASE RewriteSome
  <2>1. /\ pc = "rewrite" /\ pc' = "rewrite" /\ quit = 0 /\ newStage = prevBlock
        /\ UNCHANGED <<quit, once, finalized, prevBlock, snapping>>
        /\ Staged' \subseteq Staged \cup {prevBlock}
    BY <1>31, <1>a DEF RewriteSome, locals, index, Staged, AfterStage, AfterCopy
  <2>2. /\ NoSnapUpTo(prevBlock - 1) /\ (snapping => Snaps(prevBlock))
        /\ (~ snapping => NoSnapUpTo(prevBlock)) /\ (once => snapping)
        /\ (snapping => once)
    BY <2>1 DEF CanonInv, AfterCopy, InWrite
  <2>3. \A n \in Staged : NoSnapUpTo(n) \/ (snapping /\ n = prevBlock)
    BY DEF CanonInv
  <2>4. QED
    BY <1>a, <2>1, <2>2, <2>3, CanonStep DEF InWrite
<1>32. CASE RewriteDone
  <2>1. /\ pc = "rewrite" /\ pc' = "write" /\ quit = 0 /\ newStage = prevBlock
        /\ UNCHANGED <<quit, finalized, prevBlock, snapping, newStage>>
        /\ once' => once
        /\ once /\ remaining # << >> => once'
        /\ Staged' = Staged /\ remaining = Run(FinalBlock + 1, newStage)
    BY <1>32, <1>a
    DEF RewriteDone, index, stage, Staged, AfterStage, AfterCopy, OnceInv, Rewritten
  <2>2. /\ NoSnapUpTo(prevBlock - 1) /\ (snapping => Snaps(prevBlock))
        /\ (~ snapping => NoSnapUpTo(prevBlock)) /\ (once => snapping)
        /\ (snapping => once)
    BY <2>1 DEF CanonInv, AfterCopy, InWrite
  <2>3. \A n \in Staged : NoSnapUpTo(n) \/ (snapping /\ n = prevBlock)
    BY DEF CanonInv
  <2>4. remaining = << >> => NoSnapUpTo(newStage)
    BY <1>a, <1>b, <2>1, EndsEmpty DEF TypeOK, LocalsOK
  <2>5. QED
    BY <2>1, <2>2, <2>3, <2>4, CanonStep DEF InWrite, AfterCopy
<1>33. CASE WriteDone
  <2>1. /\ pc = "write" /\ quit = 0 /\ newStage = prevBlock
        /\ UNCHANGED <<quit, finalized>> /\ Staged' = Staged
        /\ ~ LoopGoesOn \/ content[newStage] = << >>
        /\ IF snapping THEN pc' = "cleanup" /\ UNCHANGED <<snapping, once>>
                       ELSE pc' = "idle" /\ ~ once'
    BY <1>33, <1>a
    DEF WriteDone, Goto, EndPass, Forget, locals, index, stage, Staged, AfterStage, AfterCopy
  <2>2. (once => snapping) /\ (snapping => once \/ NoSnapUpTo(newStage))
    BY <2>1 DEF CanonInv, InWrite
  <2>3. \A n \in Staged : NoSnapUpTo(n) \/ (snapping /\ n = newStage)
    BY <2>1 DEF CanonInv
  <2>4. ASSUME snapping, newStage \in Staged PROVE NoSnapUpTo(newStage)
    <3>1. CASE ~ once
      BY <2>2, <2>4, <3>1
    <3>2. CASE once
      <4>1. content[newStage] = << >>
        BY <2>1, <3>2 DEF LoopGoesOn
      <4>2. content[newStage] = Run(FinalBlock + 1, newStage)
        BY <2>1, <2>4 DEF OnceInv, OneStage
      <4>3. QED
        BY <1>a, <1>b, <2>1, <4>1, <4>2, EndsEmpty DEF TypeOK, LocalsOK
    <3>3. QED
      BY <3>1, <3>2
  <2>5. \A n \in Staged : NoSnapUpTo(n)
    BY <2>3, <2>4
  <2>6. QED
    BY <2>1, <2>2, <2>5, CanonStep DEF InWrite, AfterCopy
<1>34. CASE CtrlC
  BY <1>34, <1>a DEF CtrlC
<1>35. CASE Kill
  BY <1>35 DEF Kill, Fault, Happens
<1>36. CASE HeadAdvance
  BY <1>36, SameCanon DEF HeadAdvance, locals, range, index, stage
<1>37. CASE Resync
  BY <1>37, SameCanon DEF Resync, Happens, locals, range, index, stage
<1>38. CASE ExportStart
  BY <1>38, SameCanon DEF ExportStart, Happens, locals, range, index, stage
<1>39. CASE ExportEnd
  BY <1>39, SameCanon DEF ExportEnd, locals, range, index, stage
<1>40. CASE UNCHANGED vars
  BY <1>40, SameCanon DEF vars
<1>41. CASE WriteFails
  BY <1>41 DEF WriteFails, FirstFails, ZeroFails, BloomFails, BinFails, RewriteFails,
                Fault, Happens
<1>42. QED
  BY <1>1, <1>2, <1>3, <1>4, <1>5, <1>6, <1>7, <1>8, <1>9, <1>10, <1>11, <1>12,
     <1>13, <1>14, <1>15, <1>16, <1>17, <1>18, <1>19, <1>20, <1>21, <1>22, <1>23, <1>24,
     <1>25, <1>26, <1>27, <1>28, <1>29, <1>30, <1>31, <1>32, <1>33, <1>34, <1>35, <1>36,
     <1>37, <1>38, <1>39, <1>40, <1>41
  DEF Next, Scraper, Faulty, World, Starting, Blazing, Copying, Staging, Writing

\* Chunks are cut where the chain alone says, however the passes fall and whatever
\* fails that the code looks at, as long as nobody interrupts the scraper.
THEOREM ChunksAreCanonical ==
    ASSUME "kill" \notin FaultKinds, "write" \notin FaultKinds, MaxSignals = 0
    PROVE  Spec => []ChunksCanonical
<1>1. CanonInv => ChunksCanonical
  BY DEF CanonInv
<1>2. MaxSignals <= 2
  OBVIOUS
<1>3. QED
  BY TypeInit, TypeNext, OnceInit, OnceNext, CanonInit, CanonNext, <1>1, <1>2, PTL DEF Spec

-----------------------------------------------------------------------------
(* The records of a stage *)

\* The records of the first i blocks, which Records collects.
LEMMA RecordsExpand ==
    ASSUME NEW s \in Seq(Block)
    PROVE  \E f \in [0 .. Len(s) -> Seq(Block)] :
              /\ f[0] = << >>
              /\ \A i \in 1 .. Len(s) :
                    f[i] = f[i - 1] \o [r \in 1 .. Weight[s[i]] |-> s[i]]
              /\ Records(s) = f[Len(s)]
<1>0. Weight \in [Block -> Nat \ {0}] /\ Len(s) \in Nat
         /\ \A j \in 1 .. Len(s) : s[j] \in Block /\ Weight[s[j]] \in Nat
  BY ChunkConstants
<1> DEFINE m == Len(s)
           Copies(j) == [r \in 1 .. Weight[s[j]] |-> s[j]]
           Is(f) == f = [i \in 0 .. Len(s) |-> IF i = 0 THEN << >>
                           ELSE f[i - 1] \o [r \in 1 .. Weight[s[i]] |-> s[i]]]
           T == [x \in Seq(Block) \X (1 .. m) |-> x[1] \o Copies(x[2])]
           U == CHOOSE f : Is(f)
<1>1. \A j \in 1 .. m : Copies(j) \in Seq(Block)
  BY <1>0
<1> HIDE DEF Copies
<1>2. T \in [Seq(Block) \X (1 .. m) -> Seq(Block)]
  BY <1>1
<1>3. \A t \in Seq(Block), j \in 1 .. m : T[<<t, j>>] = t \o Copies(j)
  OBVIOUS
<1> HIDE DEF T
<1>4. PICK f \in [0 .. m -> Seq(Block)] :
        \A j \in 0 .. m : f[j] = IF j = 0 THEN << >> ELSE T[<<f[j - 1], j>>]
  <2> DEFINE V == Seq(Block)
             v0 == << >>
  <2>1. v0 \in V /\ m \in Nat /\ T \in [V \X (1 .. m) -> V]
    BY <1>0, <1>2
  <2> HIDE DEF V, v0, m
  <2>2. BuildsUp(m, V, v0, T)
    BY <2>1 DEF BuildsUp
  <2>3. \E f : Built(m, V, v0, T, f)
    BY <2>2, RecursionExists, Zenon
  <2>4. QED
    BY <2>3 DEF Built, V, v0, m
<1>5. \A j \in 0 .. m : f[j] = IF j = 0 THEN << >> ELSE f[j - 1] \o Copies(j)
  <2>1. \A j \in 0 .. m : j # 0 => j - 1 \in 0 .. m /\ j \in 1 .. m
    BY <1>0
  <2>2. \A j \in 0 .. m : j # 0 => f[j - 1] \in Seq(Block)
    BY <2>1
  <2>3. \A j \in 0 .. m : j # 0 => T[<<f[j - 1], j>>] = f[j - 1] \o Copies(j)
    BY <1>3, <2>1, <2>2, Zenon
  <2>4. QED
    BY <1>4, <2>3
<1>6. Is(f)
  BY <1>5, Zenon DEF Copies
<1>7. Records(s) = U[Len(s)]
  BY DEF Records
<1>8. Is(U)
  BY <1>6, Zenon
<1>9. \A j \in 0 .. m : U[j] = IF j = 0 THEN << >> ELSE U[j - 1] \o Copies(j)
  BY <1>8, ZenonT(30) DEF Copies
<1>10. U = [j \in 0 .. m |-> U[j]]
  BY <1>8, ZenonT(30)
<1> HIDE DEF U, Is
<1>11. \A j \in 0 .. m : U[j] \in Seq(Block)
  <2> DEFINE Bad == {j \in 0 .. m : U[j] \notin Seq(Block)}
  <2>1. SUFFICES ASSUME Bad # {} PROVE FALSE
    OBVIOUS
  <2>2. PICK j \in Bad : \A k \in Bad : j <= k
    <3>1. Bad \in SUBSET Nat
      BY <1>0
    <3>2. QED
      BY <2>1, <3>1, LeastOf
  <2>3. j \in 0 .. m /\ U[j] \notin Seq(Block)
    OBVIOUS
  <2>4. j # 0
    <3>1. U[0] = << >>
      BY <1>0, <1>9
    <3>2. << >> \in Seq(Block)
      OBVIOUS
    <3>3. QED
      BY <2>3, <3>1, <3>2, Zenon
  <2>5. j - 1 \in 0 .. m /\ j - 1 \notin Bad /\ j \in 1 .. m
    BY <1>0, <2>2, <2>3, <2>4
  <2>6. U[j - 1] \in Seq(Block)
    BY <2>5
  <2>7. U[j] = U[j - 1] \o Copies(j) /\ Copies(j) \in Seq(Block)
    BY <1>1, <1>9, <2>3, <2>4, <2>5
  <2>8. U[j - 1] \o Copies(j) \in Seq(Block)
    BY <2>6, <2>7
  <2>9. QED
    BY <2>3, <2>7, <2>8, Zenon
<1>12. U \in [0 .. m -> Seq(Block)]
  BY <1>10, <1>11
<1>13. U[0] = << >> /\ \A i \in 1 .. m : U[i] = U[i - 1] \o Copies(i)
  <2>1. 0 \in 0 .. m /\ \A j \in 1 .. m : j \in 0 .. m /\ j # 0
    BY <1>0
  <2>2. QED
    BY <1>9, <2>1
<1>14. QED
  BY <1>7, <1>12, <1>13 DEF Copies

\* One file after the other.
LEMMA ConcatFacts ==
    ASSUME NEW S, NEW g \in Seq(S), NEW c \in Seq(S)
    PROVE  /\ Len(g \o c) = Len(g) + Len(c)
           /\ \A r \in 1 .. Len(g) : (g \o c)[r] = g[r]
           /\ \A r \in Len(g) + 1 .. Len(g) + Len(c) : (g \o c)[r] = c[r - Len(g)]
<1>1. Len(g) \in Nat /\ Len(c) \in Nat /\ Len(g \o c) = Len(g) + Len(c)
  OBVIOUS
<1>2. \A r \in 1 .. Len(g) + Len(c) :
         (g \o c)[r] = IF r <= Len(g) THEN g[r] ELSE c[r - Len(g)]
  OBVIOUS
<1>3. QED
  BY <1>1, <1>2

\* A part of a file.
LEMMA PartFacts ==
    ASSUME NEW S, NEW g \in Seq(S), NEW a \in Nat, NEW b \in Nat, a <= b, b <= Len(g)
    PROVE  /\ SubSeq(g, a + 1, b) \in Seq(S)
           /\ Len(SubSeq(g, a + 1, b)) = b - a
           /\ \A r \in 1 .. b - a : SubSeq(g, a + 1, b)[r] = g[a + r]
<1>1. Len(g) \in Nat
  OBVIOUS
<1>2. a + 1 \in Nat /\ 1 <= a + 1 /\ b - a \in Nat
  OBVIOUS
<1>3. Len(SubSeq(g, a + 1, b)) = b - a
  BY <1>1, <1>2
<1>4. \A r \in 1 .. b - a : SubSeq(g, a + 1, b)[r] = g[a + r]
  <2> SUFFICES ASSUME NEW r \in 1 .. b - a PROVE SubSeq(g, a + 1, b)[r] = g[a + r]
    OBVIOUS
  <2>1. a + 1 + r - 1 = a + r
    BY <1>2
  <2>2. QED
    BY <1>1, <1>2, <2>1
<1>5. SubSeq(g, a + 1, b) \in Seq(S)
  BY <1>1, <1>2
<1>6. QED
  BY <1>3, <1>4, <1>5

\* What Records is: as many records as RecordsUpTo counts, those of block i where it
\* says.
LEMMA RecordsAre ==
    ASSUME NEW s \in Seq(Block)
    PROVE  /\ Records(s) \in Seq(Block)
           /\ Len(Records(s)) = RecordsUpTo(s, Len(s))
           /\ \A i \in 1 .. Len(s) :
                 \A r \in RecordsUpTo(s, i - 1) + 1 .. RecordsUpTo(s, i) : Records(s)[r] = s[i]
<1> DEFINE m == Len(s)
           R(j) == RecordsUpTo(s, j)
<1>1. PICK f \in [0 .. m -> Seq(Block)] :
         /\ f[0] = << >>
         /\ \A i \in 1 .. m : f[i] = f[i - 1] \o [r \in 1 .. Weight[s[i]] |-> s[i]]
         /\ Records(s) = f[m]
  BY RecordsExpand
<1>2. /\ R(0) = 0
      /\ \A j \in 0 .. m : R(j) \in Nat
      /\ \A j \in 1 .. m : R(j) = R(j - 1) + Weight[s[j]]
      /\ \A j \in 1 .. m : s[j] \in Block /\ Weight[s[j]] \in Nat
      /\ m \in Nat
  BY RecordsFacts, ChunkConstants
<1> DEFINE Good(i) == /\ Len(f[i]) = R(i)
                      /\ \A k \in 1 .. i : \A r \in R(k - 1) + 1 .. R(k) : f[i][r] = s[k]
           Bad == {i \in 0 .. m : ~ Good(i)}
<1>3. ASSUME NEW i \in 1 .. m, Good(i - 1) PROVE Good(i)
  <2> DEFINE w == Weight[s[i]]
             c == [r \in 1 .. w |-> s[i]]
             g == f[i - 1]
  <2>1. i - 1 \in 0 .. m /\ g \in Seq(Block) /\ w \in Nat /\ s[i] \in Block
           /\ R(i) = R(i - 1) + w /\ R(i - 1) \in Nat /\ R(i) \in Nat /\ Len(g) = R(i - 1)
    <3>1. i - 1 \in 0 .. m /\ i \in 0 .. m
      BY <1>2
    <3>2. Len(g) = R(i - 1)
      BY <1>3
    <3> HIDE DEF R, Good
    <3>3. QED
      BY <1>2, <3>1, <3>2
  <2>2. c \in Seq(Block) /\ Len(c) = w /\ \A r \in 1 .. w : c[r] = s[i]
    <3>1. w \in Nat /\ s[i] \in Block
      BY <2>1
    <3> DEFINE x == s[i]
    <3> HIDE DEF w, x
    <3>2. [r \in 1 .. w |-> x] \in Seq(Block) /\ Len([r \in 1 .. w |-> x]) = w
             /\ \A r \in 1 .. w : [q \in 1 .. w |-> x][r] = x
      BY <3>1 DEF x
    <3>3. QED
      BY <3>2 DEF x
  <2>3. f[i] = g \o c
    BY <1>1
  <2>a. \A k \in 1 .. i - 1 : \A r \in R(k - 1) + 1 .. R(k) : g[r] = s[k]
    BY <1>3
  <2>b. \A k \in 1 .. i - 1 : R(k) <= R(i - 1) /\ R(k - 1) \in Nat /\ R(k) \in Nat
    <3> SUFFICES ASSUME NEW k \in 1 .. i - 1
                 PROVE  R(k) <= R(i - 1) /\ R(k - 1) \in Nat /\ R(k) \in Nat
      OBVIOUS
    <3>1. k \in 0 .. m /\ k - 1 \in 0 .. m /\ k <= i - 1 /\ i - 1 \in 0 .. m
      BY <1>2
    <3>2. k < i - 1 => R(k) < R(i - 1)
      BY <3>1, RecordsAscend
    <3>3. R(k) \in Nat /\ R(k - 1) \in Nat /\ R(i - 1) \in Nat
      BY <1>2, <3>1
    <3> HIDE DEF R
    <3>4. k = i - 1 => R(k) = R(i - 1)
      OBVIOUS
    <3>5. QED
      BY <3>1, <3>2, <3>3, <3>4
  <2> HIDE DEF c, g, w, R
  <2>4. /\ Len(g \o c) = R(i)
        /\ \A r \in 1 .. R(i - 1) : (g \o c)[r] = g[r]
        /\ \A r \in R(i - 1) + 1 .. R(i) : (g \o c)[r] = c[r - R(i - 1)]
    <3> DEFINE a == R(i - 1)
               b == R(i)
    <3>1. a \in Nat /\ b \in Nat /\ b = a + w /\ w \in Nat
             /\ g \in Seq(Block) /\ c \in Seq(Block) /\ Len(g) = a /\ Len(c) = w
      BY <2>1, <2>2
    <3> HIDE DEF a, b
    <3>2. /\ Len(g \o c) = b
          /\ \A r \in 1 .. a : (g \o c)[r] = g[r]
          /\ \A r \in a + 1 .. b : (g \o c)[r] = c[r - a]
      BY <3>1, ConcatFacts, SMTT(40)
    <3>3. QED
      BY <3>2 DEF a, b
  <2>5. \A r \in R(i - 1) + 1 .. R(i) : (g \o c)[r] = s[i]
    BY <2>1, <2>2, <2>4, SMTT(40)
  <2>6. ASSUME NEW k \in 1 .. i, NEW r \in R(k - 1) + 1 .. R(k) PROVE (g \o c)[r] = s[k]
    <3>1. CASE k = i
      BY <2>5, <2>6, <3>1
    <3>2. CASE k # i
      <4>1. k \in 1 .. i - 1
        BY <1>2, <3>2
      <4>2. g[r] = s[k]
        BY <2>a, <2>6, <4>1
      <4>a. r \in 1 .. R(i - 1)
        <5>1. R(k) <= R(i - 1) /\ R(k - 1) \in Nat /\ R(k) \in Nat /\ R(i - 1) \in Nat
          BY <2>1, <2>b, <4>1
        <5>2. QED
          BY <2>6, <5>1
      <4>3. QED
        BY <2>4, <4>2, <4>a
    <3>3. QED
      BY <3>1, <3>2
  <2>7. QED
    BY <2>3, <2>4, <2>6
<1>4. Good(0)
  <2>1. 1 .. 0 = {} /\ Len(<< >>) = 0
    OBVIOUS
  <2>2. QED
    BY <1>1, <1>2, <2>1
<1> HIDE DEF Good
<1>5. Good(m)
  <2>1. m \in 0 .. m
    BY <1>2
  <2>2. SUFFICES ASSUME Bad # {} PROVE FALSE
    BY <2>1
  <2>3. PICK i \in Bad : \A k \in Bad : i <= k
    <3>1. Bad \in SUBSET Nat
      BY <1>2
    <3>2. QED
      BY <2>2, <3>1, LeastOf
  <2>4. i \in 1 .. m /\ i - 1 \in 0 .. m /\ ~ Good(i) /\ ~ (i <= i - 1)
    BY <1>2, <1>4
  <2>5. Good(i - 1)
    <3>1. i - 1 \notin Bad
      <4> HIDE DEF Bad
      <4>1. QED
        BY <2>3, <2>4, Zenon
    <3>2. QED
      BY <2>4, <3>1
  <2>6. QED
    BY <1>3, <2>4, <2>5
<1>6. QED
  BY <1>1, <1>2, <1>5 DEF Good

\* Every record is one of some block's.
LEMMA RecordOfBlock ==
    ASSUME NEW s \in Seq(Block), NEW r \in 1 .. RecordsUpTo(s, Len(s))
    PROVE  \E j \in 1 .. Len(s) : r \in RecordsUpTo(s, j - 1) + 1 .. RecordsUpTo(s, j)
<1> DEFINE m == Len(s)
           R(j) == RecordsUpTo(s, j)
           S == {j \in 0 .. m : r <= R(j)}
<1>1. R(0) = 0 /\ m \in Nat /\ \A j \in 0 .. m : R(j) \in Nat
  BY RecordsFacts
<1>2. r \in Nat /\ r <= R(m) /\ r # 0 /\ m \in 0 .. m
  BY <1>1
<1> HIDE DEF R
<1>3. PICK j \in S : \A k \in S : j <= k
  <2>1. S \in SUBSET Nat /\ S # {}
    BY <1>1, <1>2
  <2>2. QED
    BY <2>1, LeastOf
<1>4. j \in 1 .. m /\ j - 1 \in 0 .. m /\ r <= R(j) /\ ~ (j <= j - 1)
  BY <1>1, <1>2
<1>5. j - 1 \notin S
  <2> HIDE DEF S
  <2>1. QED
    BY <1>3, <1>4, Zenon
<1>6. ~ (r <= R(j - 1)) /\ R(j - 1) \in Nat /\ R(j) \in Nat
  BY <1>1, <1>4, <1>5
<1>7. r \in R(j - 1) + 1 .. R(j)
  BY <1>2, <1>4, <1>6
<1>8. QED
  BY <1>4, <1>7 DEF R

\* The records of a part of the stage are counted from where it begins, ...
LEMMA PartCounts ==
    ASSUME NEW s \in Seq(Block), NEW t \in Seq(Block), NEW d \in Nat,
           d + Len(t) <= Len(s), \A j \in 1 .. Len(t) : t[j] = s[d + j],
           NEW n \in 0 .. Len(t)
    PROVE  RecordsUpTo(t, n) + RecordsUpTo(s, d) = RecordsUpTo(s, d + n)
<1> DEFINE Same(j) == RecordsUpTo(t, j) + RecordsUpTo(s, d) = RecordsUpTo(s, d + j)
           Bad == {j \in 0 .. Len(t) : ~ Same(j)}
<1>1. Len(t) \in Nat /\ Len(s) \in Nat
  OBVIOUS
<1>2. /\ RecordsUpTo(t, 0) = 0
      /\ \A j \in 0 .. Len(t) : RecordsUpTo(t, j) \in Nat
      /\ \A j \in 1 .. Len(t) : RecordsUpTo(t, j) = RecordsUpTo(t, j - 1) + Weight[t[j]]
  BY RecordsFacts
<1>3. /\ \A j \in 0 .. Len(s) : RecordsUpTo(s, j) \in Nat
      /\ \A j \in 1 .. Len(s) : RecordsUpTo(s, j) = RecordsUpTo(s, j - 1) + Weight[s[j]]
  BY RecordsFacts
<1>4. SUFFICES ASSUME Bad # {} PROVE FALSE
  BY DEF Same
<1>5. PICK j \in Bad : \A k \in Bad : j <= k
  <2>1. Bad \in SUBSET Nat
    BY <1>1
  <2>2. QED
    BY <1>4, <2>1, LeastOf
<1>6. j \in 0 .. Len(t) /\ ~ Same(j)
  OBVIOUS
<1>7. j # 0
  <2>1. d + 0 = d /\ d \in 0 .. Len(s)
    BY <1>1
  <2>2. RecordsUpTo(s, d) \in Nat
    BY <1>3, <2>1
  <2>3. Same(0)
    BY <1>2, <2>1, <2>2
  <2>4. QED
    BY <1>6, <2>3
<1>8. j \in 1 .. Len(t) /\ j - 1 \in 0 .. Len(t) /\ ~ (j <= j - 1)
         /\ d + j \in 1 .. Len(s) /\ d + (j - 1) = (d + j) - 1 /\ d \in 0 .. Len(s)
         /\ d + j - 1 \in 0 .. Len(s)
  BY <1>1, <1>6, <1>7
<1>9. Same(j - 1)
  <2> HIDE DEF Same
  <2>1. j - 1 \notin Bad
    <3> HIDE DEF Bad
    <3>1. QED
      BY <1>5, <1>8, Zenon
  <2>2. QED
    BY <1>8, <2>1
<1>10. /\ RecordsUpTo(t, j) = RecordsUpTo(t, j - 1) + Weight[t[j]]
       /\ RecordsUpTo(s, d + j) = RecordsUpTo(s, (d + j) - 1) + Weight[s[d + j]]
       /\ t[j] = s[d + j] /\ Weight[t[j]] \in Nat
       /\ RecordsUpTo(t, j - 1) \in Nat /\ RecordsUpTo(s, d) \in Nat
  <2>1. RecordsUpTo(t, j) = RecordsUpTo(t, j - 1) + Weight[t[j]]
           /\ RecordsUpTo(t, j - 1) \in Nat
    BY <1>2, <1>8
  <2>2. RecordsUpTo(s, d + j) = RecordsUpTo(s, (d + j) - 1) + Weight[s[d + j]]
           /\ RecordsUpTo(s, d) \in Nat
    BY <1>3, <1>8, Zenon
  <2>3. t[j] = s[d + j]
    BY <1>8
  <2>4. t[j] \in Block
    BY <1>8
  <2>5. Weight[t[j]] \in Nat
    BY <2>4, ChunkConstants
  <2>6. QED
    BY <2>1, <2>2, <2>3, <2>5, Zenon
<1>11. RecordsUpTo(t, j - 1) + RecordsUpTo(s, d) = RecordsUpTo(s, (d + j) - 1)
  BY <1>8, <1>9
<1>12. Same(j)
  BY <1>10, <1>11, SMTT(40)
<1>13. QED
  BY <1>6, <1>12

\* ... and are a part of the file.
LEMMA RecordsOfPart ==
    ASSUME NEW s \in Seq(Block), NEW t \in Seq(Block), NEW d \in Nat,
           d + Len(t) <= Len(s), \A j \in 1 .. Len(t) : t[j] = s[d + j]
    PROVE  Records(t) = SubSeq(Records(s), RecordsUpTo(s, d) + 1, RecordsUpTo(s, d + Len(t)))
<1> DEFINE S(j) == RecordsUpTo(s, j)
           T(j) == RecordsUpTo(t, j)
           L == Records(s)
           K == Records(t)
           a == S(d)
           b == S(d + Len(t))
           u == SubSeq(L, a + 1, b)
<1>1. Len(t) \in Nat /\ Len(s) \in Nat
         /\ d \in 0 .. Len(s) /\ d + Len(t) \in 0 .. Len(s) /\ Len(t) \in 0 .. Len(t)
         /\ Len(s) \in 0 .. Len(s)
  OBVIOUS
<1>2. /\ L \in Seq(Block) /\ Len(L) = S(Len(s))
      /\ \A i \in 1 .. Len(s) : \A r \in S(i - 1) + 1 .. S(i) : L[r] = s[i]
  BY RecordsAre
<1>3. /\ K \in Seq(Block) /\ Len(K) = T(Len(t))
      /\ \A i \in 1 .. Len(t) : \A r \in T(i - 1) + 1 .. T(i) : K[r] = t[i]
  BY RecordsAre
<1>4. \A n \in 0 .. Len(t) : T(n) + a = S(d + n)
  BY PartCounts
<1>5. a \in Nat /\ b \in Nat /\ S(Len(s)) \in Nat /\ \A n \in 0 .. Len(t) : T(n) \in Nat
  BY <1>1, RecordsFacts
<1>6. b <= Len(L)
  <2>1. d + Len(t) < Len(s) => b < S(Len(s))
    BY <1>1, RecordsAscend
  <2>2. d + Len(t) = Len(s) => b = S(Len(s))
    OBVIOUS
  <2> HIDE DEF S, b
  <2>3. QED
    BY <1>1, <1>2, <1>5, <2>1, <2>2
<1>7. T(Len(t)) + a = b
  BY <1>1, <1>4
<1>8. \A r \in 1 .. T(Len(t)) : \E j \in 1 .. Len(t) : r \in T(j - 1) + 1 .. T(j)
  BY RecordOfBlock
<1> HIDE DEF S, T, L, K, a, b
<1>9. u \in Seq(Block) /\ Len(u) = T(Len(t)) /\ \A r \in 1 .. T(Len(t)) : u[r] = L[a + r]
  <2>a. T(Len(t)) \in Nat
    BY <1>1, <1>5, Zenon
  <2> DEFINE c == T(Len(t))
  <2>b. c \in Nat /\ a \in Nat /\ b \in Nat /\ c + a = b
    BY <1>5, <1>7, <2>a
  <2> HIDE DEF c
  <2>c. c = b - a /\ a <= b
    BY <2>b
  <2>1. T(Len(t)) = b - a /\ a <= b
    BY <2>c DEF c
  <2>2. L \in Seq(Block) /\ a \in Nat /\ b \in Nat /\ a <= b /\ b <= Len(L)
    BY <1>2, <1>5, <1>6, <2>1
  <2>3. u \in Seq(Block) /\ Len(u) = b - a /\ \A r \in 1 .. b - a : u[r] = L[a + r]
    BY <2>2, PartFacts
  <2> HIDE DEF u
  <2>4. QED
    BY <2>1, <2>3, Zenon
<1>10. \A r \in 1 .. T(Len(t)) : K[r] = u[r]
  <2> SUFFICES ASSUME NEW r \in 1 .. T(Len(t)) PROVE K[r] = L[a + r]
    BY <1>9
  <2>1. PICK j \in 1 .. Len(t) : r \in T(j - 1) + 1 .. T(j)
    BY <1>8
  <2>2. K[r] = s[d + j]
    BY <1>3, <2>1
  <2>3. d + j \in 1 .. Len(s) /\ j \in 0 .. Len(t) /\ j - 1 \in 0 .. Len(t)
           /\ d + (j - 1) = (d + j) - 1
    BY <1>1
  <2>4. T(j) + a = S(d + j) /\ T(j - 1) + a = S((d + j) - 1)
           /\ T(j) \in Nat /\ T(j - 1) \in Nat
    BY <1>4, <1>5, <2>3
  <2>5. a + r \in S((d + j) - 1) + 1 .. S(d + j)
    BY <1>5, <2>1, <2>4, SMTT(40)
  <2>6. QED
    BY <1>2, <2>2, <2>3, <2>5
<1>11. K = u
  BY <1>3, <1>9, <1>10, SeqEqual
<1>12. QED
  BY <1>11 DEF K, L, S, a, b

\* The first record from the k-th on that the next one is not of the same block as is
\* the last record of the block BreakAt finds.
LEMMA CutPoint ==
    ASSUME NEW s \in Seq(Block), NEW k \in Nat \ {0}, NEW L \in Nat,
           k <= L, L <= NRecords(s),
           \A p \in k .. L : Records(s)[p] = Records(s)[L],
           L < NRecords(s) => Records(s)[L + 1] # Records(s)[L]
    PROVE  BreakAt(s, k) \in 1 .. Len(s) /\ RecordsUpTo(s, BreakAt(s, k)) = L
<1> DEFINE m == Len(s)
           R(j) == RecordsUpTo(s, j)
           F == Records(s)
           Ends(j) == /\ R(j) >= k
                      /\ j < m => s[j + 1] # s[j]
<1>1. /\ R(0) = 0
      /\ \A j \in 0 .. m : R(j) \in Nat
      /\ \A j \in 1 .. m : R(j - 1) < R(j)
      /\ m \in Nat
  <2>1. m \in Nat /\ \A j \in 1 .. m : j - 1 \in 0 .. m /\ j \in 0 .. m /\ j - 1 < j
    OBVIOUS
  <2>2. QED
    BY <2>1, RecordsFacts, RecordsAscend
<1>2. \A i, j \in 0 .. m : i < j => R(i) < R(j)
  BY RecordsAscend
<1>3. \A j \in 1 .. m : \A r \in R(j - 1) + 1 .. R(j) : F[r] = s[j]
  BY RecordsAre
<1>4. NRecords(s) = R(m)
  BY DEF NRecords
<1>5. L \in 1 .. R(m)
  BY <1>1, <1>4
<1>6. PICK j \in 1 .. m : L \in R(j - 1) + 1 .. R(j)
  BY <1>5, RecordOfBlock
<1>7. \A i \in 1 .. m : IsBreak(s, k, i) <=> Ends(i) /\ \A x \in 1 .. i - 1 : ~ Ends(x)
  BY DEF IsBreak
<1>8. \A p \in k .. L : F[p] = F[L]
  OBVIOUS
<1>9. L < R(m) => F[L + 1] # F[L]
  BY <1>4
<1> HIDE DEF R, F
<1>10. j \in 0 .. m /\ j - 1 \in 0 .. m /\ R(j) \in Nat /\ R(j - 1) \in Nat /\ R(m) \in Nat
          /\ R(j) <= R(m)
  <2>1. j \in 0 .. m /\ j - 1 \in 0 .. m /\ m \in 0 .. m
    BY <1>1
  <2>2. j < m => R(j) < R(m)
    BY <1>2, <2>1
  <2>3. j = m => R(j) = R(m)
    OBVIOUS
  <2>4. QED
    BY <1>1, <2>1, <2>2, <2>3
<1>11. F[L] = s[j]
  BY <1>3, <1>6
<1>12. L = R(j)
  <2>1. SUFFICES ASSUME L # R(j) PROVE FALSE
    OBVIOUS
  <2>2. L + 1 \in R(j - 1) + 1 .. R(j) /\ L < R(m)
    BY <1>6, <1>10, <2>1
  <2>3. F[L + 1] = s[j]
    BY <1>3, <2>2
  <2>4. QED
    BY <1>9, <1>11, <2>2, <2>3
<1>13. Ends(j)
  <2>1. ASSUME j < m PROVE s[j + 1] # s[j]
    <3>1. j + 1 \in 1 .. m /\ j + 1 \in 0 .. m /\ (j + 1) - 1 = j /\ m \in 0 .. m
      BY <1>1, <1>10, <2>1
    <3>2. R(j) < R(j + 1) /\ R(j + 1) \in Nat /\ R(j) < R(m)
      BY <1>1, <1>2, <1>10, <2>1, <3>1
    <3>3. L + 1 \in R((j + 1) - 1) + 1 .. R(j + 1)
      BY <1>10, <1>12, <3>1, <3>2
    <3>4. F[L + 1] = s[j + 1]
      BY <1>3, <3>1, <3>3
    <3>5. QED
      BY <1>9, <1>11, <1>12, <3>2, <3>4
  <2>2. QED
    BY <1>12, <2>1
<1>14. ASSUME NEW x \in 1 .. j - 1, Ends(x) PROVE FALSE
  <2>1. /\ x \in 1 .. m /\ x \in 0 .. m /\ x - 1 \in 0 .. m /\ x + 1 \in 1 .. m
        /\ x + 1 \in 0 .. m /\ (x + 1) - 1 = x /\ x < m /\ x < j /\ x - 1 < x /\ x < x + 1
    BY <1>1
  <2>2. /\ R(x - 1) < R(x) /\ R(x) < R(x + 1) /\ R(x) < R(j)
        /\ R(x - 1) \in Nat /\ R(x) \in Nat /\ R(x + 1) \in Nat
    BY <1>1, <1>2, <1>10, <2>1
  <2>3. R(x) >= k /\ s[x + 1] # s[x]
    BY <1>14, <2>1
  <2>4. R(x) \in R(x - 1) + 1 .. R(x) /\ R(x) + 1 \in R((x + 1) - 1) + 1 .. R(x + 1)
    BY <2>1, <2>2, SMTT(40)
  <2>5. F[R(x)] = s[x] /\ F[R(x) + 1] = s[x + 1]
    BY <1>3, <2>1, <2>4
  <2>6. R(x) \in k .. L /\ R(x) + 1 \in k .. L
    BY <1>12, <2>2, <2>3, SMTT(40)
  <2>7. F[R(x)] = F[L] /\ F[R(x) + 1] = F[L]
    BY <1>8, <2>6
  <2>8. QED
    BY <2>3, <2>5, <2>7
<1>15. IsBreak(s, k, j)
  BY <1>7, <1>13, <1>14
<1>16. ASSUME NEW i \in 1 .. m, IsBreak(s, k, i) PROVE i = j
  <2>1. Ends(i) /\ (\A x \in 1 .. i - 1 : ~ Ends(x))
    BY <1>7, <1>16, Zenon
  <2>2. \A x \in 1 .. j - 1 : ~ Ends(x)
    BY <1>14
  <2> HIDE DEF Ends
  <2>3. i \notin 1 .. j - 1 /\ j \notin 1 .. i - 1
    BY <1>13, <2>1, <2>2
  <2>4. QED
    BY <1>1, <2>3
<1>17. BreakAt(s, k) \in 1 .. m /\ IsBreak(s, k, BreakAt(s, k))
  BY <1>15, Zenon DEF BreakAt
<1>18. BreakAt(s, k) = j
  BY <1>16, <1>17, Zenon
<1>19. QED
  BY <1>12, <1>18 DEF R

\* A stage without blocks has no records, every other one has some.
LEMMA RecordsOfEmpty ==
    ASSUME NEW s \in Seq(Block)
    PROVE  /\ NRecords(s) \in Nat /\ Len(Records(s)) = NRecords(s)
           /\ s = << >> <=> NRecords(s) = 0
           /\ s = << >> <=> Records(s) = << >>
           /\ ChunkSize(s) \in 0 .. MaxRows /\ ChunkSize(s) <= NRecords(s)
           /\ ChunkSize(s) = 0 <=> s = << >>
<1>1. Len(s) \in Nat /\ Len(s) \in 0 .. Len(s) /\ 0 \in 0 .. Len(s)
  OBVIOUS
<1>2. Len(Records(s)) = NRecords(s) /\ Records(s) \in Seq(Block)
  BY RecordsAre DEF NRecords
<1>3. NRecords(s) \in Nat /\ (Len(s) = 0 => NRecords(s) = 0)
  BY <1>1, RecordsFacts DEF NRecords
<1>4. Len(s) # 0 => NRecords(s) > 0
  <2>1. RecordsUpTo(s, 0) = 0
    BY RecordsFacts
  <2>2. 0 < Len(s) => RecordsUpTo(s, 0) < RecordsUpTo(s, Len(s))
    BY <1>1, RecordsAscend
  <2>3. QED
    BY <1>1, <1>3, <2>1, <2>2 DEF NRecords
<1>5. s = << >> <=> Len(s) = 0
  OBVIOUS
<1>6. Records(s) = << >> <=> Len(Records(s)) = 0
  BY <1>2
<1>7. MaxRows \in Nat \ {0}
  BY ChunkConstants
<1>8. /\ ChunkSize(s) \in 0 .. MaxRows /\ ChunkSize(s) <= NRecords(s)
      /\ ChunkSize(s) = 0 <=> NRecords(s) = 0
  BY <1>3, <1>7 DEF ChunkSize
<1>9. QED
  BY <1>2, <1>3, <1>4, <1>5, <1>6, <1>8

-----------------------------------------------------------------------------
(* A stage is cut at the end of a block *)

\* The search so far: from the first record looked at on, all are of the block prvBlock,
\* until one of another block is met, which ends the search.
Sought ==
    LET k0 == FirstRecord(chunkSize, Len(lines))
    IN  /\ record >= k0
        /\ prvBlock = NoBlock <=> record = k0
        /\ loc = NOPOS => \A p \in k0 .. record - 1 : LineAt(p) = prvBlock
        /\ loc # NOPOS => /\ loc = record - 2 /\ loc >= k0
                          /\ \A p \in k0 .. loc : LineAt(p) = LineAt(loc)
                          /\ LineAt(loc + 1) # LineAt(loc)
        /\ consolidatedLines = << >> /\ remainingLines = << >>

CutInv ==
    /\ CutTypeOK
    /\ chunkSize = ChunkSize(blocks) /\ lines = Records(blocks)
    /\ step = "search" => Sought
    /\ AtBlockBreak /\ ChunkIsTight

LEMMA CutInitial == CutInit => CutInv
<1> SUFFICES ASSUME CutInit PROVE CutInv
  OBVIOUS
<1> USE DEF CutInit
<1>1. blocks \in Seq(Block)
  BY MaxLenAssumption
<1>2. /\ lines \in Seq(Block) /\ Len(lines) \in Nat
      /\ chunkSize \in 0 .. MaxRows /\ chunkSize <= Len(lines)
      /\ Len(lines) = NRecords(blocks)
  BY <1>1, RecordsAre, RecordsOfEmpty
<1>3. record \in 0 .. Len(lines)
  BY <1>2 DEF FirstRecord
<1>4. CutTypeOK
  BY <1>1, <1>2, <1>3 DEF CutTypeOK
<1>5. Sought
  BY <1>3 DEF Sought, NoBlock, NOPOS
<1>6. AtBlockBreak /\ ChunkIsTight
  BY DEF AtBlockBreak, ChunkIsTight
<1>7. QED
  BY <1>4, <1>5, <1>6 DEF CutInv

LEMMA SearchKeeps == CutInv /\ Search => CutInv'
<1> SUFFICES ASSUME CutInv, Search PROVE CutInv'
  OBVIOUS
<1> DEFINE k0 == FirstRecord(chunkSize, Len(lines))
<1>1. /\ CutTypeOK /\ Sought
      /\ chunkSize = ChunkSize(blocks) /\ lines = Records(blocks)
  BY DEF CutInv, Search
<1>2. /\ step = "search" /\ record < Len(lines) /\ loc = NOPOS /\ record' = record + 1
      /\ blocks' = blocks /\ chunkSize' = chunkSize /\ lines' = lines
      /\ consolidatedLines' = consolidatedLines /\ remainingLines' = remainingLines
      /\ step' = step
  BY DEF Search, Searching
<1>3. /\ Len(lines) \in Nat /\ record \in Nat
      /\ LineAt(record) \in Block /\ LineAt(record) # NoBlock
      /\ record + 1 \in 0 .. Len(lines)
  <2>1. lines \in Seq(Block) /\ record \in 0 .. Len(lines)
    BY <1>1 DEF CutTypeOK
  <2>2. Len(lines) \in Nat /\ record \in Nat /\ record + 1 \in 1 .. Len(lines)
    BY <1>2, <2>1
  <2>3. LineAt(record) \in Block
    BY <2>1, <2>2 DEF LineAt
  <2>4. NoBlock \notin Block
    BY ChunkConstants DEF NoBlock, Block
  <2>5. LineAt(record) # NoBlock
    BY <2>3, <2>4
  <2>6. QED
    BY <2>2, <2>3, <2>5
<1>4. k0 \in Nat /\ record >= k0 /\ (prvBlock = NoBlock <=> record = k0)
         /\ \A p \in k0 .. record - 1 : LineAt(p) = prvBlock
  <2>a. chunkSize \in 0 .. MaxRows /\ MaxRows \in Nat
    BY <1>1, ChunkConstants DEF CutTypeOK
  <2>1. k0 \in Nat
    BY <1>3, <2>a DEF FirstRecord
  <2>2. QED
    BY <1>1, <1>2, <2>1 DEF Sought
<1> HIDE DEF k0
<1>5. CASE prvBlock = LineAt(record)
  <2>1. loc' = loc /\ prvBlock' = prvBlock
    BY <1>5 DEF Search
  <2>2. record # k0
    BY <1>3, <1>4, <1>5
  <2>3. \A p \in k0 .. record : LineAt(p) = prvBlock
    BY <1>3, <1>4, <1>5
  <2>4. CutTypeOK'
    BY <1>1, <1>2, <1>3, <2>1 DEF CutTypeOK
  <2>5. k0' = k0 /\ \A p : LineAt(p)' = LineAt(p)
    BY <1>2 DEF k0, LineAt
  <2>6. record + 1 >= k0 /\ record + 1 # k0 /\ (record + 1) - 1 = record
    BY <1>3, <1>4
  <2>7. Sought'
    <3>1. /\ record' >= k0' /\ (prvBlock' = NoBlock <=> record' = k0') /\ loc' = NOPOS
          /\ \A p \in k0' .. record' - 1 : LineAt(p)' = prvBlock'
      BY <1>2, <1>3, <1>5, <2>1, <2>3, <2>5, <2>6
    <3>2. QED
      BY <1>1, <1>2, <3>1 DEF Sought, k0
  <2>8. QED
    BY <1>1, <1>2, <2>4, <2>7 DEF CutInv, AtBlockBreak, ChunkIsTight
<1>6. CASE prvBlock # LineAt(record)
  <2>1. prvBlock' = LineAt(record) /\ loc' = IF prvBlock # NoBlock THEN record - 1 ELSE loc
    BY <1>6 DEF Search
  <2>2. prvBlock # NoBlock => record - 1 >= k0 /\ record - 1 \in 0 .. Len(lines) - 1
    BY <1>2, <1>3, <1>4
  <2>3. loc' \in {NOPOS, 0} \cup 0 .. (Len(lines) - 1)
    BY <1>2, <2>1, <2>2
  <2>4. CutTypeOK'
    BY <1>1, <1>2, <1>3, <2>1, <2>3 DEF CutTypeOK
  <2>5. k0' = k0 /\ \A p : LineAt(p)' = LineAt(p)
    BY <1>2 DEF k0, LineAt
  <2>6. record + 1 >= k0 /\ record + 1 # k0 /\ (record + 1) - 1 = record
           /\ (record + 1) - 2 = record - 1 /\ (record - 1) + 1 = record
    BY <1>3, <1>4
  <2>7. loc' = NOPOS => \A p \in k0 .. record : LineAt(p) = prvBlock'
    <3>1. SUFFICES ASSUME loc' = NOPOS PROVE \A p \in k0 .. record : LineAt(p) = prvBlock'
      OBVIOUS
    <3>2. prvBlock = NoBlock
      BY <1>3, <2>1, <2>2, <3>1 DEF NOPOS
    <3>3. \A p \in k0 .. record : p = record
      BY <1>3, <1>4, <3>2
    <3>4. QED
      BY <2>1, <3>3
  <2>8. loc' # NOPOS => /\ loc' = record - 1 /\ record - 1 >= k0
                        /\ \A p \in k0 .. record - 1 : LineAt(p) = LineAt(record - 1)
                        /\ LineAt(record) # LineAt(record - 1)
    <3>1. SUFFICES ASSUME loc' # NOPOS
                   PROVE  /\ loc' = record - 1 /\ record - 1 >= k0
                          /\ \A p \in k0 .. record - 1 : LineAt(p) = LineAt(record - 1)
                          /\ LineAt(record) # LineAt(record - 1)
      OBVIOUS
    <3>2. prvBlock # NoBlock
      BY <1>2, <2>1, <3>1
    <3>3. record - 1 \in k0 .. record - 1
      BY <1>3, <1>4, <2>2, <3>2
    <3>4. LineAt(record - 1) = prvBlock
      BY <1>4, <3>3
    <3>5. QED
      BY <1>4, <1>6, <2>1, <2>2, <3>2, <3>4
  <2>9. Sought'
    <3>1. /\ record' >= k0' /\ (prvBlock' = NoBlock <=> record' = k0')
          /\ loc' = NOPOS => \A p \in k0' .. record' - 1 : LineAt(p)' = prvBlock'
      BY <1>2, <1>3, <2>1, <2>5, <2>6, <2>7
    <3>2. ASSUME loc' # NOPOS
          PROVE  /\ loc' = record' - 2 /\ loc' >= k0'
                 /\ \A p \in k0' .. loc' : LineAt(p)' = LineAt(loc)'
                 /\ LineAt(loc + 1)' # LineAt(loc)'
      <4>1. /\ loc' = record - 1 /\ record - 1 >= k0
            /\ \A p \in k0 .. record - 1 : LineAt(p) = LineAt(record - 1)
            /\ LineAt(record) # LineAt(record - 1)
        BY <2>8, <3>2
      <4>2. loc' + 1 = record /\ record' - 2 = loc'
        BY <1>2, <1>3, <4>1
      <4>3. LineAt(loc)' = LineAt(record - 1) /\ LineAt(loc + 1)' = LineAt(record)
        BY <1>2, <4>1, <4>2 DEF LineAt
      <4>4. \A p \in k0' .. loc' : LineAt(p)' = LineAt(loc)'
        BY <2>5, <4>1, <4>3
      <4>5. QED
        BY <2>5, <4>1, <4>2, <4>3, <4>4
    <3>5. QED
      BY <1>1, <1>2, <3>1, <3>2 DEF Sought, k0
  <2>10. QED
    BY <1>1, <1>2, <2>4, <2>9 DEF CutInv, AtBlockBreak, ChunkIsTight
<1>7. QED
  BY <1>5, <1>6

\* Where the search stops is where the records of another block begin.
LEMMA StopsAt ==
    ASSUME CutInv, step = "search", ~ Searching, lines # << >>
    PROVE  LET L == DefaultLoc + 1
           IN  /\ L \in Nat /\ chunkSize \in Nat \ {0}
               /\ chunkSize <= L /\ L <= Len(lines)
               /\ \A p \in chunkSize .. L : lines[p] = lines[L]
               /\ L < Len(lines) => lines[L + 1] # lines[L]
<1> DEFINE k0 == FirstRecord(chunkSize, Len(lines))
<1>1. CutTypeOK /\ Sought /\ chunkSize = ChunkSize(blocks) /\ lines = Records(blocks)
  BY DEF CutInv
<1>2. /\ blocks \in Seq(Block) /\ lines \in Seq(Block) /\ record \in 0 .. Len(lines)
      /\ Len(lines) \in Nat /\ MaxRows \in Nat
  BY <1>1, ChunkConstants DEF CutTypeOK
<1>3. chunkSize \in 0 .. MaxRows /\ chunkSize <= Len(lines) /\ chunkSize # 0
  BY <1>1, <1>2, RecordsOfEmpty
<1>4. k0 = chunkSize - 1 /\ k0 \in Nat /\ k0 < Len(lines) /\ chunkSize \in Nat
  BY <1>2, <1>3 DEF FirstRecord
<1>5. record >= k0 /\ (prvBlock = NoBlock <=> record = k0)
  BY <1>1 DEF Sought
<1>6. CASE loc = NOPOS
  <2>1. record = Len(lines) /\ DefaultLoc = Len(lines) - 1
    BY <1>2, <1>6 DEF Searching, DefaultLoc
  <2>2. \A p \in k0 .. record - 1 : lines[p + 1] = prvBlock
    BY <1>1, <1>6 DEF Sought, LineAt
  <2>3. ASSUME NEW p \in chunkSize .. Len(lines) PROVE lines[p] = prvBlock
    <3>1. p - 1 \in k0 .. record - 1 /\ (p - 1) + 1 = p
      BY <1>2, <1>4, <2>1
    <3>2. QED
      BY <2>2, <3>1
  <2>4. Len(lines) \in chunkSize .. Len(lines)
    BY <1>2, <1>3, <1>4
  <2>5. (Len(lines) - 1) + 1 = Len(lines) /\ ~ (Len(lines) < Len(lines))
    BY <1>2
  <2>6. QED
    BY <1>2, <1>3, <1>4, <2>1, <2>3, <2>4, <2>5
<1>7. CASE loc # NOPOS
  <2>1. /\ loc = record - 2 /\ loc >= k0 /\ DefaultLoc = loc
        /\ \A p \in k0 .. loc : lines[p + 1] = lines[loc + 1]
        /\ lines[(loc + 1) + 1] # lines[loc + 1]
    BY <1>1, <1>7 DEF Sought, LineAt, DefaultLoc
  <2>2. loc + 1 \in Nat /\ chunkSize <= loc + 1 /\ loc + 1 <= Len(lines)
    BY <1>2, <1>4, <2>1
  <2>3. ASSUME NEW p \in chunkSize .. loc + 1 PROVE lines[p] = lines[loc + 1]
    <3>1. p - 1 \in k0 .. loc /\ (p - 1) + 1 = p
      BY <1>2, <1>4, <2>1, <2>2
    <3>2. QED
      BY <2>1, <3>1
  <2>4. QED
    BY <1>3, <1>4, <2>1, <2>2, <2>3
<1>8. QED
  BY <1>6, <1>7

LEMMA SplitKeeps == CutInv /\ Split => CutInv'
<1> SUFFICES ASSUME CutInv, Split PROVE CutInv'
  OBVIOUS
<1> DEFINE n == Len(lines)
           L == DefaultLoc + 1
           k == chunkSize
           i == BreakAt(blocks, k)
           m == Len(blocks)
<1>1. CutTypeOK /\ chunkSize = ChunkSize(blocks) /\ lines = Records(blocks)
  BY DEF CutInv
<1>2. /\ step = "search" /\ ~ Searching /\ step' = "done" /\ loc' = DefaultLoc
      /\ blocks' = blocks /\ chunkSize' = chunkSize /\ lines' = lines
      /\ record' = record /\ prvBlock' = prvBlock
  BY DEF Split
<1>3. /\ blocks \in Seq(Block) /\ lines \in Seq(Block) /\ n \in Nat
      /\ consolidatedLines \in Seq(Block) /\ remainingLines \in Seq(Block)
      /\ lines = << >> <=> blocks = << >>
      /\ n = NRecords(blocks)
  BY <1>1, RecordsOfEmpty DEF CutTypeOK
<1>4. CASE lines = << >>
  <2>1. consolidatedLines' = consolidatedLines /\ remainingLines' = remainingLines
    BY <1>4 DEF Split
  <2>2. consolidatedLines = << >> /\ remainingLines = << >>
    BY <1>2 DEF CutInv, Sought
  <2>3. blocks = << >> /\ Len(blocks) = 0 /\ chunkSize = 0 /\ i = 0
    <3>1. blocks = << >> /\ Len(blocks) = 0
      BY <1>3, <1>4
    <3>2. chunkSize = 0
      BY <1>1, <1>3, <3>1, RecordsOfEmpty
    <3>3. ~ \E j \in 1 .. Len(blocks) : IsBreak(blocks, k, j)
      BY <3>1
    <3>4. BreakAt(blocks, k) = Len(blocks)
      BY <3>3, Zenon DEF BreakAt
    <3>5. QED
      BY <3>1, <3>2, <3>4
  <2>4. SubSeq(blocks, 1, 0) = << >> /\ SubSeq(blocks, 0 + 1, 0) = << >>
    BY <2>3
  <2>5. Records(<< >>) = << >>
    BY <1>1, <1>4, <2>3
  <2>6. DefaultLoc \in {NOPOS, 0} \cup 0 .. (Len(lines) - 1)
    BY <1>1, <1>3, <1>4 DEF CutTypeOK, DefaultLoc
  <2>7. CutTypeOK'
    BY <1>1, <1>2, <2>1, <2>6 DEF CutTypeOK
  <2> HIDE DEF i, k
  <2>8. AtBlockBreak'
    <3>1. /\ consolidatedLines' = Records(SubSeq(blocks, 1, i))
          /\ remainingLines' = Records(SubSeq(blocks, i + 1, Len(blocks)))
      BY <2>1, <2>2, <2>3, <2>4, <2>5
    <3>2. QED
      BY <1>2, <3>1 DEF AtBlockBreak, i, k
  <2>9. ChunkIsTight'
    BY <1>2, <1>4 DEF ChunkIsTight
  <2>10. QED
    BY <1>1, <1>2, <2>7, <2>8, <2>9 DEF CutInv
<1>5. CASE lines # << >>
  <2>1. /\ consolidatedLines' = SubSeq(lines, 1, loc' + 1)
        /\ remainingLines' = SubSeq(lines, loc' + 2, Len(lines))
    BY <1>5 DEF Split
  <2>2. /\ L \in Nat /\ k \in Nat \ {0} /\ k <= L /\ L <= n
        /\ \A p \in k .. L : lines[p] = lines[L]
        /\ L < n => lines[L + 1] # lines[L]
    BY <1>2, <1>5, StopsAt
  <2>d. loc' + 1 = L /\ loc' + 2 = L + 1
    <3>1. loc \in Int
      BY <1>1 DEF CutTypeOK, NOPOS
    <3>2. DefaultLoc \in Int
      BY <1>3, <3>1 DEF DefaultLoc
    <3>3. QED
      BY <1>2, <3>2
  <2>3. i \in 1 .. m /\ RecordsUpTo(blocks, i) = L
    <3> HIDE DEF L, k, i
    <3>0. /\ L <= NRecords(blocks)
          /\ \A p \in k .. L : Records(blocks)[p] = Records(blocks)[L]
          /\ L < NRecords(blocks) => Records(blocks)[L + 1] # Records(blocks)[L]
      BY <1>1, <1>3, <2>2
    <3>1. BreakAt(blocks, k) \in 1 .. m /\ RecordsUpTo(blocks, BreakAt(blocks, k)) = L
      BY <1>3, <2>2, <3>0, CutPoint
    <3>2. QED
      BY <3>1 DEF i
  <2>4. /\ consolidatedLines' \in Seq(Block) /\ Len(consolidatedLines') = L
        /\ \A r \in 1 .. L : consolidatedLines'[r] = lines[r]
    <3>0. lines \in Seq(Block) /\ L \in Nat /\ 0 <= L /\ L <= Len(lines)
      BY <1>3, <2>2
    <3> HIDE DEF L
    <3>1. /\ SubSeq(lines, 0 + 1, L) \in Seq(Block)
          /\ Len(SubSeq(lines, 0 + 1, L)) = L - 0
          /\ \A r \in 1 .. L - 0 : SubSeq(lines, 0 + 1, L)[r] = lines[0 + r]
      BY <3>0, PartFacts
    <3>2. 0 + 1 = 1 /\ L - 0 = L /\ \A r \in 1 .. L : 0 + r = r
      BY <3>0
    <3>3. consolidatedLines' = SubSeq(lines, 0 + 1, L)
      BY <2>1, <2>d, <3>2
    <3>4. QED
      BY <3>1, <3>2, <3>3
  <2>5. /\ remainingLines' \in Seq(Block) /\ Len(remainingLines') = n - L
        /\ L < n => remainingLines'[1] = lines[L + 1]
    <3>0. lines \in Seq(Block) /\ L \in Nat /\ n \in Nat /\ L <= n /\ n <= Len(lines)
      BY <1>3, <2>2
    <3>2. remainingLines' = SubSeq(lines, L + 1, n)
      BY <2>1, <2>d
    <3> HIDE DEF L, n
    <3>1. /\ SubSeq(lines, L + 1, n) \in Seq(Block)
          /\ Len(SubSeq(lines, L + 1, n)) = n - L
          /\ \A r \in 1 .. n - L : SubSeq(lines, L + 1, n)[r] = lines[L + r]
      BY <3>0, PartFacts
    <3>3. L < n => 1 \in 1 .. n - L
      BY <3>0
    <3>4. QED
      BY <3>1, <3>2, <3>3
  <2>a. m \in Nat /\ i \in Nat /\ i <= m
           /\ RecordsUpTo(blocks, 0) = 0 /\ RecordsUpTo(blocks, m) = n
    <3>1. m \in Nat
      BY <1>3
    <3>2. RecordsUpTo(blocks, 0) = 0 /\ RecordsUpTo(blocks, m) = n
      BY <1>3, RecordsFacts DEF NRecords
    <3> HIDE DEF i, m, n, L
    <3>3. QED
      BY <2>3, <3>1, <3>2
  <2>6. consolidatedLines' = Records(SubSeq(blocks, 1, i))
    <3> DEFINE t == SubSeq(blocks, 0 + 1, i)
    <3> HIDE DEF i, L, n, m
    <3>1. t \in Seq(Block) /\ Len(t) = i - 0 /\ \A r \in 1 .. i - 0 : t[r] = blocks[0 + r]
      BY <1>3, <2>a, PartFacts DEF m
    <3>2. Len(t) = i /\ 0 + Len(t) = i /\ 0 + Len(t) <= Len(blocks)
             /\ \A r \in 1 .. Len(t) : t[r] = blocks[0 + r]
      BY <2>a, <3>1 DEF m
    <3>3. Records(t) = SubSeq(Records(blocks), RecordsUpTo(blocks, 0) + 1,
                              RecordsUpTo(blocks, 0 + Len(t)))
      <4> HIDE DEF t
      <4>1. QED
        BY <1>3, <3>1, <3>2, RecordsOfPart
    <3>4. Records(t) = SubSeq(lines, 1, L)
      <4> HIDE DEF t
      <4>1. QED
        <5>1. 0 + 1 = 1
          OBVIOUS
        <5>2. QED
          BY <1>1, <2>3, <2>a, <3>2, <3>3, <5>1
    <3>5. QED
      BY <2>1, <2>d, <3>1, <3>4
  <2>7. remainingLines' = Records(SubSeq(blocks, i + 1, m))
    <3> DEFINE t == SubSeq(blocks, i + 1, m)
    <3> HIDE DEF i, L, n, m
    <3>1. t \in Seq(Block) /\ Len(t) = m - i /\ \A r \in 1 .. m - i : t[r] = blocks[i + r]
      BY <1>3, <2>a, PartFacts DEF m
    <3>2. i + Len(t) = m /\ i + Len(t) <= Len(blocks)
             /\ \A r \in 1 .. Len(t) : t[r] = blocks[i + r]
      BY <2>a, <3>1 DEF m
    <3>3. Records(t) = SubSeq(Records(blocks), RecordsUpTo(blocks, i) + 1,
                              RecordsUpTo(blocks, i + Len(t)))
      <4> HIDE DEF t
      <4>1. QED
        BY <1>3, <2>a, <3>1, <3>2, RecordsOfPart
    <3>4. Records(t) = SubSeq(lines, L + 1, n)
      <4> HIDE DEF t
      <4>1. QED
        BY <1>1, <2>3, <2>a, <3>2, <3>3
    <3>5. QED
      BY <2>1, <2>d, <3>4 DEF n
  <2>8. CutTypeOK'
    <3>a. loc' \in Int
      BY <1>2, <1>3, <1>1 DEF CutTypeOK, NOPOS, DefaultLoc
    <3>1. loc' \in 0 .. n - 1
      <4>1. /\ n \in Nat /\ loc' \in Int /\ loc' + 1 <= n /\ 1 <= loc' + 1
        <5> HIDE DEF L, n, k
        <5>1. 1 <= L
          BY <2>2
        <5>2. QED
          BY <1>3, <2>2, <2>d, <3>a, <5>1
      <4>2. \A y \in Nat, x \in Int : x + 1 <= y /\ 1 <= x + 1 => x \in 0 .. y - 1
        OBVIOUS
      <4> HIDE DEF n
      <4>3. QED
        BY <4>1, <4>2, Zenon
    <3>2. QED
      BY <1>1, <1>2, <2>4, <2>5, <3>1 DEF CutTypeOK
  <2>9. AtBlockBreak'
    BY <1>2, <2>6, <2>7 DEF AtBlockBreak
  <2>10. ChunkIsTight'
    <3> DEFINE c == consolidatedLines'
               last == c[Len(c)]
    <3>1. Len(c) = L /\ L \in 1 .. L /\ last = lines[L]
      BY <2>2, <2>4
    <3>2. remainingLines' # << >> => remainingLines'[1] # last
      BY <1>3, <2>2, <2>5, <3>1
    <3>3. ASSUME NEW r \in 1 .. Len(c), c[r] # last PROVE r < k
      <4>1. lines[r] # lines[L] /\ r \in 1 .. L
        BY <2>4, <3>1, <3>3
      <4>2. QED
        BY <2>2, <4>1
    <3>4. Len(c) >= k
      BY <2>2, <3>1
    <3>5. /\ Len(consolidatedLines') >= chunkSize'
          /\ remainingLines' # << >> =>
                remainingLines'[1] # consolidatedLines'[Len(consolidatedLines')]
          /\ \A r \in {q \in 1 .. Len(consolidatedLines') :
                    consolidatedLines'[q] # consolidatedLines'[Len(consolidatedLines')]} :
                r < chunkSize'
      BY <1>2, <3>2, <3>3, <3>4
    <3>6. QED
      BY <3>5 DEF ChunkIsTight
  <2>11. QED
    BY <1>1, <1>2, <2>8, <2>9, <2>10 DEF CutInv
<1>6. QED
  BY <1>4, <1>5

\* write_chunks: whatever the stage, the blocks' weights and MAX_ROWS are, it is cut where
\* BreakAt cuts it.
THEOREM CutsWhereBlocksEnd == CutSpec => []CutsAtBlockBreak
<1>1. CutInit => CutInv
  BY CutInitial
<1>2. CutInv /\ [CutNext]_cutVars => CutInv'
  <2> SUFFICES ASSUME CutInv, [CutNext]_cutVars PROVE CutInv'
    OBVIOUS
  <2>1. CASE Search
    BY <2>1, SearchKeeps
  <2>2. CASE Split
    BY <2>2, SplitKeeps
  <2>3. CASE UNCHANGED cutVars
    BY <2>3 DEF cutVars, CutInv, CutTypeOK, Sought, LineAt, AtBlockBreak, ChunkIsTight
  <2>4. QED
    BY <2>1, <2>2, <2>3 DEF CutNext, CutDone
<1>3. CutInv => CutsAtBlockBreak
  BY DEF CutInv, CutsAtBlockBreak
<1>4. QED
  BY <1>1, <1>2, <1>3, PTL DEF CutSpec

-----------------------------------------------------------------------------
(* The scraper implements the index *)

\* Where a stage file that is about to be replaced, or has been removed, stands to
\* the one that replaces it.
Ahead ==
    /\ (pc = "append" /\ TmpFn \in staging) \/ pc \in {"rename", "drop"} =>
          \A n \in Staged : n <= newStage \/ n <= FinalBlock
    /\ pc \in {"unstage", "rewrite"} => FinalBlock <= newStage

\* The last block of the index is the greatest of the last finalized one and the
\* staged ones.
LEMMA TopFacts ==
    ASSUME NEW f \in Block, NEW S \in SUBSET Block
    PROVE  /\ Max({f} \cup S) \in Block /\ Max({f} \cup S) \in {f} \cup S
           /\ f <= Max({f} \cup S) /\ \A n \in S : n <= Max({f} \cup S)
<1> DEFINE T == {f} \cup S
<1>1. T \in SUBSET StageName /\ T # {} /\ T \subseteq Nat
  BY NameFacts
<1>2. Max(T) \in T /\ \A y \in T : Max(T) >= y
  BY <1>1, MaxBlocks
<1>3. f \in T /\ (\A n \in S : n \in T) /\ T \subseteq Block
  OBVIOUS
<1> HIDE DEF T
<1>4. Max(T) \in Block /\ f <= Max(T) /\ \A n \in S : n <= Max(T)
  BY <1>1, <1>2, <1>3
<1>5. QED
  BY <1>2, <1>4 DEF T

LEMMA TopIs ==
    ASSUME NEW f \in Block, NEW S \in SUBSET Block, NEW t \in {f} \cup S,
           f <= t, \A n \in S : n <= t
    PROVE  Max({f} \cup S) = t
<1> DEFINE m == Max({f} \cup S)
<1>1. m \in Block /\ m \in {f} \cup S /\ f <= m /\ \A n \in S : n <= m
  BY TopFacts
<1>2. m \in Nat /\ t \in Nat /\ f \in Nat
  BY <1>1, NameFacts
<1> HIDE DEF m
<1>3. m <= t /\ t <= m
  BY <1>1
<1>4. m = t
  BY <1>2, <1>3
<1>5. QED
  BY <1>4 DEF m

\* The abstract index ends where the finalized one does.
LEMMA FinalIsFinalBlock ==
    ASSUME finalized # {}
    PROVE  Index!Final = FinalBlock
<1>1. {c[2] : c \in {Name(d) : d \in finalized}} = {d.last : d \in finalized}
  <2>1. \A d \in finalized : Name(d)[2] = d.last
    BY DEF Name
  <2>2. QED
    BY <2>1
<1>2. \A S : Index!Max(S) = Max(S)
  BY DEF Index!Max, Max
<1>3. Index!Final = Index!Max({c[2] : c \in {Name(d) : d \in finalized}})
  BY DEF Index!Final
<1>4. QED
  BY <1>1, <1>2, <1>3 DEF FinalBlock

\* A step that neither adds a chunk nor touches the stage cannot be seen.
LEMMA Unseen ==
    ASSUME finalized' = finalized, Staged' = Staged, pc # "rewrite", pc' # "rewrite"
    PROVE  UNCHANGED Index!vars
  BY DEF Index!vars, IndexedTo, Top, FinalBlock, Name

LEMMA QuietStep ==
    ASSUME finalized' = finalized, Staged' = Staged, pc # "rewrite",
           pc' \notin {"append", "rename", "drop", "unstage", "rewrite"}
    PROVE  Ahead' /\ [Index!Next]_(Index!vars)
  BY Unseen DEF Ahead

\* A step of the world, or a Ctrl-C that is only counted.
LEMMA OutsideStep ==
    ASSUME Ahead, UNCHANGED <<pc, locals, index, stage>>
    PROVE  Ahead' /\ [Index!Next]_(Index!vars)
<1>1. UNCHANGED <<pc, newStage, finalized, staging>>
  BY DEF locals, index, stage
<1>2. FinalBlock' = FinalBlock /\ Staged' = Staged
  BY <1>1 DEF FinalBlock, Staged
<1>3. UNCHANGED Index!vars
  BY <1>1, <1>2 DEF Index!vars, IndexedTo, Top, Name
<1>4. QED
  BY <1>1, <1>2, <1>3 DEF Ahead

\* Every step of the scraper adds the next chunk to the index, adds blocks to its
\* end, or is invisible in it.
LEMMA IndexStep ==
    ASSUME "kill" \notin FaultKinds, "write" \notin FaultKinds, MaxSignals <= 2,
           TypeInv, OnceInv, Ahead, TypeInv', OnceInv', [Next]_vars
    PROVE  Ahead' /\ [Index!Next]_(Index!vars)
<1> USE DEF OnceInv
<1>a. TypeOK /\ StageThere /\ TypeOK' /\ StageThere'
  BY DEF TypeInv
<1>b. /\ finalized \in SUBSET ChunkSet /\ FinalBlock \in Block /\ FinalBlock \in Nat
      /\ Staged \in SUBSET Block /\ newStage \in Block /\ newStage \in Nat
      /\ Staged \subseteq Nat /\ Block \subseteq Nat
  BY <1>a, FinalBlockFacts, NameFacts DEF TypeOK, IndexOK, StageOK, LocalsOK, ChunkSet, Staged
<1>c. FinalBlock' \in Block /\ FinalBlock' \in Nat /\ Staged' \in SUBSET Block
  <2>1. finalized' \in SUBSET ChunkSet
    BY <1>a DEF TypeOK, IndexOK, ChunkSet
  <2>2. FinalBlock' = EndOf(finalized')
    BY DEF FinalBlock, EndOf
  <2>3. FinalBlock' \in Block
    BY <2>1, <2>2, EndOfFacts
  <2>4. Staged' \in SUBSET Block
    BY <1>a, NameFacts DEF TypeOK, StageOK, Staged
  <2>5. QED
    BY <2>3, <2>4, NameFacts
<1>1. CASE StartFirst
  <2>1. finalized' = finalized /\ Staged' = Staged /\ pc # "rewrite"
           /\ pc' \notin {"append", "rename", "drop", "unstage", "rewrite"}
    BY <1>1, <1>a DEF StartFirst, Goto, Staged, index, stage
  <2>2. QED
    BY <2>1, QuietStep
<1>2. CASE StartZero
  <2> DEFINE c == Chunk(<<0>>)
  <2>1. c.last = 0 /\ Name(c) = <<0, 0>>
    BY DEF Chunk, Name
  <2>2. /\ finalized = {} /\ finalized' = {c} /\ pc = "zero" /\ pc' = "idle" /\ RemoveTmpFn
    BY <1>2 DEF StartZero, CleanOnStart, Goto, HasIndex
  <2>3. Staged' = Staged
    BY <1>a, <2>2, RemoveTmpFnFacts
  <2>4. {d.last : d \in finalized'} = {0} /\ Max({0}) = 0
    BY <2>1, <2>2, MaxExists
  <2>5. FinalBlock' = 0 /\ FinalBlock = 0
    BY <2>2, <2>4 DEF FinalBlock
  <2>6. IndexedTo' = IndexedTo
    BY <2>2, <2>3, <2>5 DEF IndexedTo, Top
  <2>7. {Name(d) : d \in finalized} = {} /\ {Name(d) : d \in finalized}' = {<<0, 0>>}
    BY <2>1, <2>2 DEF Name
  <2>8. Index!Genesis
    BY <2>6, <2>7 DEF Index!Genesis
  <2>9. QED
    BY <2>2, <2>8 DEF Index!Next, Ahead
<1>3. CASE Start
  <2>1. finalized' = finalized /\ RemoveTmpFn /\ pc # "rewrite"
           /\ pc' \notin {"append", "rename", "drop", "unstage", "rewrite"}
    BY <1>3 DEF Start, CleanOnStart, Goto
  <2>2. QED
    BY <1>a, <2>1, RemoveTmpFnFacts, QuietStep
<1>4. CASE LoopExit
  <2>1. finalized' = finalized /\ Staged' = Staged /\ pc # "rewrite"
           /\ pc' \notin {"append", "rename", "drop", "unstage", "rewrite"}
    BY <1>4, <1>a DEF LoopExit, Terminate, Staged, index, stage
  <2>2. QED
    BY <2>1, QuietStep
<1>5. CASE BeginPass
  <2>1. finalized' = finalized /\ Staged' = Staged /\ pc # "rewrite"
           /\ pc' \notin {"append", "rename", "drop", "unstage", "rewrite"}
    BY <1>5, <1>a, NameFacts DEF BeginPass, StartPass, EndPass, Staged, index
  <2>2. QED
    BY <2>1, QuietStep
<1>6. CASE QuitBeforeBlaze
  <2>1. finalized' = finalized /\ Staged' = Staged /\ pc # "rewrite"
           /\ pc' \notin {"append", "rename", "drop", "unstage", "rewrite"}
    BY <1>6, <1>a DEF QuitBeforeBlaze, EndPass, Staged, index, stage
  <2>2. QED
    BY <2>1, QuietStep
<1>7. CASE RunBlaze
  <2>1. finalized' = finalized /\ Staged' = Staged /\ pc # "rewrite"
           /\ pc' \notin {"append", "rename", "drop", "unstage", "rewrite"}
    BY <1>7, <1>a DEF RunBlaze, Goto, Staged, index, stage
  <2>2. QED
    BY <2>1, QuietStep
<1>8. CASE \E b \in Block : BlazeWrite(b)
  <2>1. finalized' = finalized /\ Staged' = Staged /\ pc # "rewrite"
           /\ pc' \notin {"append", "rename", "drop", "unstage", "rewrite"}
    BY <1>8, <1>a DEF BlazeWrite, Staged, index, stage
  <2>2. QED
    BY <2>1, QuietStep
<1>9. CASE BlazeDone
  <2>1. finalized' = finalized /\ Staged' = Staged /\ pc # "rewrite"
           /\ pc' \notin {"append", "rename", "drop", "unstage", "rewrite"}
    BY <1>9, <1>a DEF BlazeDone, EndPass, Goto, Staged, index, stage
  <2>2. QED
    BY <2>1, QuietStep
<1>10. CASE CopyRipe
  <2>1. finalized' = finalized /\ Staged' = Staged /\ pc # "rewrite"
           /\ pc' \notin {"append", "rename", "drop", "unstage", "rewrite"}
    BY <1>10, <1>a DEF CopyRipe, Staged, index
  <2>2. QED
    BY <2>1, QuietStep
<1>11. CASE CopyOutOfSequence
  <2>1. finalized' = finalized /\ Staged' = Staged /\ pc # "rewrite"
           /\ pc' \notin {"append", "rename", "drop", "unstage", "rewrite"}
    BY <1>11, <1>a DEF CopyOutOfSequence, Goto, Staged, index, stage
  <2>2. QED
    BY <2>1, QuietStep
<1>12. CASE CopyDone
  <2>1. finalized' = finalized /\ Staged' = Staged /\ pc # "rewrite"
           /\ pc' \notin {"append", "rename", "drop", "unstage", "rewrite"}
    BY <1>12, <1>a DEF CopyDone, Staged, index, stage
  <2>2. QED
    BY <2>1, QuietStep
<1>13. CASE Cleanup
  <2>1. finalized' = finalized /\ RemoveTmpFn /\ pc # "rewrite"
           /\ pc' \notin {"append", "rename", "drop", "unstage", "rewrite"}
    BY <1>13 DEF Cleanup, EndPass, index
  <2>2. QED
    BY <1>a, <2>1, RemoveTmpFnFacts, QuietStep
<1>14. CASE StageSame
  <2>1. finalized' = finalized /\ Staged' = Staged /\ pc # "rewrite"
           /\ pc' \notin {"append", "rename", "drop", "unstage", "rewrite"}
    BY <1>14, <1>a DEF StageSame, Staged, index, stage
  <2>2. QED
    BY <2>1, QuietStep
<1>15. CASE StageAppendOld
  <2>1. /\ pc = "stage" /\ pc' = "append" /\ newStage' = prevBlock
        /\ UNCHANGED <<finalized, staging, content>>
    BY <1>15 DEF StageAppendOld, index
  <2>2. Staged' = Staged /\ FinalBlock' = FinalBlock
    BY <2>1 DEF Staged, FinalBlock
  <2>3. ASSUME TmpFn \in staging, NEW n \in Staged PROVE n <= prevBlock \/ n <= FinalBlock
    <3> SUFFICES ASSUME FinalBlock < n PROVE n <= prevBlock
      BY <1>b
    <3> DEFINE a == FinalBlock + 1
               s == content[n]
               t == content[TmpFn]
    <3>1. s = Run(a, n) /\ s \o t = Run(a, prevBlock)
      BY <2>1, <2>3 DEF OneStage, TmpFnFollows, HasTmpFn
    <3>2. a \in Nat /\ n \in Block /\ n \in Nat /\ n - a + 1 \in Nat /\ n - a + 1 >= 1
      BY <1>b
    <3>3. prevBlock \in Block /\ prevBlock \in Nat /\ s \in Seq(Block) /\ t \in Seq(Block)
      BY <1>a, <1>b, NameFacts DEF TypeOK, LocalsOK, StageOK
    <3> HIDE DEF a, s, t
    <3>4. Len(s) = n - a + 1
      BY <3>1, <3>2, RunType
    <3>5. Len(s \o t) >= Len(s) /\ Len(s \o t) \in Nat
      BY <3>3
    <3>6. ~ (prevBlock < a)
      <4> SUFFICES ASSUME prevBlock < a PROVE FALSE
        OBVIOUS
      <4>1. s \o t = << >>
        BY <3>1, <3>2, <3>3, RunEmpty
      <4>2. Len(s \o t) = 0
        BY <4>1
      <4>3. QED
        BY <3>2, <3>4, <3>5, <4>2
    <3>7. prevBlock - a + 1 \in Nat
      BY <3>2, <3>3, <3>6
    <3>8. Len(s \o t) = prevBlock - a + 1
      BY <3>1, <3>2, <3>3, <3>7, RunType
    <3>9. QED
      BY <3>2, <3>3, <3>4, <3>5, <3>8
  <2>4. Ahead'
    BY <2>1, <2>2, <2>3 DEF Ahead
  <2>5. QED
    BY <2>1, <2>2, <2>4, Unseen
<1>16. CASE StageAppendNew
  <2>1. /\ pc = "append" /\ pc' = "rename" /\ TmpFn \in staging
        /\ UNCHANGED <<finalized, staging, newStage>>
    BY <1>16 DEF StageAppendNew, Goto, index, locals
  <2>2. Staged' = Staged /\ FinalBlock' = FinalBlock
    BY <2>1 DEF Staged, FinalBlock
  <2>3. Ahead'
    BY <2>1, <2>2 DEF Ahead
  <2>4. QED
    BY <2>1, <2>2, <2>3, Unseen
<1>17. CASE StageRename
  <2>1. /\ pc = "rename" /\ pc' = "drop" /\ staging' = staging \cup {newStage}
        /\ UNCHANGED <<finalized, newStage>>
    BY <1>17 DEF StageRename, Goto, index, locals
  <2>2. Staged' = Staged \cup {newStage} /\ FinalBlock' = FinalBlock /\ finalized # {}
    BY <1>b, <2>1, NameFacts DEF Staged, FinalBlock, HasIndex
  <2>3. Ahead'
    BY <1>b, <2>1, <2>2 DEF Ahead
  <2>4. IndexedTo = Max({FinalBlock} \cup Staged)
           /\ IndexedTo' = Max({FinalBlock} \cup (Staged \cup {newStage}))
    BY <2>1, <2>2 DEF IndexedTo, Top
  <2>5. IndexedTo \in {FinalBlock} \cup Staged /\ IndexedTo \in Block
    BY <1>b, <2>4, TopFacts
  <2>6. Staged \cup {newStage} \in SUBSET Block
    BY <1>b
  <2>7. /\ IndexedTo' \in Block /\ FinalBlock <= IndexedTo'
        /\ \A n \in Staged \cup {newStage} : n <= IndexedTo'
    BY <1>b, <2>4, <2>6, TopFacts
  <2>8. IndexedTo <= IndexedTo' /\ IndexedTo \in Nat /\ IndexedTo' \in Nat /\ IndexedTo' <= MaxBlock
    BY <1>b, <2>5, <2>7, ChunkConstants DEF Block
  <2>9. {Name(d) : d \in finalized} # {} /\ {Name(d) : d \in finalized}' = {Name(d) : d \in finalized}
    BY <2>1, <2>2 DEF Name
  <2>10. CASE IndexedTo' = IndexedTo
    BY <2>3, <2>9, <2>10 DEF Index!vars
  <2>11. CASE IndexedTo' # IndexedTo
    <3>1. IndexedTo' \in IndexedTo + 1 .. MaxBlock
      BY <2>8, <2>11, ChunkConstants
    <3>2. Index!Grow
      BY <2>9, <3>1 DEF Index!Grow
    <3>3. QED
      BY <2>3, <3>2 DEF Index!Next
  <2>12. QED
    BY <2>10, <2>11
<1>18. CASE StageDrop
  <2>1. /\ pc = "drop" /\ pc' = "staged" /\ finalized' = finalized /\ newStage \in staging
        /\ staging' = staging \ ({TmpFn} \cup (IF oldStage = newStage THEN {} ELSE {oldStage}))
    BY <1>18, <1>a DEF StageDrop, Goto, index, StageThere
  <2>2. FinalBlock' = FinalBlock /\ newStage \in Staged /\ newStage \in Staged'
           /\ Staged' \subseteq Staged /\ Staged \subseteq {oldStage, newStage}
    BY <1>b, <2>1, NameFacts DEF Staged, FinalBlock, Copied
  <2>3. \A n \in Staged : n <= newStage \/ n <= FinalBlock
    BY <2>1 DEF Ahead
  <2>4. PICK t \in {FinalBlock, newStage} : FinalBlock <= t /\ newStage <= t
    BY <1>b
  <2>5. \A n \in Staged : n <= t
    BY <1>b, <2>3, <2>4
  <2>6. Max({FinalBlock} \cup Staged) = t
    BY <1>b, <2>2, <2>4, <2>5, TopIs
  <2>7. Max({FinalBlock} \cup Staged') = t
    BY <1>b, <1>c, <2>2, <2>4, <2>5, TopIs
  <2>8. IndexedTo' = IndexedTo
    BY <2>1, <2>2, <2>6, <2>7 DEF IndexedTo, Top
  <2>9. UNCHANGED Index!vars
    BY <2>1, <2>8 DEF Index!vars, Name
  <2>10. QED
    BY <2>1, <2>9 DEF Ahead
<1>19. CASE StageFailed
  <2>1. finalized' = finalized /\ RemoveTmpFn /\ pc # "rewrite"
           /\ pc' \notin {"append", "rename", "drop", "unstage", "rewrite"}
    BY <1>19 DEF StageFailed, Goto, index
  <2>2. QED
    BY <1>a, <2>1, RemoveTmpFnFacts, QuietStep
<1>20. CASE SnapQuit
  <2>1. finalized' = finalized /\ Staged' = Staged /\ pc # "rewrite"
           /\ pc' \notin {"append", "rename", "drop", "unstage", "rewrite"}
    BY <1>20, <1>a DEF SnapQuit, Goto, Staged, index, stage
  <2>2. QED
    BY <2>1, QuietStep
<1>21. CASE SnapWrite
  <2>1. finalized' = finalized /\ Staged' = Staged /\ pc # "rewrite"
           /\ pc' \notin {"append", "rename", "drop", "unstage", "rewrite"}
    BY <1>21, <1>a DEF SnapWrite, Staged, index, stage
  <2>2. QED
    BY <2>1, QuietStep
<1>22. CASE Consolidate
  <2>1. finalized' = finalized /\ Staged' = Staged /\ pc # "rewrite"
           /\ pc' \notin {"append", "rename", "drop", "unstage", "rewrite"}
    BY <1>22, <1>a DEF Consolidate, EndPass, Goto, Staged, index, stage
  <2>2. QED
    BY <2>1, QuietStep
<1>23. CASE WriteBloom
  <2>1. finalized' = finalized /\ Staged' = Staged /\ pc # "rewrite"
           /\ pc' \notin {"append", "rename", "drop", "unstage", "rewrite"}
    BY <1>23, <1>a DEF WriteBloom, Goto, Staged, index, stage
  <2>2. QED
    BY <2>1, QuietStep
<1>24. CASE WriteBin
  <2> DEFINE s == content[newStage]
             c == Chunk(SubSeq(s, 1, Cut))
  <2>1. /\ pc = "bin" /\ pc' = "unstage" /\ UNCHANGED <<newStage, staging>>
        /\ s \in Seq(Block) /\ s # << >> /\ newStage \in Staged
    BY <1>24, <1>a, <1>b, NameFacts
    DEF WriteBin, Goto, locals, stage, TypeOK, StageOK, StageThere, Staged
  <2>2. PICK last \in FinalBlock + 1 .. newStage :
           /\ FinalBlock' = last
           /\ {Name(d) : d \in finalized}' = {Name(d) : d \in finalized} \cup {<<FinalBlock + 1, last>>}
    BY <1>24, WriteBinOnce DEF Names
  <2>3. /\ Staged' = Staged /\ Staged = {newStage} /\ finalized # {}
    BY <2>1 DEF Staged, OneStage, HasIndex
  <2>4. Max({FinalBlock} \cup Staged) = newStage /\ Max({FinalBlock'} \cup Staged') = newStage
    BY <1>b, <1>c, <2>2, <2>3, TopIs
  <2>5. IndexedTo = newStage /\ IndexedTo' = IndexedTo
    BY <2>1, <2>4 DEF IndexedTo, Top
  <2>6. {Name(d) : d \in finalized} # {}
    BY <2>3
  <2>7. Index!Publish
    BY <2>2, <2>3, <2>5, <2>6, FinalIsFinalBlock DEF Index!Publish
  <2>8. Ahead'
    BY <1>b, <2>1, <2>2 DEF Ahead
  <2>9. QED
    BY <2>7, <2>8 DEF Index!Next
<1>25. CASE RemoveStage
  <2>1. /\ pc = "unstage" /\ pc' = "rewrite" /\ UNCHANGED <<finalized, newStage>>
    BY <1>25 DEF RemoveStage, index
  <2>2. FinalBlock' = FinalBlock /\ FinalBlock <= newStage /\ newStage \in Staged
    BY <1>a, <1>b, <2>1, NameFacts
    DEF FinalBlock, Ahead, StageThere, TypeOK, StageOK, Staged
  <2>3. Staged = {newStage}
    BY <2>1, <2>2 DEF OneStage
  <2>4. Max({FinalBlock} \cup Staged) = newStage
    BY <1>b, <2>2, <2>3, TopIs
  <2>5. UNCHANGED Index!vars
    BY <2>1, <2>4 DEF Index!vars, IndexedTo, Top, Name
  <2>6. QED
    BY <2>1, <2>2, <2>5 DEF Ahead
<1>26. CASE RewriteSome
  <2>1. pc = "rewrite" /\ pc' = "rewrite" /\ UNCHANGED <<finalized, newStage>>
    BY <1>26 DEF RewriteSome, index, locals
  <2>2. QED
    BY <2>1 DEF Ahead, Index!vars, IndexedTo, FinalBlock, Name
<1>27. CASE RewriteDone
  <2>1. /\ pc = "rewrite" /\ pc' = "write" /\ UNCHANGED <<finalized, newStage, staging>>
        /\ Len(content[newStage]) = Len(remaining)
    BY <1>27 DEF RewriteDone, index, stage
  <2>2. /\ FinalBlock' = FinalBlock /\ FinalBlock <= newStage /\ Staged' = Staged
        /\ Staged \subseteq {newStage} /\ remaining = Run(FinalBlock + 1, newStage)
    BY <2>1 DEF FinalBlock, Ahead, Staged, Rewritten
  <2>3. FinalBlock = newStage \/ newStage \in Staged
    <3> SUFFICES ASSUME FinalBlock < newStage PROVE newStage \in Staged
      BY <1>b, <2>2
    <3>1. newStage - (FinalBlock + 1) + 1 \in Nat /\ newStage - (FinalBlock + 1) + 1 >= 1
             /\ FinalBlock + 1 \in Nat
      BY <1>b
    <3>2. Len(Run(FinalBlock + 1, newStage)) = newStage - (FinalBlock + 1) + 1
      BY <1>b, <3>1, RunType
    <3>3. Len(content[newStage]) >= 1
      BY <2>1, <2>2, <3>1, <3>2
    <3>4. content[newStage] # << >>
      BY <3>3
    <3>5. QED
      BY <1>a, <1>b, <3>4, NameFacts DEF TypeOK, StageOK, Staged
  <2>4. Max({FinalBlock} \cup Staged) = newStage
    BY <1>b, <2>2, <2>3, TopIs
  <2>5. UNCHANGED Index!vars
    BY <2>1, <2>2, <2>4 DEF Index!vars, IndexedTo, Top, Name
  <2>6. QED
    BY <2>1, <2>5 DEF Ahead
<1>28. CASE WriteDone
  <2>1. finalized' = finalized /\ Staged' = Staged /\ pc # "rewrite"
           /\ pc' \notin {"append", "rename", "drop", "unstage", "rewrite"}
    BY <1>28, <1>a DEF WriteDone, EndPass, Goto, Staged, index, stage
  <2>2. QED
    BY <2>1, QuietStep
<1>29. CASE BeginUnopened
  <2>1. finalized' = finalized /\ Staged' = Staged /\ pc # "rewrite"
           /\ pc' \notin {"append", "rename", "drop", "unstage", "rewrite"}
    BY <1>29, <1>a DEF BeginUnopened, StartPass, EndPass, Staged, index
  <2>2. QED
    BY <2>1, QuietStep
<1>30. CASE BlazeFail
  <2>1. finalized' = finalized /\ Staged' = Staged /\ pc # "rewrite"
           /\ pc' \notin {"append", "rename", "drop", "unstage", "rewrite"}
    BY <1>30, <1>a DEF BlazeFail, Terminate, EndPass, Staged, index, stage
  <2>2. QED
    BY <2>1, QuietStep
<1>31. CASE CopyFail
  <2>1. finalized' = finalized /\ Staged' = Staged /\ pc # "rewrite"
           /\ pc' \notin {"append", "rename", "drop", "unstage", "rewrite"}
    BY <1>31, <1>a DEF CopyFail, Goto, Staged, index, stage
  <2>2. QED
    BY <2>1, QuietStep
<1>32. CASE StageFailOld
  <2>1. finalized' = finalized /\ Staged' = Staged /\ pc # "rewrite"
           /\ pc' \notin {"append", "rename", "drop", "unstage", "rewrite"}
    BY <1>32, <1>a DEF StageFailOld, Staged, index, stage
  <2>2. QED
    BY <2>1, QuietStep
<1>33. CASE StageFailNew
  <2>1. finalized' = finalized /\ Staged' = Staged /\ pc # "rewrite"
           /\ pc' \notin {"append", "rename", "drop", "unstage", "rewrite"}
    BY <1>33, <1>a DEF StageFailNew, Goto, Staged, index
  <2>2. QED
    BY <2>1, QuietStep
<1>34. CASE CtrlC
  <2>1. ~ (quit + 1 > 2)
    BY <1>34, <1>a, ScrapeConstants DEF CtrlC, TypeOK, ProcessOK
  <2>2. QED
    BY <1>34, <2>1, OutsideStep DEF CtrlC
<1>35. CASE Kill
  BY <1>35 DEF Kill, Fault, Happens
<1>36. CASE HeadAdvance
  BY <1>36, OutsideStep DEF HeadAdvance
<1>37. CASE Resync
  BY <1>37, OutsideStep DEF Resync, Happens
<1>38. CASE ExportStart
  BY <1>38, OutsideStep DEF ExportStart, Happens
<1>39. CASE ExportEnd
  BY <1>39, OutsideStep DEF ExportEnd
<1>40. CASE UNCHANGED vars
  BY <1>40, OutsideStep DEF vars
<1>41. CASE WriteFails
  BY <1>41 DEF WriteFails, FirstFails, ZeroFails, BloomFails, BinFails, RewriteFails,
                Fault, Happens
<1>42. QED
  BY <1>1, <1>2, <1>3, <1>4, <1>5, <1>6, <1>7, <1>8, <1>9, <1>10, <1>11, <1>12,
     <1>13, <1>14, <1>15, <1>16, <1>17, <1>18, <1>19, <1>20, <1>21, <1>22, <1>23, <1>24,
     <1>25, <1>26, <1>27, <1>28, <1>29, <1>30, <1>31, <1>32, <1>33, <1>34, <1>35, <1>36,
     <1>37, <1>38, <1>39, <1>40, <1>41
  DEF Next, Scraper, Faulty, World, Starting, Blazing, Copying, Staging, Writing

\* The scraper implements the index: seen from outside, blockScrape appends chunks to
\* the index in order and from what it has staged, never changes or removes one, and
\* gives up no block that it has staged; whatever else its passes, snaps, Ctrl-C's,
\* retries and restarts do is invisible.  For every chain, MAX_ROWS, snap grid and
\* n_blocks, provided that the scraper is neither killed nor stopped on the spot by a
\* third Ctrl-C, and that no write fails unseen.
THEOREM ScraperKeepsIndex ==
    ASSUME "kill" \notin FaultKinds, "write" \notin FaultKinds, MaxSignals <= 2
    PROVE  Spec => ImplementsIndex
<1>1. Init => Ahead
  BY DEF Init, Ahead
<1>2. Init => Index!Init
  <2> SUFFICES ASSUME Init PROVE Index!Init
    OBVIOUS
  <2>1. finalized = {} /\ Staged = {} /\ FinalBlock = 0 /\ pc = "down"
    BY DEF Init, Staged, FinalBlock
  <2>2. Max({0} \cup {}) = 0
    BY NameFacts, TopIs
  <2>3. IndexedTo = 0
    BY <2>1, <2>2 DEF IndexedTo, Top
  <2>4. QED
    BY <2>1, <2>3 DEF Index!Init
<1>3. TypeInv /\ OnceInv /\ Ahead /\ TypeInv' /\ OnceInv' /\ [Next]_vars
         => Ahead' /\ [Index!Next]_(Index!vars)
  BY IndexStep
<1>4. QED
  BY TypeInit, TypeNext, OnceInit, OnceNext, <1>1, <1>2, <1>3, PTL
  DEF Spec, ImplementsIndex, Index!Spec
=============================================================================
