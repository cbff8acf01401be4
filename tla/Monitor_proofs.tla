--------------------------- MODULE Monitor_proofs ---------------------------
(***************************************************************************)
(* acctExport.  One of them at a time never misses two chunks that follow  *)
(* each other, and adds nothing to its monitors that is not so, for any    *)
(* number of monitors and chunks, any addresses and any bloom filters,     *)
(* wherever it is killed or fails.  And the statements it makes with       *)
(* --accounting keep the account's books, for any histories, windows and   *)
(* filters.                                                                *)
(***************************************************************************)
EXTENDS Monitor, Reconcile, TLAPS, WellFoundedInduction

\* What the theorems assume: one process, and no kill inside of clean or rm.
Alone(p) ==
    /\ Procs = {p}
    /\ FaultKinds \cap {"killclean", "killremove"} = {}

-----------------------------------------------------------------------------
(* Chunks and .last.txt *)

\* Chunk c is before what .last.txt says.
Before(c, l) == Last(c) < l

\* What .last.txt may say: it is missing, or it follows a chunk.
NextBlocks == {0} \cup {Last(c) + 1 : c \in Chunks}

LEMMA ChunkOrder ==
  ASSUME NEW c \in Chunks, NEW d \in Chunks
  PROVE  /\ First(c) \in Nat /\ Last(c) = First(c) + 1
         /\ c < d => First(c) + Width <= First(d)
<1> DEFINE w == Width
<1>1. w \in Nat /\ c - 1 \in Nat /\ d - 1 \in Nat
  BY MonitorConstants DEF Chunks, Width
<1>2. First(c) = (c - 1) * w /\ First(d) = (d - 1) * w
  BY DEF First
<1> HIDE DEF w
<1>3. (c - 1) * w \in Nat
  BY <1>1
<1>4. ASSUME c < d PROVE (c - 1) * w + w <= (d - 1) * w
  <2>1. d - c - 1 \in Nat
    BY <1>4, <1>1 DEF Chunks
  <2>2. (d - c - 1) * w \in Nat
    BY <1>1, <2>1
  <2>3. (d - 1) * w = (c - 1) * w + w + (d - c - 1) * w
    BY <1>1, <2>1 DEF Chunks
  <2>4. QED
    BY <1>1, <1>3, <2>2, <2>3
<1>5. w = 2 /\ Width = 2
  BY DEF w, Width
<1>6. c < d => First(c) + Width <= First(d)
  BY <1>2, <1>3, <1>4, <1>5
<1>7. QED
  BY <1>2, <1>3, <1>5, <1>6 DEF Last

LEMMA NextBlockType ==
  ASSUME NEW l \in NextBlocks
  PROVE  l \in 0 .. Last(MaxChunks) + 1
<1>1. MaxChunks \in Chunks /\ \A c \in Chunks : c <= MaxChunks
  BY MonitorConstants DEF Chunks
<1>2. \A c \in Chunks : First(c) \in Nat /\ Last(c) = First(c) + 1
  BY ChunkOrder
<1>3. \A c \in Chunks : c # MaxChunks => First(c) + Width <= First(MaxChunks)
  BY <1>1, ChunkOrder DEF Chunks
<1>4. QED
  BY <1>1, <1>2, <1>3, MonitorConstants DEF NextBlocks, Width

LEMMA BeforeFacts ==
  ASSUME NEW c \in Chunks, NEW d \in Chunks, NEW l \in NextBlocks
  PROVE  /\ ~ Before(c, 0)
         /\ Before(c, Last(d) + 1) <=> c <= d
         /\ Before(d, l) /\ c <= d => Before(c, l)
         /\ ~ Before(d, l) => l <= Last(d) + 1
<1>1. /\ First(c) \in Nat /\ Last(c) = First(c) + 1
      /\ First(d) \in Nat /\ Last(d) = First(d) + 1
      /\ c < d => First(c) + Width <= First(d)
      /\ d < c => First(d) + Width <= First(c)
  BY ChunkOrder
<1>2. l \in Int
  BY NextBlockType, ChunkOrder, MonitorConstants DEF Chunks
<1>3. c \in Int /\ d \in Int
  BY MonitorConstants DEF Chunks
<1>4. QED
  BY <1>1, <1>2, <1>3 DEF Before, Width

\* A monitor is not looked up in a chunk that is before its .last.txt, and neither in
\* the one that begins there.
LEMMA PossibleFacts ==
  ASSUME NEW c \in Chunks, NEW l \in NextBlocks
  PROVE  /\ l = 0 \/ l < First(c) => ~ Before(c, l)
         /\ ~ (l = 0 \/ l < First(c)) => Before(c, l) \/ (c - 1 \in Chunks /\ l = Last(c - 1) + 1)
<1>1. First(c) \in Nat /\ Last(c) = First(c) + 1 /\ First(c) = (c - 1) * 2
  BY ChunkOrder DEF First, Width
<1>2. CASE l = 0
  BY <1>1, <1>2 DEF Before
<1>3. ASSUME NEW d \in Chunks, l = Last(d) + 1
      PROVE  /\ l < First(c) => ~ Before(c, l)
             /\ ~ (l < First(c)) => Before(c, l) \/ d = c - 1
  <2>1. First(d) \in Nat /\ Last(d) = First(d) + 1 /\ First(d) = (d - 1) * 2
    BY ChunkOrder DEF First, Width
  <2>2. c \in Int /\ d \in Int
    BY DEF Chunks
  <2>3. QED
    BY <1>1, <1>3, <2>1, <2>2 DEF Before
<1>4. ASSUME l # 0 PROVE \E d \in Chunks : l = Last(d) + 1
  BY <1>4 DEF NextBlocks
<1>5. QED
  BY <1>2, <1>3, <1>4

LEMMA UpToNext ==
  ASSUME NEW c \in Chunks, NEW k \in Nat PROVE c < k + 1 <=> (c < k \/ c = k)
  BY MonitorConstants DEF Chunks

LEMMA MinExists == ASSUME NEW S \in SUBSET Nat, S # {} PROVE \E f \in S : \A g \in S : f <= g
<1>1. \E f \in S : \A g \in S : ~ (<<g, f>> \in OpToRel(<, Nat))
  BY NatLessThanWellFounded, WFMin, Zenon
<1>2. OpToRel(<, Nat) = {r \in Nat \X Nat : r[1] < r[2]}
  BY Zenon DEF OpToRel
<1>3. PICK f \in S : \A g \in S : ~ (<<g, f>> \in {r \in Nat \X Nat : r[1] < r[2]})
  BY <1>1, <1>2, Zenon
<1>4. ASSUME NEW g \in S, g < f PROVE FALSE
  <2>1. <<g, f>> \in {r \in Nat \X Nat : r[1] < r[2]}
    BY <1>4
  <2>2. QED
    BY <1>3, <2>1, Zenon
<1>5. QED
  BY <1>4

-----------------------------------------------------------------------------
(* .acct.bin *)

\* A file holds the appearances of a chunk.
Held(b, c) == b # NoBin /\ b[c] > 0
HeldAt(place, m, c) == Held(bin[place][m], c)

LEMMA BinFacts ==
  /\ \A b \in [Chunks -> Nat] : b # NoBin
  /\ EmptyBin \in [Chunks -> Nat] /\ EmptyBin # NoBin
  /\ \A c \in Chunks : ~ Held(EmptyBin, c) /\ ~ Held(NoBin, c)
<1>1. DOMAIN NoBin = {} /\ 1 \in Chunks
  BY MonitorConstants DEF NoBin, Chunks
<1>2. \A b \in [Chunks -> Nat] : b # NoBin
  BY <1>1
<1>3. EmptyBin \in [Chunks -> Nat] /\ \A c \in Chunks : EmptyBin[c] = 0
  BY DEF EmptyBin
<1>4. QED
  BY <1>2, <1>3 DEF Held

\* What Scan makes of a file.
Scanned(b, k, hit) ==
    [(IF b = NoBin THEN EmptyBin ELSE b) EXCEPT ![k] = IF hit THEN @ + 1 ELSE @]

LEMMA ScannedFacts ==
  ASSUME NEW b \in Bins, NEW k \in Chunks, NEW hit \in BOOLEAN
  PROVE  /\ Scanned(b, k, hit) \in [Chunks -> Nat]
         /\ \A c \in Chunks : c # k \/ ~ hit =>
              (Held(Scanned(b, k, hit), c) <=> Held(b, c)) /\ (b # NoBin => Scanned(b, k, hit)[c] = b[c])
         /\ hit => Held(Scanned(b, k, hit), k)
         /\ hit /\ ~ Held(b, k) => Scanned(b, k, hit)[k] = 1
<1> DEFINE old == IF b = NoBin THEN EmptyBin ELSE b
<1>1. old \in [Chunks -> Nat] /\ \A c \in Chunks : Held(old, c) <=> Held(b, c)
  BY BinFacts DEF Bins
<1>2. b # NoBin => old = b
  OBVIOUS
<1>3. Scanned(b, k, hit) = [old EXCEPT ![k] = IF hit THEN old[k] + 1 ELSE old[k]]
  BY DEF Scanned
<1> HIDE DEF old
<1>4. /\ Scanned(b, k, hit) \in [Chunks -> Nat] /\ Scanned(b, k, hit) # NoBin /\ old # NoBin
      /\ \A c \in Chunks : c # k \/ ~ hit => Scanned(b, k, hit)[c] = old[c]
      /\ hit => Scanned(b, k, hit)[k] = old[k] + 1
  BY <1>1, <1>3, BinFacts
<1>5. \A c \in Chunks : old[c] \in Nat /\ (Held(old, c) <=> old[c] > 0)
  BY <1>1, <1>4 DEF Held
<1>6. QED
  BY <1>1, <1>2, <1>4, <1>5 DEF Held

-----------------------------------------------------------------------------
(* What a file lacks *)

\* A file b has what there is of a monitor m in chunk c, h being the chunks it is in.
FoundIn(b, h, m, c) == c \in h => Held(b, c) \/ Dropped(m, c)

\* Or it has what there is in the one before.
PassedIn(b, h, m, c) == FoundIn(b, h, m, c) \/ (c > 1 /\ FoundIn(b, h, m, c - 1))

\* A .last.txt that says l fits such a file: no two chunks before it are missed, and
\* the last of them is not.
Fits(b, h, m, l) ==
    /\ \A c \in Chunks : Before(c, l) => PassedIn(b, h, m, c)
    /\ \A c \in Chunks : l = Last(c) + 1 => FoundIn(b, h, m, c)

\* The file b has nothing that d lacks.
Covers(d, b, m) == \A c \in Chunks : Held(b, c) => Held(d, c) \/ Dropped(m, c)

LEMMA CoversFacts ==
  ASSUME NEW b, NEW d, NEW h \in SUBSET Chunks, NEW m, Covers(d, b, m)
  PROVE  /\ \A c \in Chunks : FoundIn(b, h, m, c) => FoundIn(d, h, m, c)
         /\ \A c \in Chunks : PassedIn(b, h, m, c) => PassedIn(d, h, m, c)
         /\ \A l : Fits(b, h, m, l) => Fits(d, h, m, l)
<1>1. \A c : FoundIn(b, h, m, c) => FoundIn(d, h, m, c)
  BY DEF FoundIn, Covers
<1>2. \A c : PassedIn(b, h, m, c) => PassedIn(d, h, m, c)
  BY <1>1 DEF PassedIn
<1>3. QED
  BY <1>1, <1>2 DEF Fits

LEMMA FitsMissing == ASSUME NEW b, NEW h, NEW m PROVE Fits(b, h, m, 0)
<1>1. \A c \in Chunks : ~ Before(c, 0) /\ 0 # Last(c) + 1
  BY ChunkOrder DEF Before
<1>2. QED
  BY <1>1 DEF Fits

\* The step from one chunk to the next.
LEMMA FitsNext ==
  ASSUME NEW b, NEW h, NEW m, NEW k \in Chunks, FoundIn(b, h, m, k),
         \A c \in Chunks : c < k \/ c = k => PassedIn(b, h, m, c)
  PROVE  Fits(b, h, m, Last(k) + 1)
<1>1. Last(k) + 1 \in NextBlocks
  BY DEF NextBlocks
<1>2. ASSUME NEW c \in Chunks, Before(c, Last(k) + 1) PROVE c < k \/ c = k
  BY <1>1, <1>2, BeforeFacts DEF Chunks
<1>3. ASSUME NEW c \in Chunks, Last(k) + 1 = Last(c) + 1 PROVE c = k
  BY <1>3, ChunkOrder DEF Chunks, Width
<1>4. QED
  BY <1>2, <1>3 DEF Fits

\* A chunk in which a monitor is not looked up although it is not before .last.txt
\* follows one that was not missed.
LEMMA NotPossible ==
  ASSUME NEW b, NEW h, NEW m, NEW c \in Chunks, NEW l \in NextBlocks,
         ~ (l = 0 \/ l < First(c)), Fits(b, h, m, l)
  PROVE  PassedIn(b, h, m, c)
<1>1. CASE Before(c, l)
  BY <1>1 DEF Fits
<1>2. CASE c - 1 \in Chunks /\ l = Last(c - 1) + 1
  BY <1>2 DEF Fits, PassedIn, Chunks
<1>3. QED
  BY <1>1, <1>2, PossibleFacts

-----------------------------------------------------------------------------
(* Types *)

BinType == bin \in [{"prod", "stage"} -> [Monitors -> Bins]]
LastType == last \in [{"prod", "stage"} -> [Monitors -> 0 .. Last(MaxChunks) + 1]]
PcType == pc \in [Procs -> {"none", "clean", "visit", "scan", "lasts", "move", "moveLast",
                            "cleanOpen", "cleanWrite", "rmLast", "rmDels"}]
IndexType ==
    /\ nChunks \in 0 .. MaxChunks
    /\ hits \in [Monitors -> SUBSET Chunks] /\ blooms \in [Monitors -> SUBSET Chunks]
    /\ dels \subseteq Monitors /\ faults \in 0 .. MaxFaults
SetType ==
    /\ addrs \in [Procs -> SUBSET Monitors] /\ staged \in [Procs -> SUBSET Monitors]
    /\ poss \in [Procs -> SUBSET Monitors] /\ todo \in [Procs -> SUBSET Monitors]
    /\ kept \in [Procs -> Bins]
ChunkType ==
    /\ range \in [Procs -> (0 .. Last(MaxChunks) + 1) \X (0 .. MaxChunks)]
    /\ chunk \in [Procs -> 0 .. MaxChunks + 1]

LEMMA TypeParts ==
  TypeOK <=> BinType /\ LastType /\ PcType /\ IndexType /\ SetType /\ ChunkType
  BY DEF TypeOK, BinType, LastType, PcType, IndexType, SetType, ChunkType

\* What the types say of a process.
TypesAt(p) ==
    /\ addrs[p] \subseteq Monitors /\ staged[p] \subseteq Monitors
    /\ poss[p] \subseteq Monitors /\ todo[p] \subseteq Monitors
    /\ chunk[p] \in Nat /\ chunk[p] <= MaxChunks + 1
    /\ range[p][1] \in Nat /\ range[p][2] \in 0 .. MaxChunks
    /\ \A m \in Monitors : hits[m] \subseteq Chunks /\ blooms[m] \subseteq Chunks
    /\ \A m \in Monitors : /\ bin["prod"][m] \in Bins /\ bin["stage"][m] \in Bins
                           /\ last["prod"][m] \in Nat /\ last["stage"][m] \in Nat
    /\ Chunks \subseteq Nat /\ MaxChunks \in Nat

LEMMA TypesOfLocals == ASSUME TypeOK, NEW p \in Procs PROVE TypesAt(p)
<1>1. BinType /\ LastType /\ IndexType /\ SetType /\ ChunkType
  BY TypeParts
<1>2. Last(MaxChunks) \in Nat /\ MaxChunks \in Nat /\ Chunks \subseteq Nat
  BY ChunkOrder, MonitorConstants DEF Chunks
<1>3. /\ addrs[p] \subseteq Monitors /\ staged[p] \subseteq Monitors
      /\ poss[p] \subseteq Monitors /\ todo[p] \subseteq Monitors
  BY <1>1 DEF SetType
<1>4. chunk[p] \in Nat /\ chunk[p] <= MaxChunks + 1
      /\ range[p][1] \in Nat /\ range[p][2] \in 0 .. MaxChunks
  BY <1>1, <1>2 DEF ChunkType
<1>5. \A m \in Monitors : hits[m] \subseteq Chunks /\ blooms[m] \subseteq Chunks
  BY <1>1 DEF IndexType
<1>6. \A m \in Monitors : /\ bin["prod"][m] \in Bins /\ bin["stage"][m] \in Bins
                          /\ last["prod"][m] \in Nat /\ last["stage"][m] \in Nat
  BY <1>1, <1>2 DEF BinType, LastType
<1>7. QED
  BY <1>2, <1>3, <1>4, <1>5, <1>6 DEF TypesAt

-----------------------------------------------------------------------------
(* The inductive invariant *)

Reading == {"clean", "visit", "scan", "lasts"}
Visiting == {"visit", "scan", "lasts"}
Moving == {"move", "moveLast"}
Cleaning == {"cleanOpen", "cleanWrite"}

LastForm == \A m \in Monitors : last["prod"][m] \in NextBlocks /\ last["stage"][m] \in NextBlocks

\* Where the process is in its loops.  What it builds in staging is not in production
\* until it is moved.
LoopInv(p) ==
    /\ staged[p] \subseteq addrs[p]
    /\ pc[p] = "clean" => chunk[p] = 1
    /\ pc[p] \in Reading =>
          /\ chunk[p] >= 1
          /\ \A m \in addrs[p] : range[p][1] <= last["prod"][m]
          /\ \A m \in staged[p] : bin["prod"][m] = NoBin
    /\ pc[p] \in {"scan", "lasts"} =>
          chunk[p] \in Chunks /\ todo[p] \subseteq poss[p] /\ poss[p] \subseteq addrs[p]
    /\ pc[p] \in Moving =>
          \A m \in todo[p] : pc[p] = "move" \/ m \notin poss[p] => bin["prod"][m] = NoBin
    /\ pc[p] = "moveLast" => \A m \in poss[p] : bin["stage"][m] = NoBin
    /\ pc[p] = "rmLast" => \A m \in todo[p] : bin["prod"][m] = NoBin
    /\ pc[p] \in Cleaning \cup {"rmLast", "rmDels"} => \A m, n \in todo[p] : m = n

\* The chunks that the process is through with for a monitor.
Searched(p, m, c) ==
    \/ c < chunk[p]
    \/ c = chunk[p] /\ (pc[p] = "lasts" \/ (pc[p] = "scan" /\ m \notin todo[p]))

\* Nothing of them is missed in the file that the process writes to, but for chunks that
\* follow one that is not: the monitor was not looked up there.
SeenInv(p) ==
    pc[p] \in Visiting =>
       \A m \in addrs[p] :
          /\ \A c \in Chunks : Searched(p, m, c) => PassedIn(bin[Place(p, m)][m], hits[m], m, c)
          /\ m \in poss[p] /\ Searched(p, m, chunk[p])
                => FoundIn(bin[Place(p, m)][m], hits[m], m, chunk[p])

\* The files of the staging folder fit each other, until they are moved one by one.
StageInv(p) ==
    pc[p] \in Visiting \cup Moving =>
       \A m \in Monitors :
          Fits(IF pc[p] = "moveLast" /\ m \in poss[p] THEN bin["prod"][m] ELSE bin["stage"][m],
               hits[m], m, last["stage"][m])

ProdInv(p) ==
    \A m \in Monitors : ~ (m \in todo[p] /\ pc[p] \in {"cleanWrite", "rmLast"})
       => Fits(bin["prod"][m], hits[m], m, last["prod"][m])

\* Cleaning keeps in memory what it takes from the file.
KeptInv(p) ==
    pc[p] \in Cleaning =>
       /\ kept[p] \in [Chunks -> {0, 1}]
       /\ \A m \in todo[p] :
            /\ pc[p] = "cleanOpen" => Covers(kept[p], bin["prod"][m], m)
            /\ pc[p] = "cleanWrite" => Fits(kept[p], hits[m], m, last["prod"][m])
            /\ \A c \in Chunks : kept[p][c] = 1 => c \in hits[m]

\* Bloom filters have no false negatives, and files nothing but appearances.
OnlyHits ==
    /\ \A m \in Monitors : hits[m] \subseteq blooms[m]
    /\ \A m \in Monitors, c \in Chunks :
          HeldAt("prod", m, c) \/ HeldAt("stage", m, c) => c \in hits[m]

\* Where the process still has to write, .last.txt is not past the chunk.
BehindInv(p) ==
    /\ pc[p] = "scan" => \A m \in poss[p] : ~ Before(chunk[p], last["prod"][m])
    /\ pc[p] = "lasts" => \A m \in todo[p] : ~ Before(chunk[p], last["prod"][m])
    /\ pc[p] \in Visiting => \A m \in Monitors, c \in Chunks :
          Before(c, last["stage"][m]) => c < chunk[p] \/ (c = chunk[p] /\ pc[p] = "lasts")

MonitorInv(p) ==
    /\ TypeOK /\ LastForm /\ LoopInv(p) /\ SeenInv(p) /\ StageInv(p)
    /\ ProdInv(p) /\ KeptInv(p) /\ OnlyHits /\ BehindInv(p)

\* The appearances of the chunk are in the file, .last.txt does not say so yet.
InProgress(p, place, m, c) ==
    /\ pc[p] \in {"scan", "lasts"} /\ c = chunk[p]
    /\ m \in poss[p] /\ Place(p, m) = place
    /\ m \in todo[p] <=> pc[p] = "lasts"

\* Without faults, what a file holds it holds once, and nothing that .last.txt is not
\* past, but for the chunk in progress and the monitor that is being moved.
OnceAt(p, m, c) ==
    /\ HeldAt("prod", m, c) => bin["prod"][m][c] = 1
    /\ HeldAt("stage", m, c) => bin["stage"][m][c] = 1
    /\ HeldAt("prod", m, c) =>
          IF pc[p] = "moveLast" /\ m \in poss[p] THEN Before(c, last["stage"][m])
          ELSE Before(c, last["prod"][m]) \/ InProgress(p, "prod", m, c)
    /\ pc[p] \in Visiting \cup Moving /\ HeldAt("stage", m, c) =>
          Before(c, last["stage"][m]) \/ InProgress(p, "stage", m, c)
    /\ pc[p] \in Cleaning /\ m \in todo[p] /\ kept[p][c] = 1 => Before(c, last["prod"][m])

OnceInv(p) == \A m \in Monitors, c \in Chunks : OnceAt(p, m, c)

FaultlessInv(p) == faults = 0 => OnceInv(p)

-----------------------------------------------------------------------------
(* The steps *)

LEMMA CleanStageKeeps ==
  ASSUME NEW p, Alone(p), MonitorInv(p), FaultlessInv(p), CleanStage(p)
  PROVE  MonitorInv(p)' /\ FaultlessInv(p)'
<1> USE DEF MonitorInv
<1>0. p \in Procs /\ TypesAt(p)
  BY TypesOfLocals DEF Alone
<1>a. BinType /\ LastType /\ PcType /\ IndexType /\ SetType /\ ChunkType
  BY TypeParts
<1>1. /\ pc[p] = "clean" /\ pc'[p] = "visit"
      /\ UNCHANGED <<nChunks, hits, blooms, dels, faults, addrs, staged, range, chunk, poss, todo, kept>>
      /\ \A m \in Monitors : /\ bin'["prod"][m] = bin["prod"][m] /\ bin'["stage"][m] = NoBin
                            /\ last'["prod"][m] = last["prod"][m] /\ last'["stage"][m] = 0
  BY <1>0, <1>a DEF BinType, LastType, PcType, SetType, ChunkType, CleanStage, Goto, index, locals
<1>2. TypeOK'
  <2>1. BinType'
    BY <1>0, <1>1, <1>a DEF BinType, CleanStage, Goto, index, locals, Bins
  <2>2. LastType'
    BY <1>0, <1>1, <1>a, ChunkOrder, MonitorConstants DEF LastType, CleanStage, Goto, index, locals, Chunks
  <2>3. PcType'
    BY <1>0, <1>1, <1>a DEF PcType, CleanStage, Goto, index, locals
  <2>4. IndexType'
    BY <1>0, <1>1, <1>a DEF IndexType, CleanStage, Goto, index, locals
  <2>5. SetType'
    BY <1>0, <1>1, <1>a DEF SetType, CleanStage, Goto, index, locals
  <2>6. ChunkType'
    BY <1>0, <1>1, <1>a DEF ChunkType, CleanStage, Goto, index, locals
  <2>7. QED
    BY <2>1, <2>2, <2>3, <2>4, <2>5, <2>6
       DEF TypeOK, BinType, LastType, PcType, IndexType, SetType, ChunkType
<1>3. LastForm'
  BY <1>0, <1>1 DEF TypesAt, LastForm, NextBlocks
<1>4. LoopInv(p)'
  BY <1>0, <1>1 DEF TypesAt, LoopInv, Reading, Moving, Cleaning
<1>5. SeenInv(p)'
  <2>1. chunk'[p] = 1
    BY <1>0, <1>1 DEF LoopInv
  <2>2. \A m \in Monitors, c \in Chunks : ~ Searched(p, m, c)'
    BY <1>1, <2>1 DEF Searched, Chunks
  <2>3. QED
    BY <1>0, <1>1, <2>1, <2>2, MonitorConstants DEF TypesAt, SeenInv, Chunks
<1>6. StageInv(p)'
  BY <1>0, <1>1, FitsMissing DEF TypesAt, StageInv, Visiting, Moving
<1>7. ProdInv(p)'
  BY <1>0, <1>1 DEF TypesAt, ProdInv, HeldAt
<1>8. KeptInv(p)'
  BY <1>0, <1>1 DEF TypesAt, KeptInv, Cleaning, HeldAt
<1>9. OnlyHits'
  BY <1>0, <1>1, BinFacts DEF TypesAt, OnlyHits, HeldAt
<1>10. BehindInv(p)'
  BY <1>0, <1>1, BeforeFacts DEF TypesAt, BehindInv, Visiting, LastForm
<1>11. FaultlessInv(p)'
  BY <1>0, <1>1, BinFacts DEF TypesAt, FaultlessInv, OnceInv, OnceAt, InProgress, Visiting, Moving, Cleaning, Place, HeldAt
<1>12. QED
  BY <1>2, <1>3, <1>4, <1>5, <1>6, <1>7, <1>8, <1>9, <1>10, <1>11

LEMMA SkipChunkKeeps ==
  ASSUME NEW p, Alone(p), MonitorInv(p), FaultlessInv(p), SkipChunk(p)
  PROVE  MonitorInv(p)' /\ FaultlessInv(p)'
<1> USE DEF MonitorInv
<1>0. p \in Procs /\ TypesAt(p)
  BY TypesOfLocals DEF Alone
<1>a. BinType /\ LastType /\ PcType /\ IndexType /\ SetType /\ ChunkType
  BY TypeParts
<1>1. /\ pc[p] = "visit" /\ pc'[p] = "visit" /\ chunk[p] <= range[p][2] /\ chunk'[p] = chunk[p] + 1
      /\ UNCHANGED <<nChunks, hits, blooms, dels, bin, last, faults, addrs, staged, range, poss, todo, kept>>
  BY <1>0, <1>a DEF BinType, LastType, PcType, SetType, ChunkType, SkipChunk, NextChunk, index, disk
<1>2. TypeOK'
  <2>1. BinType'
    BY <1>0, <1>1, <1>a DEF BinType, SkipChunk, NextChunk, index, disk
  <2>2. LastType'
    BY <1>0, <1>1, <1>a DEF LastType, SkipChunk, NextChunk, index, disk
  <2>3. PcType'
    BY <1>0, <1>1, <1>a DEF PcType, SkipChunk, NextChunk, index, disk
  <2>4. IndexType'
    BY <1>0, <1>1, <1>a DEF IndexType, SkipChunk, NextChunk, index, disk
  <2>5. SetType'
    BY <1>0, <1>1, <1>a DEF SetType, SkipChunk, NextChunk, index, disk
  <2>6. ChunkType'
    BY <1>0, <1>1, <1>a DEF ChunkType, SkipChunk, NextChunk, index, disk, TypesAt
  <2>7. QED
    BY <2>1, <2>2, <2>3, <2>4, <2>5, <2>6
       DEF TypeOK, BinType, LastType, PcType, IndexType, SetType, ChunkType
<1>3. LastForm'
  BY <1>0, <1>1 DEF TypesAt, LastForm
<1>4. LoopInv(p)'
  BY <1>0, <1>1 DEF TypesAt, LoopInv, Reading, Moving, Cleaning
<1>5. SeenInv(p)'
  <2>1. chunk[p] \in Chunks
    BY <1>0, <1>1 DEF TypesAt, LoopInv, Reading, Chunks
  <2>2. \A m \in addrs[p] : PassedIn(bin["prod"][m], hits[m], m, chunk[p])
    <3>1. \A m \in addrs[p] : /\ Fits(bin["prod"][m], hits[m], m, last["prod"][m])
                             /\ last["prod"][m] \in NextBlocks
      BY <1>0, <1>1 DEF TypesAt, ProdInv, LastForm
    <3>2. CASE Possibles(p, chunk[p]) = {}
      BY <2>1, <3>1, <3>2, NotPossible DEF Possibles
    <3>3. CASE ~ Intersects(p, chunk[p])
      <4>1. range[p][2] \in Chunks /\ chunk[p] <= range[p][2]
        BY <1>0, <1>1, <2>1 DEF TypesAt, Chunks
      <4>2. /\ First(chunk[p]) \in Nat /\ Last(chunk[p]) = First(chunk[p]) + 1
            /\ First(range[p][2]) \in Nat /\ Last(range[p][2]) = First(range[p][2]) + 1
            /\ chunk[p] < range[p][2] => First(chunk[p]) + Width <= First(range[p][2])
        BY <2>1, <4>1, ChunkOrder
      <4>3. ~ (Last(range[p][2]) < First(chunk[p]))
        BY <2>1, <4>1, <4>2 DEF Width, Chunks
      <4>4. range[p][1] > Last(chunk[p])
        BY <3>3, <4>1, <4>3 DEF Intersects, Chunks
      <4>5. \A m \in addrs[p] : Before(chunk[p], last["prod"][m])
        BY <1>0, <1>1, <4>2, <4>4 DEF TypesAt, LoopInv, Reading, Before
      <4>6. QED
        BY <2>1, <3>1, <4>5 DEF Fits
    <3>4. QED
      BY <3>2, <3>3 DEF SkipChunk
  <2>3. \A m \in addrs[p] : PassedIn(bin[Place(p, m)][m], hits[m], m, chunk[p])
    <3>1. ASSUME NEW m \in staged[p] PROVE PassedIn(bin["stage"][m], hits[m], m, chunk[p])
      <4>1. bin["prod"][m] = NoBin /\ m \in addrs[p] /\ hits[m] \in SUBSET Chunks
        BY <1>0, <1>1, <3>1 DEF TypesAt, LoopInv, Reading
      <4>2. Covers(bin["stage"][m], NoBin, m)
        BY BinFacts DEF Covers
      <4>3. QED
        BY <2>1, <2>2, <4>1, <4>2, CoversFacts
    <3>2. QED
      BY <2>2, <3>1 DEF Place
  <2>4. \A c \in Chunks : c < chunk[p] + 1 => c < chunk[p] \/ c = chunk[p]
    BY <1>0, UpToNext DEF TypesAt
  <2>5. ASSUME NEW m \in addrs[p], NEW c \in Chunks, Searched(p, m, c)'
        PROVE  PassedIn(bin[Place(p, m)][m], hits[m], m, c)
    BY <1>0, <1>1, <2>3, <2>4, <2>5 DEF SeenInv, Searched, Visiting
  <2>6. \A m \in addrs[p] : ~ Searched(p, m, chunk[p])'
    <3>1. chunk'[p] \in Nat
      BY <1>0, <1>1 DEF TypesAt
    <3>2. ~ (chunk'[p] < chunk'[p])
      BY <3>1
    <3>3. QED
      BY <1>1, <3>2 DEF Searched
  <2>7. QED
    BY <1>0, <1>1, <2>5, <2>6 DEF SeenInv, Place
<1>6. StageInv(p)'
  BY <1>0, <1>1 DEF TypesAt, StageInv, Visiting, Moving, HeldAt
<1>7. ProdInv(p)'
  BY <1>0, <1>1 DEF TypesAt, ProdInv, HeldAt
<1>8. KeptInv(p)'
  BY <1>0, <1>1 DEF TypesAt, KeptInv, Cleaning, HeldAt
<1>9. OnlyHits'
  BY <1>0, <1>1 DEF TypesAt, OnlyHits, HeldAt
<1>10. BehindInv(p)'
  <2>1. \A c \in Chunks : c < chunk[p] => c < chunk[p] + 1
    BY <1>0, UpToNext DEF TypesAt
  <2>2. QED
    BY <1>1, <2>1 DEF BehindInv, Visiting
<1>11. FaultlessInv(p)'
  BY <1>0, <1>1 DEF TypesAt, FaultlessInv, OnceInv, OnceAt, InProgress, Visiting, Moving, Cleaning, Place, HeldAt
<1>12. QED
  BY <1>2, <1>3, <1>4, <1>5, <1>6, <1>7, <1>8, <1>9, <1>10, <1>11

LEMMA VisitChunkKeeps ==
  ASSUME NEW p, Alone(p), MonitorInv(p), FaultlessInv(p), VisitChunk(p)
  PROVE  MonitorInv(p)' /\ FaultlessInv(p)'
<1> USE DEF MonitorInv
<1>0. p \in Procs /\ TypesAt(p)
  BY TypesOfLocals DEF Alone
<1>a. BinType /\ LastType /\ PcType /\ IndexType /\ SetType /\ ChunkType
  BY TypeParts
<1>1. /\ pc[p] = "visit" /\ pc'[p] = "scan" /\ chunk[p] <= range[p][2]
      /\ poss'[p] = Possibles(p, chunk[p]) /\ todo'[p] = {m \in poss'[p] : chunk[p] \in blooms[m]}
      /\ UNCHANGED <<nChunks, hits, blooms, dels, bin, last, faults, addrs, staged, range, chunk, kept>>
  BY <1>0, <1>a DEF BinType, LastType, PcType, SetType, ChunkType, VisitChunk, Loop, Goto, index, disk
<1>2. /\ chunk[p] \in Chunks /\ poss'[p] \subseteq addrs[p]
      /\ \A m \in poss'[p] : ~ Before(chunk[p], last["prod"][m])
      /\ \A m \in addrs[p] : m \notin poss'[p] => PassedIn(bin["prod"][m], hits[m], m, chunk[p])
  <2>1. chunk[p] \in Chunks
    BY <1>0, <1>1 DEF TypesAt, LoopInv, Reading, Chunks
  <2>2. \A m \in addrs[p] : /\ Fits(bin["prod"][m], hits[m], m, last["prod"][m])
                           /\ last["prod"][m] \in NextBlocks
    BY <1>0, <1>1 DEF TypesAt, ProdInv, LastForm
  <2>3. \A m \in poss'[p] : ~ Before(chunk[p], last["prod"][m])
    BY <1>1, <2>1, <2>2, PossibleFacts DEF Possibles
  <2>4. \A m \in addrs[p] : m \notin poss'[p] => PassedIn(bin["prod"][m], hits[m], m, chunk[p])
    BY <1>1, <2>1, <2>2, NotPossible DEF Possibles
  <2>5. QED
    BY <1>1, <2>1, <2>3, <2>4 DEF Possibles
<1>3. TypeOK'
  <2>1. BinType'
    BY <1>0, <1>1, <1>a DEF BinType, VisitChunk, Loop, Goto, index, disk, Bins
  <2>2. LastType'
    BY <1>0, <1>1, <1>a DEF LastType, VisitChunk, Loop, Goto, index, disk
  <2>3. PcType'
    BY <1>0, <1>1, <1>a DEF PcType, VisitChunk, Loop, Goto, index, disk
  <2>4. IndexType'
    BY <1>0, <1>1, <1>a DEF IndexType, VisitChunk, Loop, Goto, index, disk
  <2>5. SetType'
    BY <1>0, <1>1, <1>a DEF SetType, VisitChunk, Loop, Goto, index, disk, Possibles, TypesAt
  <2>6. ChunkType'
    BY <1>0, <1>1, <1>a DEF ChunkType, VisitChunk, Loop, Goto, index, disk
  <2>7. QED
    BY <2>1, <2>2, <2>3, <2>4, <2>5, <2>6
       DEF TypeOK, BinType, LastType, PcType, IndexType, SetType, ChunkType
<1>4. LastForm'
  BY <1>0, <1>1, <1>2 DEF TypesAt, LastForm
<1>5. LoopInv(p)'
  BY <1>0, <1>1, <1>2 DEF TypesAt, LoopInv, Reading, Moving, Cleaning
<1>6. SeenInv(p)'
  <2>1. \A m \in addrs[p] : m \notin poss'[p] => PassedIn(bin[Place(p, m)][m], hits[m], m, chunk[p])
    <3>1. ASSUME NEW m \in staged[p], m \notin poss'[p]
          PROVE  PassedIn(bin["stage"][m], hits[m], m, chunk[p])
      <4>1. bin["prod"][m] = NoBin /\ m \in addrs[p] /\ hits[m] \in SUBSET Chunks
        BY <1>0, <1>1, <3>1 DEF TypesAt, LoopInv, Reading
      <4>2. Covers(bin["stage"][m], NoBin, m)
        BY BinFacts DEF Covers
      <4>3. QED
        BY <1>2, <3>1, <4>1, <4>2, CoversFacts
    <3>2. QED
      BY <1>2, <3>1 DEF Place
  <2>2. \A m \in addrs[p] : m \in poss'[p] /\ m \notin todo'[p]
          => FoundIn(bin[Place(p, m)][m], hits[m], m, chunk[p])
    BY <1>0, <1>1 DEF OnlyHits, TypesAt, FoundIn
  <2>3. ASSUME NEW m \in addrs[p], NEW c \in Chunks, Searched(p, m, c)'
        PROVE  PassedIn(bin[Place(p, m)][m], hits[m], m, c)
    BY <1>0, <1>1, <2>1, <2>2, <2>3 DEF SeenInv, Searched, Visiting, PassedIn
  <2>4. \A m \in addrs[p] : Searched(p, m, chunk[p])' => m \notin todo'[p]
    BY <1>0, <1>1, <1>2 DEF Searched, Chunks
  <2>5. QED
    BY <1>0, <1>1, <2>2, <2>3, <2>4 DEF SeenInv, Place
<1>7. StageInv(p)'
  BY <1>0, <1>1, <1>2 DEF TypesAt, StageInv, Visiting, Moving, HeldAt
<1>8. ProdInv(p)'
  BY <1>0, <1>1, <1>2 DEF TypesAt, ProdInv, HeldAt
<1>9. KeptInv(p)'
  BY <1>0, <1>1, <1>2 DEF TypesAt, KeptInv, Cleaning, HeldAt
<1>10. OnlyHits'
  BY <1>0, <1>1, <1>2 DEF TypesAt, OnlyHits, HeldAt
<1>11. BehindInv(p)'
  BY <1>0, <1>1, <1>2 DEF TypesAt, BehindInv, Visiting
<1>12. FaultlessInv(p)'
  BY <1>0, <1>1, <1>2 DEF TypesAt, FaultlessInv, OnceInv, OnceAt, InProgress, Visiting, Moving, Cleaning, Place, HeldAt
<1>13. QED
  BY <1>3, <1>4, <1>5, <1>6, <1>7, <1>8, <1>9, <1>10, <1>11, <1>12

LEMMA ScanDoneKeeps ==
  ASSUME NEW p, Alone(p), MonitorInv(p), FaultlessInv(p), ScanDone(p)
  PROVE  MonitorInv(p)' /\ FaultlessInv(p)'
<1> USE DEF MonitorInv
<1>0. p \in Procs /\ TypesAt(p)
  BY TypesOfLocals DEF Alone
<1>a. BinType /\ LastType /\ PcType /\ IndexType /\ SetType /\ ChunkType
  BY TypeParts
<1>1. /\ pc[p] = "scan" /\ pc'[p] = "lasts" /\ todo[p] = {} /\ todo'[p] = poss[p]
      /\ UNCHANGED <<nChunks, hits, blooms, dels, bin, last, faults, addrs, staged, range, chunk, poss, kept>>
  BY <1>0, <1>a DEF BinType, LastType, PcType, SetType, ChunkType, ScanDone, Loop, Goto, index, disk
<1>2. TypeOK'
  <2>1. BinType'
    BY <1>0, <1>1, <1>a DEF BinType, ScanDone, Loop, Goto, index, disk
  <2>2. LastType'
    BY <1>0, <1>1, <1>a DEF LastType, ScanDone, Loop, Goto, index, disk
  <2>3. PcType'
    BY <1>0, <1>1, <1>a DEF PcType, ScanDone, Loop, Goto, index, disk
  <2>4. IndexType'
    BY <1>0, <1>1, <1>a DEF IndexType, ScanDone, Loop, Goto, index, disk
  <2>5. SetType'
    BY <1>0, <1>1, <1>a DEF SetType, ScanDone, Loop, Goto, index, disk
  <2>6. ChunkType'
    BY <1>0, <1>1, <1>a DEF ChunkType, ScanDone, Loop, Goto, index, disk
  <2>7. QED
    BY <2>1, <2>2, <2>3, <2>4, <2>5, <2>6
       DEF TypeOK, BinType, LastType, PcType, IndexType, SetType, ChunkType
<1>3. LastForm'
  BY <1>0, <1>1 DEF TypesAt, LastForm
<1>4. LoopInv(p)'
  BY <1>0, <1>1 DEF TypesAt, LoopInv, Reading, Moving, Cleaning
<1>5. SeenInv(p)'
  <2>1. \A m, c : Searched(p, m, c)' => Searched(p, m, c)
    BY <1>0, <1>1 DEF Searched
  <2>2. QED
    BY <1>0, <1>1, <2>1 DEF SeenInv, Visiting, Place
<1>6. StageInv(p)'
  BY <1>0, <1>1 DEF TypesAt, StageInv, Visiting, Moving, HeldAt
<1>7. ProdInv(p)'
  BY <1>0, <1>1 DEF TypesAt, ProdInv, HeldAt
<1>8. KeptInv(p)'
  BY <1>0, <1>1 DEF TypesAt, KeptInv, Cleaning, HeldAt
<1>9. OnlyHits'
  BY <1>0, <1>1 DEF TypesAt, OnlyHits, HeldAt
<1>10. BehindInv(p)'
  BY <1>0, <1>1 DEF TypesAt, BehindInv, Visiting
<1>11. FaultlessInv(p)'
  BY <1>0, <1>1 DEF TypesAt, FaultlessInv, OnceInv, OnceAt, InProgress, Visiting, Moving, Cleaning, Place, HeldAt
<1>12. QED
  BY <1>2, <1>3, <1>4, <1>5, <1>6, <1>7, <1>8, <1>9, <1>10, <1>11

LEMMA LastsDoneKeeps ==
  ASSUME NEW p, Alone(p), MonitorInv(p), FaultlessInv(p), LastsDone(p)
  PROVE  MonitorInv(p)' /\ FaultlessInv(p)'
<1> USE DEF MonitorInv
<1>0. p \in Procs /\ TypesAt(p)
  BY TypesOfLocals DEF Alone
<1>a. BinType /\ LastType /\ PcType /\ IndexType /\ SetType /\ ChunkType
  BY TypeParts
<1>1. /\ pc[p] = "lasts" /\ pc'[p] = "visit" /\ todo[p] = {} /\ chunk'[p] = chunk[p] + 1
      /\ UNCHANGED <<nChunks, hits, blooms, dels, bin, last, faults, addrs, staged, range, todo, poss, kept>>
  BY <1>0, <1>a DEF BinType, LastType, PcType, SetType, ChunkType, LastsDone, NextChunk, Goto, index, disk
<1>2. \A c \in Chunks : c < chunk[p] + 1 <=> (c < chunk[p] \/ c = chunk[p])
  BY <1>0, UpToNext DEF TypesAt
<1>3. TypeOK'
  <2>1. BinType'
    BY <1>0, <1>1, <1>a DEF BinType, LastsDone, NextChunk, Goto, index, disk
  <2>2. LastType'
    BY <1>0, <1>1, <1>a DEF LastType, LastsDone, NextChunk, Goto, index, disk
  <2>3. PcType'
    BY <1>0, <1>1, <1>a DEF PcType, LastsDone, NextChunk, Goto, index, disk
  <2>4. IndexType'
    BY <1>0, <1>1, <1>a DEF IndexType, LastsDone, NextChunk, Goto, index, disk
  <2>5. SetType'
    BY <1>0, <1>1, <1>a DEF SetType, LastsDone, NextChunk, Goto, index, disk
  <2>6. ChunkType'
    BY <1>0, <1>1, <1>a DEF ChunkType, LastsDone, NextChunk, Goto, index, disk, LoopInv, Chunks, TypesAt
  <2>7. QED
    BY <2>1, <2>2, <2>3, <2>4, <2>5, <2>6
       DEF TypeOK, BinType, LastType, PcType, IndexType, SetType, ChunkType
<1>4. LastForm'
  BY <1>0, <1>1, <1>2 DEF TypesAt, LastForm
<1>5. LoopInv(p)'
  BY <1>0, <1>1, <1>2 DEF TypesAt, LoopInv, Reading, Moving, Cleaning
<1>6. SeenInv(p)'
  <2>1. \A m : \A c \in Chunks : Searched(p, m, c)' => Searched(p, m, c)
    BY <1>0, <1>1, <1>2 DEF Searched
  <2>2. \A m : ~ Searched(p, m, chunk[p])'
    <3>1. chunk'[p] \in Nat
      BY <1>0, <1>1 DEF TypesAt
    <3>2. ~ (chunk'[p] < chunk'[p])
      BY <3>1
    <3>3. QED
      BY <1>1, <3>2 DEF Searched
  <2>3. QED
    BY <1>0, <1>1, <2>1, <2>2 DEF SeenInv, Visiting, Place
<1>7. StageInv(p)'
  BY <1>0, <1>1, <1>2 DEF TypesAt, StageInv, Visiting, Moving, HeldAt
<1>8. ProdInv(p)'
  BY <1>0, <1>1, <1>2 DEF TypesAt, ProdInv, HeldAt
<1>9. KeptInv(p)'
  BY <1>0, <1>1, <1>2 DEF TypesAt, KeptInv, Cleaning, HeldAt
<1>10. OnlyHits'
  BY <1>0, <1>1, <1>2 DEF TypesAt, OnlyHits, HeldAt
<1>11. BehindInv(p)'
  BY <1>0, <1>1, <1>2 DEF TypesAt, BehindInv, Visiting
<1>12. FaultlessInv(p)'
  BY <1>0, <1>1, <1>2 DEF TypesAt, FaultlessInv, OnceInv, OnceAt, InProgress, Visiting, Moving, Cleaning, Place, HeldAt
<1>13. QED
  BY <1>3, <1>4, <1>5, <1>6, <1>7, <1>8, <1>9, <1>10, <1>11, <1>12

LEMMA VisitsDoneKeeps ==
  ASSUME NEW p, Alone(p), MonitorInv(p), FaultlessInv(p), VisitsDone(p)
  PROVE  MonitorInv(p)' /\ FaultlessInv(p)'
<1> USE DEF MonitorInv
<1>0. p \in Procs /\ TypesAt(p)
  BY TypesOfLocals DEF Alone
<1>a. BinType /\ LastType /\ PcType /\ IndexType /\ SetType /\ ChunkType
  BY TypeParts
<1>1. /\ pc[p] = "visit" /\ pc'[p] = "move" /\ todo'[p] = staged[p]
      /\ UNCHANGED <<nChunks, hits, blooms, dels, bin, last, faults, addrs, staged, range, chunk, poss, kept>>
  BY <1>0, <1>a DEF BinType, LastType, PcType, SetType, ChunkType, VisitsDone, Loop, Goto, index, disk
<1>2. TypeOK'
  <2>1. BinType'
    BY <1>0, <1>1, <1>a DEF BinType, VisitsDone, Loop, Goto, index, disk
  <2>2. LastType'
    BY <1>0, <1>1, <1>a DEF LastType, VisitsDone, Loop, Goto, index, disk
  <2>3. PcType'
    BY <1>0, <1>1, <1>a DEF PcType, VisitsDone, Loop, Goto, index, disk
  <2>4. IndexType'
    BY <1>0, <1>1, <1>a DEF IndexType, VisitsDone, Loop, Goto, index, disk
  <2>5. SetType'
    BY <1>0, <1>1, <1>a DEF SetType, VisitsDone, Loop, Goto, index, disk
  <2>6. ChunkType'
    BY <1>0, <1>1, <1>a DEF ChunkType, VisitsDone, Loop, Goto, index, disk
  <2>7. QED
    BY <2>1, <2>2, <2>3, <2>4, <2>5, <2>6
       DEF TypeOK, BinType, LastType, PcType, IndexType, SetType, ChunkType
<1>3. LastForm'
  BY <1>0, <1>1 DEF TypesAt, LastForm
<1>4. LoopInv(p)'
  BY <1>0, <1>1 DEF TypesAt, LoopInv, Reading, Moving, Cleaning
<1>5. SeenInv(p)'
  BY <1>0, <1>1 DEF TypesAt, SeenInv, Searched, Visiting, Place, HeldAt
<1>6. StageInv(p)'
  BY <1>0, <1>1 DEF TypesAt, StageInv, Visiting, Moving, HeldAt
<1>7. ProdInv(p)'
  BY <1>0, <1>1 DEF TypesAt, ProdInv, HeldAt
<1>8. KeptInv(p)'
  BY <1>0, <1>1 DEF TypesAt, KeptInv, Cleaning, HeldAt
<1>9. OnlyHits'
  BY <1>0, <1>1 DEF TypesAt, OnlyHits, HeldAt
<1>10. BehindInv(p)'
  BY <1>0, <1>1 DEF TypesAt, BehindInv, Visiting
<1>11. FaultlessInv(p)'
  BY <1>0, <1>1 DEF TypesAt, FaultlessInv, OnceInv, OnceAt, InProgress, Visiting, Moving, Cleaning, Place, HeldAt
<1>12. QED
  BY <1>2, <1>3, <1>4, <1>5, <1>6, <1>7, <1>8, <1>9, <1>10, <1>11

LEMMA ScanKeeps ==
  ASSUME NEW p, Alone(p), MonitorInv(p), FaultlessInv(p), NEW m \in Monitors, Scan(p, m)
  PROVE  MonitorInv(p)' /\ FaultlessInv(p)'
<1> USE DEF MonitorInv
<1>0. p \in Procs /\ TypesAt(p)
  BY TypesOfLocals DEF Alone
<1>a. BinType /\ LastType /\ PcType /\ IndexType /\ SetType /\ ChunkType
  BY TypeParts
<1>1. /\ pc[p] = "scan" /\ m \in todo[p] /\ todo'[p] = todo[p] \ {m}
      /\ bin' = [bin EXCEPT ![Place(p, m)][m] =
                   Scanned(bin[Place(p, m)][m], chunk[p], chunk[p] \in hits[m])]
      /\ UNCHANGED <<nChunks, hits, blooms, dels, last, faults, pc, addrs, staged, range, chunk, poss, kept>>
  BY <1>0, <1>a DEF BinType, LastType, PcType, SetType, ChunkType, Scan, Scanned, Done, Loop, index
<1>2. LET b == bin[Place(p, m)][m]
          k == chunk[p]
      IN /\ k \in Chunks /\ b \in Bins
         /\ bin'[Place(p, m)][m] \in [Chunks -> Nat]
         /\ \A c \in Chunks : c # k \/ k \notin hits[m] =>
              /\ Held(bin'[Place(p, m)][m], c) <=> Held(b, c)
              /\ Held(b, c) => bin'[Place(p, m)][m][c] = b[c]
         /\ k \in hits[m] => Held(bin'[Place(p, m)][m], k)
         /\ k \in hits[m] /\ ~ Held(b, k) => bin'[Place(p, m)][m][k] = 1
         /\ \A place \in {"prod", "stage"}, n \in Monitors :
              place # Place(p, m) \/ n # m => bin'[place][n] = bin[place][n]
  <2>1. Place(p, m) \in {"prod", "stage"} /\ chunk[p] \in Chunks
    BY <1>1 DEF Place, LoopInv
  <2>2. bin[Place(p, m)][m] \in Bins
    BY <1>a, <2>1 DEF BinType
  <2>3. bin'[Place(p, m)][m] = Scanned(bin[Place(p, m)][m], chunk[p], chunk[p] \in hits[m])
    BY <1>1, <1>a, <2>1 DEF BinType
  <2>4. \A place \in {"prod", "stage"}, n \in Monitors :
          place # Place(p, m) \/ n # m => bin'[place][n] = bin[place][n]
    BY <1>1, <1>a, <2>1 DEF BinType
  <2>5. (chunk[p] \in hits[m]) \in BOOLEAN
    OBVIOUS
  <2> DEFINE r == bin'[Place(p, m)][m]
             b == bin[Place(p, m)][m]
             k == chunk[p]
             hit == chunk[p] \in hits[m]
  <2>6. r = Scanned(b, k, hit) /\ b \in Bins /\ k \in Chunks /\ hit \in BOOLEAN
    BY <2>1, <2>2, <2>3, <2>5
  <2> HIDE DEF r, b, k, hit
  <2>7. /\ r \in [Chunks -> Nat]
        /\ \A c \in Chunks : c # k \/ ~ hit =>
             (Held(r, c) <=> Held(b, c)) /\ (b # NoBin => r[c] = b[c])
        /\ hit => Held(r, k)
        /\ hit /\ ~ Held(b, k) => r[k] = 1
    BY <2>6, ScannedFacts
  <2>8. \A c \in Chunks : Held(b, c) => b # NoBin
    BY DEF Held
  <2>9. QED
    BY <2>4, <2>6, <2>7, <2>8 DEF r, b, k, hit
<1>b. \A place \in {"prod", "stage"}, n \in Monitors : Covers(bin'[place][n], bin[place][n], n)
  <2>1. ASSUME NEW place \in {"prod", "stage"}, NEW n \in Monitors, NEW c \in Chunks,
               Held(bin[place][n], c)
        PROVE  Held(bin'[place][n], c)
    BY <1>2, <2>1
  <2>2. QED
    BY <2>1 DEF Covers
<1>3. TypeOK'
  <2>1. BinType'
    <3>1. Place(p, m) \in {"prod", "stage"} /\ bin'[Place(p, m)][m] \in Bins
      BY <1>2 DEF Place, Bins
    <3>2. bin' = [bin EXCEPT ![Place(p, m)][m] = bin'[Place(p, m)][m]]
      BY <1>1, <1>a, <3>1 DEF BinType
    <3>3. QED
      BY <1>a, <3>1, <3>2 DEF BinType
  <2>2. LastType'
    BY <1>0, <1>1, <1>a DEF LastType, Scan, Scanned, Done, Loop, index
  <2>3. PcType'
    BY <1>0, <1>1, <1>a DEF PcType, Scan, Scanned, Done, Loop, index
  <2>4. IndexType'
    BY <1>0, <1>1, <1>a DEF IndexType, Scan, Scanned, Done, Loop, index
  <2>5. SetType'
    BY <1>0, <1>1, <1>a DEF SetType, Scan, Scanned, Done, Loop, index
  <2>6. ChunkType'
    BY <1>0, <1>1, <1>a DEF ChunkType, Scan, Scanned, Done, Loop, index
  <2>7. QED
    BY <2>1, <2>2, <2>3, <2>4, <2>5, <2>6
       DEF TypeOK, BinType, LastType, PcType, IndexType, SetType, ChunkType
<1>4. LastForm'
  BY <1>0, <1>1, <1>2 DEF TypesAt, LastForm
<1>5. LoopInv(p)'
  BY <1>0, <1>1, <1>2 DEF TypesAt, LoopInv, Reading, Moving, Cleaning, Place
<1>6. SeenInv(p)'
  <2>1. \A n \in addrs[p] : Place(p, n)' = Place(p, n) /\ Place(p, n) \in {"prod", "stage"}
    BY <1>1 DEF Place
  <2>2. \A n \in addrs[p], c \in Chunks :
          PassedIn(bin[Place(p, n)][n], hits[n], n, c) => PassedIn(bin'[Place(p, n)][n], hits[n], n, c)
    BY <1>0, <1>b, <2>1, CoversFacts DEF TypesAt
  <2>3. \A n \in addrs[p], c \in Chunks :
          FoundIn(bin[Place(p, n)][n], hits[n], n, c) => FoundIn(bin'[Place(p, n)][n], hits[n], n, c)
    BY <1>0, <1>b, <2>1, CoversFacts DEF TypesAt
  <2>4. FoundIn(bin'[Place(p, m)][m], hits[m], m, chunk[p])
    BY <1>2 DEF FoundIn
  <2>5. ASSUME NEW n \in addrs[p], NEW c \in Chunks, Searched(p, n, c)'
        PROVE  PassedIn(bin'[Place(p, n)][n], hits[n], n, c)
    <3>1. CASE Searched(p, n, c)
      BY <1>0, <1>1, <2>2, <3>1 DEF SeenInv, Visiting
    <3>2. CASE ~ Searched(p, n, c)
      <4>1. n = m /\ c = chunk[p]
        BY <1>0, <1>1, <2>5, <3>2 DEF Searched
      <4>2. QED
        BY <2>4, <4>1 DEF PassedIn
    <3>3. QED
      BY <3>1, <3>2
  <2>6. ASSUME NEW n \in addrs[p], n \in poss[p], Searched(p, n, chunk[p])'
        PROVE  FoundIn(bin'[Place(p, n)][n], hits[n], n, chunk[p])
    <3>1. CASE Searched(p, n, chunk[p])
      BY <1>0, <1>1, <1>2, <2>3, <2>6, <3>1 DEF SeenInv, Visiting
    <3>2. CASE ~ Searched(p, n, chunk[p])
      <4>1. n = m
        BY <1>0, <1>1, <2>6, <3>2 DEF Searched
      <4>2. QED
        BY <2>4, <4>1
    <3>3. QED
      BY <3>1, <3>2
  <2>7. QED
    BY <1>0, <1>1, <2>1, <2>5, <2>6 DEF SeenInv
<1>7. StageInv(p)'
  BY <1>0, <1>1, <1>b, CoversFacts DEF TypesAt, StageInv, Visiting, Moving
<1>8. ProdInv(p)'
  BY <1>0, <1>1, <1>b, CoversFacts, ZenonT(60) DEF TypesAt, ProdInv
<1>9. KeptInv(p)'
  BY <1>0, <1>1, <1>2 DEF TypesAt, KeptInv, Cleaning, HeldAt
<1>10. OnlyHits'
  BY <1>0, <1>1, <1>2 DEF TypesAt, OnlyHits, HeldAt
<1>11. BehindInv(p)'
  BY <1>0, <1>1, <1>2 DEF TypesAt, BehindInv, Visiting
<1>12. FaultlessInv(p)'
  <2> SUFFICES ASSUME faults = 0 PROVE OnceInv(p)'
    BY <1>1 DEF FaultlessInv
  <2>1. OnceInv(p)
    BY DEF FaultlessInv
  <2>2. ~ Held(bin[Place(p, m)][m], chunk[p])
    <3>1. ~ Before(chunk[p], last["prod"][m]) /\ ~ Before(chunk[p], last["stage"][m])
      BY <1>0, <1>1, <1>2 DEF BehindInv, Visiting, LoopInv, TypesAt
    <3>2. QED
      BY <1>0, <1>1, <1>2, <2>1, <3>1 DEF OnceInv, OnceAt, InProgress, Visiting, Place, HeldAt
  <2>3. \A n \in Monitors, c \in Chunks : OnceAt(p, n, c)'
    <3> SUFFICES ASSUME NEW n \in Monitors, NEW c \in Chunks PROVE OnceAt(p, n, c)'
      OBVIOUS
    <3>1. CASE n # m
      BY <1>0, <1>1, <1>2, <2>1, <3>1, SMTT(40)
         DEF OnceInv, OnceAt, InProgress, Visiting, Moving, Cleaning, Place, HeldAt
    <3>2. CASE n = m /\ (c # chunk[p] \/ chunk[p] \notin hits[m])
      BY <1>0, <1>1, <1>2, <2>1, <3>2, SMTT(40)
         DEF OnceInv, OnceAt, InProgress, Visiting, Moving, Cleaning, Place, HeldAt
    <3>3. CASE n = m /\ c = chunk[p] /\ chunk[p] \in hits[m]
      BY <1>0, <1>1, <1>2, <2>1, <2>2, <3>3
         DEF OnceInv, OnceAt, InProgress, Visiting, Moving, Cleaning, Place, HeldAt, LoopInv
    <3>4. QED
      BY <3>1, <3>2, <3>3
  <2>4. QED
    BY <2>3 DEF OnceInv
<1>13. QED
  BY <1>3, <1>4, <1>5, <1>6, <1>7, <1>8, <1>9, <1>10, <1>11, <1>12

LEMMA WriteLastKeeps ==
  ASSUME NEW p, Alone(p), MonitorInv(p), FaultlessInv(p), NEW m \in Monitors, WriteLast(p, m)
  PROVE  MonitorInv(p)' /\ FaultlessInv(p)'
<1> USE DEF MonitorInv
<1>0. p \in Procs /\ TypesAt(p)
  BY TypesOfLocals DEF Alone
<1>a. BinType /\ LastType /\ PcType /\ IndexType /\ SetType /\ ChunkType
  BY TypeParts
<1>1. /\ pc[p] = "lasts" /\ m \in todo[p] /\ todo'[p] = todo[p] \ {m}
      /\ \A n \in Monitors : /\ last'["prod"][n] = IF n = m /\ m \notin staged[p] THEN Last(chunk[p]) + 1
                                                 ELSE last["prod"][n]
                            /\ last'["stage"][n] = IF n = m /\ m \in staged[p] THEN Last(chunk[p]) + 1
                                                  ELSE last["stage"][n]
      /\ UNCHANGED <<nChunks, hits, blooms, dels, bin, faults, pc, addrs, staged, range, chunk, poss, kept>>
  BY <1>0, <1>a DEF BinType, LastType, PcType, SetType, ChunkType, WriteLast, Done, Loop, index, Place
<1>2. /\ chunk[p] \in Chunks /\ Last(chunk[p]) + 1 \in NextBlocks /\ Last(chunk[p]) + 1 \in Nat
      /\ \A c \in Chunks : Before(c, Last(chunk[p]) + 1) <=> (c < chunk[p] \/ c = chunk[p])
      /\ last["prod"][m] <= Last(chunk[p]) + 1
      /\ \A c \in Chunks : Before(c, last["prod"][m]) => c < chunk[p]
  <2>1. chunk[p] \in Chunks /\ m \in Monitors /\ last["prod"][m] \in NextBlocks
    BY <1>1 DEF LoopInv, LastForm
  <2>2. Last(chunk[p]) + 1 \in NextBlocks /\ Last(chunk[p]) + 1 \in Nat
    BY <2>1, ChunkOrder DEF NextBlocks
  <2>3. \A c \in Chunks : c <= chunk[p] <=> (c < chunk[p] \/ c = chunk[p])
    BY <2>1 DEF Chunks
  <2>4. \A c \in Chunks : chunk[p] <= c \/ c < chunk[p]
    BY <2>1 DEF Chunks
  <2>5. ~ Before(chunk[p], last["prod"][m])
    BY <1>1 DEF BehindInv
  <2>6. \A c \in Chunks : Before(c, Last(chunk[p]) + 1) <=> (c < chunk[p] \/ c = chunk[p])
    BY <2>1, <2>3, BeforeFacts
  <2>7. last["prod"][m] <= Last(chunk[p]) + 1
    BY <2>1, <2>5, BeforeFacts
  <2>8. \A c \in Chunks : Before(c, last["prod"][m]) => c < chunk[p]
    BY <2>1, <2>4, <2>5, BeforeFacts
  <2>9. QED
    BY <2>1, <2>2, <2>6, <2>7, <2>8
<1>3. Fits(bin[Place(p, m)][m], hits[m], m, Last(chunk[p]) + 1)
  <2>1. m \in addrs[p] /\ m \in poss[p]
    BY <1>1 DEF LoopInv
  <2>2. \A c \in Chunks : c < chunk[p] \/ c = chunk[p] => Searched(p, m, c)
    BY <1>1 DEF Searched
  <2>3. \A c \in Chunks : c < chunk[p] \/ c = chunk[p] => PassedIn(bin[Place(p, m)][m], hits[m], m, c)
    BY <1>1, <2>1, <2>2 DEF SeenInv, Visiting
  <2>4. FoundIn(bin[Place(p, m)][m], hits[m], m, chunk[p])
    BY <1>1, <1>2, <2>1, <2>2 DEF SeenInv, Visiting
  <2>5. QED
    BY <1>2, <2>3, <2>4, FitsNext
<1>4. TypeOK'
  <2>1. BinType'
    BY <1>0, <1>1, <1>a DEF BinType, WriteLast, Done, Loop, index, Place
  <2>2. LastType'
    BY <1>0, <1>1, <1>a, NextBlockType, <1>2 DEF LastType, WriteLast, Done, Loop, index, Place
  <2>3. PcType'
    BY <1>0, <1>1, <1>a DEF PcType, WriteLast, Done, Loop, index, Place
  <2>4. IndexType'
    BY <1>0, <1>1, <1>a DEF IndexType, WriteLast, Done, Loop, index, Place
  <2>5. SetType'
    BY <1>0, <1>1, <1>a DEF SetType, WriteLast, Done, Loop, index, Place
  <2>6. ChunkType'
    BY <1>0, <1>1, <1>a DEF ChunkType, WriteLast, Done, Loop, index, Place
  <2>7. QED
    BY <2>1, <2>2, <2>3, <2>4, <2>5, <2>6
       DEF TypeOK, BinType, LastType, PcType, IndexType, SetType, ChunkType
<1>5. LastForm'
  BY <1>0, <1>1, <1>2, <1>3 DEF TypesAt, LastForm, NextBlocks
<1>6. LoopInv(p)'
  BY <1>0, <1>1, <1>2, <1>3 DEF TypesAt, LoopInv, Reading, Moving, Cleaning
<1>7. SeenInv(p)'
  <2>1. \A n, c : Searched(p, n, c)' <=> Searched(p, n, c)
    BY <1>1 DEF Searched
  <2>2. QED
    BY <1>0, <1>1, <2>1 DEF SeenInv, Visiting, Place
<1>8. StageInv(p)'
  BY <1>0, <1>1, <1>3 DEF StageInv, Visiting, Moving, Place
<1>9. ProdInv(p)'
  BY <1>0, <1>1, <1>3 DEF ProdInv, Place
<1>10. KeptInv(p)'
  BY <1>0, <1>1, <1>2, <1>3 DEF TypesAt, KeptInv, Cleaning, HeldAt
<1>11. OnlyHits'
  BY <1>0, <1>1, <1>2, <1>3 DEF TypesAt, OnlyHits, HeldAt
<1>12. BehindInv(p)'
  BY <1>0, <1>1, <1>2, <1>3 DEF TypesAt, BehindInv, Visiting
<1>13. FaultlessInv(p)'
  <2> SUFFICES ASSUME faults = 0 PROVE OnceInv(p)'
    BY <1>1 DEF FaultlessInv
  <2>1. OnceInv(p) /\ m \in poss[p]
    BY <1>1 DEF FaultlessInv, LoopInv
  <2>2. \A n \in Monitors, c \in Chunks : OnceAt(p, n, c)'
    <3> SUFFICES ASSUME NEW n \in Monitors, NEW c \in Chunks PROVE OnceAt(p, n, c)'
      OBVIOUS
    <3>1. CASE n # m
      BY <1>0, <1>1, <2>1, <3>1
         DEF OnceInv, OnceAt, InProgress, Visiting, Moving, Cleaning, Place, HeldAt
    <3>2. CASE n = m /\ m \in staged[p]
      <4>1. Before(c, last["stage"][m]) => c < chunk[p] \/ c = chunk[p]
        BY <1>1 DEF BehindInv, Visiting
      <4>2. ~ HeldAt("prod", m, c)
        BY <1>1, <3>2, BinFacts DEF LoopInv, Reading, HeldAt
      <4>3. QED
        BY <1>0, <1>1, <1>2, <2>1, <3>2, <4>1, <4>2
           DEF OnceInv, OnceAt, InProgress, Visiting, Moving, Cleaning, Place, HeldAt
    <3>3. CASE n = m /\ m \notin staged[p]
      BY <1>0, <1>1, <1>2, <2>1, <3>3
         DEF OnceInv, OnceAt, InProgress, Visiting, Moving, Cleaning, Place, HeldAt
    <3>4. QED
      BY <3>1, <3>2, <3>3
  <2>3. QED
    BY <2>2 DEF OnceInv
<1>14. QED
  BY <1>4, <1>5, <1>6, <1>7, <1>8, <1>9, <1>10, <1>11, <1>12, <1>13

LEMMA MoveBinKeeps ==
  ASSUME NEW p, Alone(p), MonitorInv(p), FaultlessInv(p), NEW m \in Monitors, MoveBin(p, m)
  PROVE  MonitorInv(p)' /\ FaultlessInv(p)'
<1> USE DEF MonitorInv
<1>0. p \in Procs /\ TypesAt(p)
  BY TypesOfLocals DEF Alone
<1>a. BinType /\ LastType /\ PcType /\ IndexType /\ SetType /\ ChunkType
  BY TypeParts
<1>1. /\ pc[p] = "move" /\ pc'[p] = "moveLast" /\ m \in todo[p] /\ poss'[p] = {m} /\ bin["prod"][m] = NoBin
      /\ \A n \in Monitors : /\ bin'["prod"][n] = IF n = m THEN bin["stage"][m] ELSE bin["prod"][n]
                            /\ bin'["stage"][n] = IF n = m THEN NoBin ELSE bin["stage"][n]
      /\ UNCHANGED <<nChunks, hits, blooms, dels, last, faults, addrs, staged, range, chunk, todo, kept>>
  BY <1>0, <1>a DEF BinType, LastType, PcType, SetType, ChunkType, MoveBin, Goto, index, LoopInv, Moving
<1>2. TypeOK'
  <2>1. BinType'
    BY <1>0, <1>1, <1>a, ZenonT(60) DEF BinType, MoveBin, Goto, index, LoopInv, Moving, TypesAt, Bins
  <2>2. LastType'
    BY <1>0, <1>1, <1>a DEF LastType, MoveBin, Goto, index, LoopInv, Moving
  <2>3. PcType'
    BY <1>0, <1>1, <1>a DEF PcType, MoveBin, Goto, index, LoopInv, Moving
  <2>4. IndexType'
    BY <1>0, <1>1, <1>a DEF IndexType, MoveBin, Goto, index, LoopInv, Moving
  <2>5. SetType'
    BY <1>0, <1>1, <1>a DEF SetType, MoveBin, Goto, index, LoopInv, Moving
  <2>6. ChunkType'
    BY <1>0, <1>1, <1>a DEF ChunkType, MoveBin, Goto, index, LoopInv, Moving
  <2>7. QED
    BY <2>1, <2>2, <2>3, <2>4, <2>5, <2>6
       DEF TypeOK, BinType, LastType, PcType, IndexType, SetType, ChunkType
<1>3. LastForm'
  BY <1>0, <1>1 DEF TypesAt, LastForm
<1>4. LoopInv(p)'
  BY <1>0, <1>1 DEF TypesAt, LoopInv, Reading, Moving, Cleaning
<1>5. SeenInv(p)'
  BY <1>0, <1>1 DEF TypesAt, SeenInv, Searched, Visiting, Place, HeldAt
<1>6. StageInv(p)'
  BY <1>0, <1>1 DEF StageInv, Moving
<1>7. ProdInv(p)'
  <2>1. Covers(bin["stage"][m], NoBin, m) /\ hits[m] \in SUBSET Chunks
    BY <1>0, BinFacts DEF Covers, TypesAt
  <2>2. Fits(NoBin, hits[m], m, last["prod"][m])
    BY <1>1 DEF ProdInv
  <2>3. Fits(bin["stage"][m], hits[m], m, last["prod"][m])
    BY <2>1, <2>2, CoversFacts
  <2>4. QED
    BY <1>0, <1>1, <2>3 DEF ProdInv
<1>8. KeptInv(p)'
  BY <1>0, <1>1 DEF TypesAt, KeptInv, Cleaning, HeldAt
<1>9. OnlyHits'
  BY <1>0, <1>1, BinFacts DEF TypesAt, OnlyHits, HeldAt
<1>10. BehindInv(p)'
  BY <1>0, <1>1 DEF TypesAt, BehindInv, Visiting
<1>11. FaultlessInv(p)'
  BY <1>0, <1>1, BinFacts DEF TypesAt, FaultlessInv, OnceInv, OnceAt, InProgress, Visiting, Moving, Cleaning, Place, HeldAt
<1>12. QED
  BY <1>2, <1>3, <1>4, <1>5, <1>6, <1>7, <1>8, <1>9, <1>10, <1>11

LEMMA MoveLastKeeps ==
  ASSUME NEW p, Alone(p), MonitorInv(p), FaultlessInv(p), NEW m \in Monitors, MoveLast(p, m)
  PROVE  MonitorInv(p)' /\ FaultlessInv(p)'
<1> USE DEF MonitorInv
<1>0. p \in Procs /\ TypesAt(p)
  BY TypesOfLocals DEF Alone
<1>a. BinType /\ LastType /\ PcType /\ IndexType /\ SetType /\ ChunkType
  BY TypeParts
<1>1. /\ pc[p] = "moveLast" /\ pc'[p] = "move" /\ poss[p] = {m} /\ todo'[p] = todo[p] \ {m}
      /\ \A n \in Monitors : /\ n # m => last'["prod"][n] = last["prod"][n] /\ last'["stage"][n] = last["stage"][n]
                            /\ last'["stage"][m] = 0
                            /\ last'["prod"][m] = IF last["stage"][m] = 0 THEN last["prod"][m] ELSE last["stage"][m]
      /\ UNCHANGED <<nChunks, hits, blooms, dels, bin, faults, addrs, staged, range, chunk, poss, kept>>
  BY <1>0, <1>a DEF BinType, LastType, PcType, SetType, ChunkType, MoveLast, Done, Loop, Goto, index
<1>2. \A c \in Chunks : ~ Before(c, 0) /\ ~ HeldAt("stage", m, c)
  BY <1>1, BeforeFacts, BinFacts DEF NextBlocks, LoopInv, HeldAt
<1>3. TypeOK'
  <2>1. BinType'
    BY <1>0, <1>1, <1>a DEF BinType, MoveLast, Done, Loop, Goto, index
  <2>2. LastType'
    BY <1>0, <1>1, <1>a, ChunkOrder, MonitorConstants DEF LastType, MoveLast, Done, Loop, Goto, index, Chunks
  <2>3. PcType'
    BY <1>0, <1>1, <1>a DEF PcType, MoveLast, Done, Loop, Goto, index
  <2>4. IndexType'
    BY <1>0, <1>1, <1>a DEF IndexType, MoveLast, Done, Loop, Goto, index
  <2>5. SetType'
    BY <1>0, <1>1, <1>a DEF SetType, MoveLast, Done, Loop, Goto, index
  <2>6. ChunkType'
    BY <1>0, <1>1, <1>a DEF ChunkType, MoveLast, Done, Loop, Goto, index
  <2>7. QED
    BY <2>1, <2>2, <2>3, <2>4, <2>5, <2>6
       DEF TypeOK, BinType, LastType, PcType, IndexType, SetType, ChunkType
<1>4. LastForm'
  BY <1>0, <1>1, <1>2 DEF TypesAt, LastForm, NextBlocks
<1>5. LoopInv(p)'
  BY <1>0, <1>1, <1>2 DEF TypesAt, LoopInv, Reading, Moving, Cleaning
<1>6. SeenInv(p)'
  BY <1>0, <1>1, <1>2 DEF TypesAt, SeenInv, Searched, Visiting, Place, HeldAt
<1>7. StageInv(p)'
  BY <1>0, <1>1, FitsMissing DEF StageInv, Visiting, Moving
<1>8. ProdInv(p)'
  BY <1>0, <1>1 DEF ProdInv, StageInv, Moving
<1>9. KeptInv(p)'
  BY <1>0, <1>1, <1>2 DEF TypesAt, KeptInv, Cleaning, HeldAt
<1>10. OnlyHits'
  BY <1>0, <1>1, <1>2 DEF TypesAt, OnlyHits, HeldAt
<1>11. BehindInv(p)'
  BY <1>0, <1>1, <1>2 DEF TypesAt, BehindInv, Visiting
<1>12. FaultlessInv(p)'
  BY <1>0, <1>1, <1>2 DEF TypesAt, FaultlessInv, OnceInv, OnceAt, InProgress, Visiting, Moving, Cleaning, Place, HeldAt
<1>13. QED
  BY <1>3, <1>4, <1>5, <1>6, <1>7, <1>8, <1>9, <1>10, <1>11, <1>12

LEMMA FreshenedKeeps ==
  ASSUME NEW p, Alone(p), MonitorInv(p), FaultlessInv(p), Freshened(p)
  PROVE  MonitorInv(p)' /\ FaultlessInv(p)'
<1> USE DEF MonitorInv
<1>0. p \in Procs /\ TypesAt(p)
  BY TypesOfLocals DEF Alone
<1>a. BinType /\ LastType /\ PcType /\ IndexType /\ SetType /\ ChunkType
  BY TypeParts
<1>1. /\ pc[p] = "move"
      /\ pc'[p] = "none" /\ todo'[p] = {} /\ staged'[p] = {} /\ poss'[p] = {}
      /\ UNCHANGED <<nChunks, hits, blooms, dels, bin, last, faults>>
  BY <1>0, <1>a DEF BinType, LastType, PcType, SetType, ChunkType, Freshened, Ends, Goto, index, disk
<1>2. TypeOK'
  <2>1. BinType'
    BY <1>0, <1>1, <1>a DEF BinType, Freshened, Ends, Goto, index, disk
  <2>2. LastType'
    BY <1>0, <1>1, <1>a DEF LastType, Freshened, Ends, Goto, index, disk
  <2>3. PcType'
    BY <1>0, <1>1, <1>a DEF PcType, Freshened, Ends, Goto, index, disk
  <2>4. IndexType'
    BY <1>0, <1>1, <1>a DEF IndexType, Freshened, Ends, Goto, index, disk
  <2>5. SetType'
    BY <1>0, <1>1, <1>a DEF SetType, Freshened, Ends, Goto, index, disk, Bins
  <2>6. ChunkType'
    BY <1>0, <1>1, <1>a, MonitorConstants, ChunkOrder DEF ChunkType, Freshened, Ends, Goto, index, disk, Chunks
  <2>7. QED
    BY <2>1, <2>2, <2>3, <2>4, <2>5, <2>6
       DEF TypeOK, BinType, LastType, PcType, IndexType, SetType, ChunkType
<1>3. LastForm'
  BY <1>0, <1>1 DEF TypesAt, LastForm
<1>4. LoopInv(p)'
  BY <1>0, <1>1 DEF TypesAt, LoopInv, Reading, Moving, Cleaning
<1>5. SeenInv(p)'
  BY <1>0, <1>1 DEF TypesAt, SeenInv, Searched, Visiting, Place, HeldAt
<1>6. StageInv(p)'
  BY <1>0, <1>1 DEF TypesAt, StageInv, Visiting, Moving, HeldAt
<1>7. ProdInv(p)'
  BY <1>0, <1>1 DEF TypesAt, ProdInv, HeldAt
<1>8. KeptInv(p)'
  BY <1>0, <1>1 DEF TypesAt, KeptInv, Cleaning, HeldAt
<1>9. OnlyHits'
  BY <1>0, <1>1 DEF TypesAt, OnlyHits, HeldAt
<1>10. BehindInv(p)'
  BY <1>0, <1>1 DEF TypesAt, BehindInv, Visiting
<1>11. FaultlessInv(p)'
  BY <1>0, <1>1 DEF TypesAt, FaultlessInv, OnceInv, OnceAt, InProgress, Visiting, Moving, Cleaning, Place, HeldAt
<1>12. QED
  BY <1>2, <1>3, <1>4, <1>5, <1>6, <1>7, <1>8, <1>9, <1>10, <1>11

LEMMA KillKeeps ==
  ASSUME NEW p, Alone(p), MonitorInv(p), FaultlessInv(p), Kill(p)
  PROVE  MonitorInv(p)' /\ FaultlessInv(p)'
<1> USE DEF MonitorInv
<1>0. p \in Procs /\ TypesAt(p)
  BY TypesOfLocals DEF Alone
<1>a. BinType /\ LastType /\ PcType /\ IndexType /\ SetType /\ ChunkType
  BY TypeParts
<1>1. /\ faults' = faults + 1 /\ faults < MaxFaults /\ pc[p] \notin {"cleanOpen", "cleanWrite", "rmLast", "rmDels"}
      /\ pc'[p] = "none" /\ todo'[p] = {} /\ staged'[p] = {} /\ poss'[p] = {}
      /\ UNCHANGED <<nChunks, hits, blooms, dels, bin, last>>
  BY <1>0, <1>a DEF BinType, LastType, PcType, SetType, ChunkType, Kill, KillKind, Fault, Ends, Goto, index, disk, Alone
<1>2. TypeOK'
  <2>1. BinType'
    BY <1>0, <1>1, <1>a DEF BinType, Kill, KillKind, Fault, Ends, Goto, index, disk, Alone
  <2>2. LastType'
    BY <1>0, <1>1, <1>a DEF LastType, Kill, KillKind, Fault, Ends, Goto, index, disk, Alone
  <2>3. PcType'
    BY <1>0, <1>1, <1>a DEF PcType, Kill, KillKind, Fault, Ends, Goto, index, disk, Alone
  <2>4. IndexType'
    BY <1>0, <1>1, <1>a, MonitorConstants DEF IndexType, Kill, KillKind, Fault, Ends, Goto, index, disk, Alone
  <2>5. SetType'
    BY <1>0, <1>1, <1>a DEF SetType, Kill, KillKind, Fault, Ends, Goto, index, disk, Alone, Bins
  <2>6. ChunkType'
    BY <1>0, <1>1, <1>a, MonitorConstants, ChunkOrder DEF ChunkType, Kill, KillKind, Fault, Ends, Goto, index, disk, Alone, Chunks
  <2>7. QED
    BY <2>1, <2>2, <2>3, <2>4, <2>5, <2>6
       DEF TypeOK, BinType, LastType, PcType, IndexType, SetType, ChunkType
<1>3. LastForm'
  BY <1>0, <1>1 DEF TypesAt, LastForm
<1>4. LoopInv(p)'
  BY <1>0, <1>1 DEF TypesAt, LoopInv, Reading, Moving, Cleaning
<1>5. SeenInv(p)'
  BY <1>0, <1>1 DEF TypesAt, SeenInv, Searched, Visiting, Place, HeldAt
<1>6. StageInv(p)'
  BY <1>0, <1>1 DEF TypesAt, StageInv, Visiting, Moving, HeldAt
<1>7. ProdInv(p)'
  BY <1>0, <1>1 DEF TypesAt, ProdInv, HeldAt
<1>8. KeptInv(p)'
  BY <1>0, <1>1 DEF TypesAt, KeptInv, Cleaning, HeldAt
<1>9. OnlyHits'
  BY <1>0, <1>1 DEF TypesAt, OnlyHits, HeldAt
<1>10. BehindInv(p)'
  BY <1>0, <1>1 DEF TypesAt, BehindInv, Visiting
<1>11. FaultlessInv(p)'
  BY <1>0, <1>1, <1>a DEF TypesAt, FaultlessInv, OnceInv, OnceAt, InProgress, Visiting, Moving, Cleaning, Place, HeldAt, IndexType
<1>12. QED
  BY <1>2, <1>3, <1>4, <1>5, <1>6, <1>7, <1>8, <1>9, <1>10, <1>11

LEMMA CleanReadKeeps ==
  ASSUME NEW p, Alone(p), MonitorInv(p), FaultlessInv(p), NEW m \in Monitors, CleanRead(p, m)
  PROVE  MonitorInv(p)' /\ FaultlessInv(p)'
<1> USE DEF MonitorInv
<1>0. p \in Procs /\ TypesAt(p)
  BY TypesOfLocals DEF Alone
<1>a. BinType /\ LastType /\ PcType /\ IndexType /\ SetType /\ ChunkType
  BY TypeParts
<1>1. /\ pc[p] = "none" /\ pc'[p] = "cleanOpen" /\ todo'[p] = {m} /\ kept'[p] = Deduped(m) /\ bin["prod"][m] # NoBin
      /\ UNCHANGED <<nChunks, hits, blooms, dels, bin, last, faults, addrs, staged, range, chunk, poss>>
  BY <1>0, <1>a DEF BinType, LastType, PcType, SetType, ChunkType, CleanRead, Loop, Goto, index, disk
<1>2. /\ kept'[p] \in [Chunks -> {0, 1}] /\ kept'[p] \in Bins
      /\ \A c \in Chunks : kept'[p][c] = 1 => HeldAt("prod", m, c)
      /\ Covers(kept'[p], bin["prod"][m], m)
  <2>1. bin["prod"][m] \in [Chunks -> Nat]
    BY <1>0, <1>1 DEF TypesAt, Bins
  <2>2. Deduped(m) = [c \in Chunks |-> IF bin["prod"][m][c] = 0 \/ (c = 1 /\ m \in Prefund) THEN 0 ELSE 1]
    BY DEF Deduped
  <2>3. Deduped(m) \in [Chunks -> {0, 1}] /\ Deduped(m) \in [Chunks -> Nat]
    BY <2>2
  <2>4. \A c \in Chunks : /\ Deduped(m)[c] = 1 => bin["prod"][m][c] > 0
                          /\ bin["prod"][m][c] > 0 => Deduped(m)[c] = 1 \/ (c = 1 /\ m \in Prefund)
    BY <2>1, <2>2
  <2>5. "clean" \in Commands /\ Deduped(m) # NoBin
    BY <2>3, BinFacts DEF CleanRead
  <2>6. Covers(Deduped(m), bin["prod"][m], m)
    BY <2>3, <2>4, <2>5 DEF Covers, Dropped, Held
  <2>7. QED
    BY <1>1, <2>3, <2>4, <2>6 DEF Bins, HeldAt, Held
<1>3. TypeOK'
  <2>1. BinType'
    BY <1>0, <1>1, <1>a DEF BinType, CleanRead, Loop, Goto, index, disk
  <2>2. LastType'
    BY <1>0, <1>1, <1>a DEF LastType, CleanRead, Loop, Goto, index, disk
  <2>3. PcType'
    BY <1>0, <1>1, <1>a DEF PcType, CleanRead, Loop, Goto, index, disk
  <2>4. IndexType'
    BY <1>0, <1>1, <1>a DEF IndexType, CleanRead, Loop, Goto, index, disk
  <2>5. SetType'
    <3>1. kept' = [kept EXCEPT ![p] = kept'[p]] /\ kept'[p] \in Bins
      BY <1>0, <1>1, <1>2, <1>a DEF SetType, CleanRead
    <3>2. QED
      BY <1>0, <1>1, <1>a, <3>1 DEF SetType, CleanRead, Loop
  <2>6. ChunkType'
    BY <1>0, <1>1, <1>a DEF ChunkType, CleanRead, Loop, Goto, index, disk
  <2>7. QED
    BY <2>1, <2>2, <2>3, <2>4, <2>5, <2>6
       DEF TypeOK, BinType, LastType, PcType, IndexType, SetType, ChunkType
<1>4. LastForm'
  BY <1>0, <1>1, <1>2 DEF TypesAt, LastForm
<1>5. LoopInv(p)'
  BY <1>0, <1>1, <1>2 DEF TypesAt, LoopInv, Reading, Moving, Cleaning
<1>6. SeenInv(p)'
  BY <1>0, <1>1, <1>2 DEF TypesAt, SeenInv, Searched, Visiting, Place, HeldAt
<1>7. StageInv(p)'
  BY <1>0, <1>1, <1>2 DEF TypesAt, StageInv, Visiting, Moving, HeldAt
<1>8. ProdInv(p)'
  BY <1>0, <1>1, <1>2 DEF TypesAt, ProdInv, HeldAt
<1>9. KeptInv(p)'
  BY <1>0, <1>1, <1>2 DEF TypesAt, KeptInv, Cleaning, HeldAt, OnlyHits
<1>10. OnlyHits'
  BY <1>0, <1>1, <1>2 DEF TypesAt, OnlyHits, HeldAt
<1>11. BehindInv(p)'
  BY <1>0, <1>1, <1>2 DEF TypesAt, BehindInv, Visiting
<1>12. FaultlessInv(p)'
  BY <1>0, <1>1, <1>2 DEF TypesAt, FaultlessInv, OnceInv, OnceAt, InProgress, Visiting, Moving, Cleaning, Place, HeldAt, ProdInv
<1>13. QED
  BY <1>3, <1>4, <1>5, <1>6, <1>7, <1>8, <1>9, <1>10, <1>11, <1>12

LEMMA CleanOpenKeeps ==
  ASSUME NEW p, Alone(p), MonitorInv(p), FaultlessInv(p), NEW m \in Monitors, CleanOpen(p, m)
  PROVE  MonitorInv(p)' /\ FaultlessInv(p)'
<1> USE DEF MonitorInv
<1>0. p \in Procs /\ TypesAt(p)
  BY TypesOfLocals DEF Alone
<1>a. BinType /\ LastType /\ PcType /\ IndexType /\ SetType /\ ChunkType
  BY TypeParts
<1>1. /\ pc[p] = "cleanOpen" /\ pc'[p] = "cleanWrite" /\ m \in todo[p]
      /\ \A n \in Monitors : /\ bin'["prod"][n] = IF n = m THEN EmptyBin ELSE bin["prod"][n]
                            /\ bin'["stage"][n] = bin["stage"][n]
      /\ UNCHANGED <<nChunks, hits, blooms, dels, last, faults, addrs, staged, range, chunk, poss, todo, kept>>
  BY <1>0, <1>a DEF BinType, LastType, PcType, SetType, ChunkType, CleanOpen, Goto, index, locals
<1>2. TypeOK'
  <2>1. BinType'
    BY <1>0, <1>1, <1>a, BinFacts DEF BinType, CleanOpen, Goto, index, locals, Bins
  <2>2. LastType'
    BY <1>0, <1>1, <1>a DEF LastType, CleanOpen, Goto, index, locals
  <2>3. PcType'
    BY <1>0, <1>1, <1>a DEF PcType, CleanOpen, Goto, index, locals
  <2>4. IndexType'
    BY <1>0, <1>1, <1>a DEF IndexType, CleanOpen, Goto, index, locals
  <2>5. SetType'
    BY <1>0, <1>1, <1>a DEF SetType, CleanOpen, Goto, index, locals
  <2>6. ChunkType'
    BY <1>0, <1>1, <1>a DEF ChunkType, CleanOpen, Goto, index, locals
  <2>7. QED
    BY <2>1, <2>2, <2>3, <2>4, <2>5, <2>6
       DEF TypeOK, BinType, LastType, PcType, IndexType, SetType, ChunkType
<1>3. LastForm'
  BY <1>0, <1>1 DEF TypesAt, LastForm
<1>4. LoopInv(p)'
  BY <1>0, <1>1 DEF TypesAt, LoopInv, Reading, Moving, Cleaning
<1>5. SeenInv(p)'
  BY <1>0, <1>1 DEF TypesAt, SeenInv, Searched, Visiting, Place, HeldAt
<1>6. StageInv(p)'
  BY <1>0, <1>1 DEF TypesAt, StageInv, Visiting, Moving, HeldAt
<1>7. ProdInv(p)'
  BY <1>0, <1>1 DEF TypesAt, ProdInv, HeldAt
<1>8. KeptInv(p)'
  <2>1. \A n \in todo[p] : n = m
    BY <1>1 DEF LoopInv, Cleaning
  <2>2. Fits(bin["prod"][m], hits[m], m, last["prod"][m]) /\ hits[m] \in SUBSET Chunks
    BY <1>0, <1>1 DEF ProdInv, TypesAt
  <2>3. Covers(kept[p], bin["prod"][m], m)
    BY <1>1 DEF KeptInv, Cleaning
  <2>4. Fits(kept[p], hits[m], m, last["prod"][m])
    BY <2>2, <2>3, CoversFacts
  <2>5. QED
    BY <1>1, <2>1, <2>4 DEF KeptInv, Cleaning
<1>9. OnlyHits'
  BY <1>0, <1>1, BinFacts, ZenonT(60) DEF TypesAt, OnlyHits, HeldAt
<1>10. BehindInv(p)'
  BY <1>0, <1>1 DEF TypesAt, BehindInv, Visiting
<1>11. FaultlessInv(p)'
  BY <1>0, <1>1, BinFacts DEF TypesAt, FaultlessInv, OnceInv, OnceAt, InProgress, Visiting, Moving, Cleaning, Place, HeldAt
<1>12. QED
  BY <1>2, <1>3, <1>4, <1>5, <1>6, <1>7, <1>8, <1>9, <1>10, <1>11

LEMMA CleanWriteKeeps ==
  ASSUME NEW p, Alone(p), MonitorInv(p), FaultlessInv(p), NEW m \in Monitors, CleanWrite(p, m)
  PROVE  MonitorInv(p)' /\ FaultlessInv(p)'
<1> USE DEF MonitorInv
<1>0. p \in Procs /\ TypesAt(p)
  BY TypesOfLocals DEF Alone
<1>a. BinType /\ LastType /\ PcType /\ IndexType /\ SetType /\ ChunkType
  BY TypeParts
<1>1. /\ pc[p] = "cleanWrite" /\ m \in todo[p]
      /\ pc'[p] = "none" /\ todo'[p] = {} /\ staged'[p] = {} /\ poss'[p] = {}
      /\ \A n \in Monitors : /\ bin'["prod"][n] = IF n = m THEN kept[p] ELSE bin["prod"][n]
                            /\ bin'["stage"][n] = bin["stage"][n]
      /\ UNCHANGED <<nChunks, hits, blooms, dels, last, faults>>
  BY <1>0, <1>a DEF BinType, LastType, PcType, SetType, ChunkType, CleanWrite, Ends, Goto, index
<1>2. /\ kept[p] \in [Chunks -> Nat] /\ kept[p] # NoBin
      /\ \A c \in Chunks : /\ Held(kept[p], c) <=> kept[p][c] = 1
                           /\ kept[p][c] = 1 => c \in hits[m]
      /\ Fits(kept[p], hits[m], m, last["prod"][m])
  <2>1. kept[p] \in [Chunks -> {0, 1}]
    BY <1>1 DEF KeptInv, Cleaning
  <2>2. kept[p] \in [Chunks -> Nat] /\ kept[p] # NoBin
    BY <2>1, BinFacts
  <2>3. \A c \in Chunks : Held(kept[p], c) <=> kept[p][c] = 1
    BY <2>1, <2>2 DEF Held
  <2>4. QED
    BY <1>1, <2>2, <2>3 DEF KeptInv, Cleaning
<1>3. TypeOK'
  <2>1. BinType'
    BY <1>0, <1>1, <1>a, <1>2 DEF BinType, CleanWrite, Ends, Goto, index, Bins
  <2>2. LastType'
    BY <1>0, <1>1, <1>a DEF LastType, CleanWrite, Ends, Goto, index
  <2>3. PcType'
    BY <1>0, <1>1, <1>a DEF PcType, CleanWrite, Ends, Goto, index
  <2>4. IndexType'
    BY <1>0, <1>1, <1>a DEF IndexType, CleanWrite, Ends, Goto, index
  <2>5. SetType'
    BY <1>0, <1>1, <1>a DEF SetType, CleanWrite, Ends, Goto, index, Bins
  <2>6. ChunkType'
    BY <1>0, <1>1, <1>a, MonitorConstants, ChunkOrder DEF ChunkType, CleanWrite, Ends, Goto, index, Chunks
  <2>7. QED
    BY <2>1, <2>2, <2>3, <2>4, <2>5, <2>6
       DEF TypeOK, BinType, LastType, PcType, IndexType, SetType, ChunkType
<1>4. LastForm'
  BY <1>0, <1>1, <1>2 DEF TypesAt, LastForm
<1>5. LoopInv(p)'
  BY <1>0, <1>1, <1>2 DEF TypesAt, LoopInv, Reading, Moving, Cleaning
<1>6. SeenInv(p)'
  BY <1>0, <1>1, <1>2 DEF TypesAt, SeenInv, Searched, Visiting, Place, HeldAt
<1>7. StageInv(p)'
  BY <1>0, <1>1, <1>2 DEF TypesAt, StageInv, Visiting, Moving, HeldAt
<1>8. ProdInv(p)'
  BY <1>0, <1>1, <1>2 DEF TypesAt, ProdInv, HeldAt, LoopInv, Cleaning
<1>9. KeptInv(p)'
  BY <1>0, <1>1, <1>2 DEF TypesAt, KeptInv, Cleaning, HeldAt
<1>10. OnlyHits'
  BY <1>0, <1>1, <1>2 DEF TypesAt, OnlyHits, HeldAt
<1>11. BehindInv(p)'
  BY <1>0, <1>1, <1>2 DEF TypesAt, BehindInv, Visiting
<1>12. FaultlessInv(p)'
  BY <1>0, <1>1, <1>2 DEF TypesAt, FaultlessInv, OnceInv, OnceAt, InProgress, Visiting, Moving, Cleaning, Place, HeldAt
<1>13. QED
  BY <1>3, <1>4, <1>5, <1>6, <1>7, <1>8, <1>9, <1>10, <1>11, <1>12

LEMMA DeleteOrUndeleteKeeps ==
  ASSUME NEW p, Alone(p), MonitorInv(p), FaultlessInv(p), NEW m \in Monitors, Delete(p, m) \/ Undelete(p, m)
  PROVE  MonitorInv(p)' /\ FaultlessInv(p)'
<1> USE DEF MonitorInv
<1>0. p \in Procs /\ TypesAt(p)
  BY TypesOfLocals DEF Alone
<1>a. BinType /\ LastType /\ PcType /\ IndexType /\ SetType /\ ChunkType
  BY TypeParts
<1>1. /\ dels' \subseteq Monitors
      /\ UNCHANGED <<nChunks, hits, blooms, bin, last, faults, pc, addrs, staged, range, chunk, poss, todo, kept>>
  BY <1>0, <1>a DEF BinType, LastType, PcType, SetType, ChunkType, IndexType, Delete, Undelete, index, locals
<1>2. TypeOK'
  <2>1. BinType'
    BY <1>0, <1>1, <1>a DEF BinType, IndexType, Delete, Undelete, index, locals
  <2>2. LastType'
    BY <1>0, <1>1, <1>a DEF LastType, IndexType, Delete, Undelete, index, locals
  <2>3. PcType'
    BY <1>0, <1>1, <1>a DEF PcType, IndexType, Delete, Undelete, index, locals
  <2>4. IndexType'
    BY <1>0, <1>1, <1>a DEF IndexType, IndexType, Delete, Undelete, index, locals
  <2>5. SetType'
    BY <1>0, <1>1, <1>a DEF SetType, IndexType, Delete, Undelete, index, locals
  <2>6. ChunkType'
    BY <1>0, <1>1, <1>a DEF ChunkType, IndexType, Delete, Undelete, index, locals
  <2>7. QED
    BY <2>1, <2>2, <2>3, <2>4, <2>5, <2>6
       DEF TypeOK, BinType, LastType, PcType, IndexType, SetType, ChunkType
<1>3. LastForm'
  BY <1>0, <1>1 DEF TypesAt, LastForm
<1>4. LoopInv(p)'
  BY <1>0, <1>1 DEF TypesAt, LoopInv, Reading, Moving, Cleaning
<1>5. SeenInv(p)'
  BY <1>0, <1>1 DEF TypesAt, SeenInv, Searched, Visiting, Place, HeldAt
<1>6. StageInv(p)'
  BY <1>0, <1>1 DEF TypesAt, StageInv, Visiting, Moving, HeldAt
<1>7. ProdInv(p)'
  BY <1>0, <1>1 DEF TypesAt, ProdInv, HeldAt
<1>8. KeptInv(p)'
  BY <1>0, <1>1 DEF TypesAt, KeptInv, Cleaning, HeldAt
<1>9. OnlyHits'
  BY <1>0, <1>1 DEF TypesAt, OnlyHits, HeldAt
<1>10. BehindInv(p)'
  BY <1>0, <1>1 DEF TypesAt, BehindInv, Visiting
<1>11. FaultlessInv(p)'
  BY <1>0, <1>1 DEF TypesAt, FaultlessInv, OnceInv, OnceAt, InProgress, Visiting, Moving, Cleaning, Place, HeldAt
<1>12. QED
  BY <1>2, <1>3, <1>4, <1>5, <1>6, <1>7, <1>8, <1>9, <1>10, <1>11

LEMMA RemoveKeeps ==
  ASSUME NEW p, Alone(p), MonitorInv(p), FaultlessInv(p), NEW m \in Monitors, Remove(p, m)
  PROVE  MonitorInv(p)' /\ FaultlessInv(p)'
<1> USE DEF MonitorInv
<1>0. p \in Procs /\ TypesAt(p)
  BY TypesOfLocals DEF Alone
<1>a. BinType /\ LastType /\ PcType /\ IndexType /\ SetType /\ ChunkType
  BY TypeParts
<1>1. /\ pc[p] = "none" /\ pc'[p] = "rmLast" /\ todo'[p] = {m}
      /\ \A n \in Monitors : /\ bin'["prod"][n] = IF n = m THEN NoBin ELSE bin["prod"][n]
                            /\ bin'["stage"][n] = bin["stage"][n]
      /\ UNCHANGED <<nChunks, hits, blooms, dels, last, faults, addrs, staged, range, chunk, poss, kept>>
  BY <1>0, <1>a DEF BinType, LastType, PcType, SetType, ChunkType, Remove, Loop, Goto, index
<1>2. TypeOK'
  <2>1. BinType'
    BY <1>0, <1>1, <1>a DEF BinType, Remove, Loop, Goto, index, Bins
  <2>2. LastType'
    BY <1>0, <1>1, <1>a DEF LastType, Remove, Loop, Goto, index
  <2>3. PcType'
    BY <1>0, <1>1, <1>a DEF PcType, Remove, Loop, Goto, index
  <2>4. IndexType'
    BY <1>0, <1>1, <1>a DEF IndexType, Remove, Loop, Goto, index
  <2>5. SetType'
    BY <1>0, <1>1, <1>a DEF SetType, Remove, Loop, Goto, index
  <2>6. ChunkType'
    BY <1>0, <1>1, <1>a DEF ChunkType, Remove, Loop, Goto, index
  <2>7. QED
    BY <2>1, <2>2, <2>3, <2>4, <2>5, <2>6
       DEF TypeOK, BinType, LastType, PcType, IndexType, SetType, ChunkType
<1>3. LastForm'
  BY <1>0, <1>1 DEF TypesAt, LastForm
<1>4. LoopInv(p)'
  BY <1>0, <1>1 DEF TypesAt, LoopInv, Reading, Moving, Cleaning
<1>5. SeenInv(p)'
  BY <1>0, <1>1 DEF TypesAt, SeenInv, Searched, Visiting, Place, HeldAt
<1>6. StageInv(p)'
  BY <1>0, <1>1 DEF TypesAt, StageInv, Visiting, Moving, HeldAt
<1>7. ProdInv(p)'
  BY <1>0, <1>1 DEF TypesAt, ProdInv, HeldAt
<1>8. KeptInv(p)'
  BY <1>0, <1>1 DEF TypesAt, KeptInv, Cleaning, HeldAt
<1>9. OnlyHits'
  BY <1>0, <1>1, BinFacts DEF TypesAt, OnlyHits, HeldAt
<1>10. BehindInv(p)'
  BY <1>0, <1>1 DEF TypesAt, BehindInv, Visiting
<1>11. FaultlessInv(p)'
  BY <1>0, <1>1, BinFacts DEF TypesAt, FaultlessInv, OnceInv, OnceAt, InProgress, Visiting, Moving, Cleaning, Place, HeldAt
<1>12. QED
  BY <1>2, <1>3, <1>4, <1>5, <1>6, <1>7, <1>8, <1>9, <1>10, <1>11

LEMMA RemoveLastKeeps ==
  ASSUME NEW p, Alone(p), MonitorInv(p), FaultlessInv(p), NEW m \in Monitors, RemoveLast(p, m)
  PROVE  MonitorInv(p)' /\ FaultlessInv(p)'
<1> USE DEF MonitorInv
<1>0. p \in Procs /\ TypesAt(p)
  BY TypesOfLocals DEF Alone
<1>a. BinType /\ LastType /\ PcType /\ IndexType /\ SetType /\ ChunkType
  BY TypeParts
<1>1. /\ pc[p] = "rmLast" /\ pc'[p] = "rmDels" /\ m \in todo[p]
      /\ \A n \in Monitors : /\ last'["prod"][n] = IF n = m THEN 0 ELSE last["prod"][n]
                            /\ last'["stage"][n] = last["stage"][n]
      /\ UNCHANGED <<nChunks, hits, blooms, dels, bin, faults, addrs, staged, range, chunk, poss, todo, kept>>
  BY <1>0, <1>a DEF BinType, LastType, PcType, SetType, ChunkType, RemoveLast, Goto, index, locals
<1>2. TypeOK'
  <2>1. BinType'
    BY <1>0, <1>1, <1>a DEF BinType, RemoveLast, Goto, index, locals
  <2>2. LastType'
    BY <1>0, <1>1, <1>a, ChunkOrder, MonitorConstants DEF LastType, RemoveLast, Goto, index, locals, Chunks
  <2>3. PcType'
    BY <1>0, <1>1, <1>a DEF PcType, RemoveLast, Goto, index, locals
  <2>4. IndexType'
    BY <1>0, <1>1, <1>a DEF IndexType, RemoveLast, Goto, index, locals
  <2>5. SetType'
    BY <1>0, <1>1, <1>a DEF SetType, RemoveLast, Goto, index, locals
  <2>6. ChunkType'
    BY <1>0, <1>1, <1>a DEF ChunkType, RemoveLast, Goto, index, locals
  <2>7. QED
    BY <2>1, <2>2, <2>3, <2>4, <2>5, <2>6
       DEF TypeOK, BinType, LastType, PcType, IndexType, SetType, ChunkType
<1>3. LastForm'
  BY <1>0, <1>1 DEF TypesAt, LastForm, NextBlocks
<1>4. LoopInv(p)'
  BY <1>0, <1>1 DEF TypesAt, LoopInv, Reading, Moving, Cleaning
<1>5. SeenInv(p)'
  BY <1>0, <1>1 DEF TypesAt, SeenInv, Searched, Visiting, Place, HeldAt
<1>6. StageInv(p)'
  BY <1>0, <1>1 DEF TypesAt, StageInv, Visiting, Moving, HeldAt
<1>7. ProdInv(p)'
  BY <1>0, <1>1, FitsMissing DEF ProdInv, LoopInv
<1>8. KeptInv(p)'
  BY <1>0, <1>1 DEF TypesAt, KeptInv, Cleaning, HeldAt
<1>9. OnlyHits'
  BY <1>0, <1>1 DEF TypesAt, OnlyHits, HeldAt
<1>10. BehindInv(p)'
  BY <1>0, <1>1 DEF TypesAt, BehindInv, Visiting
<1>11. FaultlessInv(p)'
  <2>1. \A c \in Chunks : ~ HeldAt("prod", m, c)
    BY <1>1, BinFacts DEF LoopInv, HeldAt
  <2>2. QED
    BY <1>0, <1>1, <2>1
       DEF FaultlessInv, OnceInv, OnceAt, InProgress, Visiting, Moving, Cleaning, Place, HeldAt
<1>12. QED
  BY <1>2, <1>3, <1>4, <1>5, <1>6, <1>7, <1>8, <1>9, <1>10, <1>11

LEMMA RemoveDelsKeeps ==
  ASSUME NEW p, Alone(p), MonitorInv(p), FaultlessInv(p), NEW m \in Monitors, RemoveDels(p, m)
  PROVE  MonitorInv(p)' /\ FaultlessInv(p)'
<1> USE DEF MonitorInv
<1>0. p \in Procs /\ TypesAt(p)
  BY TypesOfLocals DEF Alone
<1>a. BinType /\ LastType /\ PcType /\ IndexType /\ SetType /\ ChunkType
  BY TypeParts
<1>1. /\ pc[p] = "rmDels"
      /\ pc'[p] = "none" /\ todo'[p] = {} /\ staged'[p] = {} /\ poss'[p] = {}
      /\ dels' \subseteq Monitors
      /\ UNCHANGED <<nChunks, hits, blooms, bin, last, faults>>
  BY <1>0, <1>a DEF BinType, LastType, PcType, SetType, ChunkType, RemoveDels, Ends, Goto, index, IndexType
<1>2. TypeOK'
  <2>1. BinType'
    BY <1>0, <1>1, <1>a DEF BinType, RemoveDels, Ends, Goto, index, IndexType
  <2>2. LastType'
    BY <1>0, <1>1, <1>a DEF LastType, RemoveDels, Ends, Goto, index, IndexType
  <2>3. PcType'
    BY <1>0, <1>1, <1>a DEF PcType, RemoveDels, Ends, Goto, index, IndexType
  <2>4. IndexType'
    BY <1>0, <1>1, <1>a DEF IndexType, RemoveDels, Ends, Goto, index, IndexType
  <2>5. SetType'
    BY <1>0, <1>1, <1>a DEF SetType, RemoveDels, Ends, Goto, index, IndexType, Bins
  <2>6. ChunkType'
    BY <1>0, <1>1, <1>a, MonitorConstants, ChunkOrder DEF ChunkType, RemoveDels, Ends, Goto, index, IndexType, Chunks
  <2>7. QED
    BY <2>1, <2>2, <2>3, <2>4, <2>5, <2>6
       DEF TypeOK, BinType, LastType, PcType, IndexType, SetType, ChunkType
<1>3. LastForm'
  BY <1>0, <1>1 DEF TypesAt, LastForm
<1>4. LoopInv(p)'
  BY <1>0, <1>1 DEF TypesAt, LoopInv, Reading, Moving, Cleaning
<1>5. SeenInv(p)'
  BY <1>0, <1>1 DEF TypesAt, SeenInv, Searched, Visiting, Place, HeldAt
<1>6. StageInv(p)'
  BY <1>0, <1>1 DEF TypesAt, StageInv, Visiting, Moving, HeldAt
<1>7. ProdInv(p)'
  BY <1>0, <1>1 DEF TypesAt, ProdInv, HeldAt
<1>8. KeptInv(p)'
  BY <1>0, <1>1 DEF TypesAt, KeptInv, Cleaning, HeldAt
<1>9. OnlyHits'
  BY <1>0, <1>1 DEF TypesAt, OnlyHits, HeldAt
<1>10. BehindInv(p)'
  BY <1>0, <1>1 DEF TypesAt, BehindInv, Visiting
<1>11. FaultlessInv(p)'
  BY <1>0, <1>1 DEF TypesAt, FaultlessInv, OnceInv, OnceAt, InProgress, Visiting, Moving, Cleaning, Place, HeldAt
<1>12. QED
  BY <1>2, <1>3, <1>4, <1>5, <1>6, <1>7, <1>8, <1>9, <1>10, <1>11

LEMMA VisitFailsKeeps ==
  ASSUME NEW p, Alone(p), MonitorInv(p), FaultlessInv(p), VisitFails(p)
  PROVE  MonitorInv(p)' /\ FaultlessInv(p)'
<1> USE DEF MonitorInv
<1>0. p \in Procs /\ TypesAt(p)
  BY TypesOfLocals DEF Alone
<1>a. BinType /\ LastType /\ PcType /\ IndexType /\ SetType /\ ChunkType
  BY TypeParts
<1>1. /\ pc[p] = "scan" /\ pc'[p] = "move" /\ todo'[p] = staged[p] /\ faults' = faults + 1 /\ faults < MaxFaults
      /\ UNCHANGED <<nChunks, hits, blooms, dels, last, addrs, staged, range, chunk, poss, kept>>
  BY <1>0, <1>a DEF BinType, LastType, PcType, SetType, ChunkType, VisitFails, Fault, Loop, Goto, index
<1>2. /\ \A m \in Monitors, c \in Chunks :
            /\ HeldAt("prod", m, c)' <=> HeldAt("prod", m, c)
            /\ HeldAt("stage", m, c)' <=> HeldAt("stage", m, c)
      /\ \A m \in staged[p] : bin'["prod"][m] = NoBin
  <2>1. CASE UNCHANGED bin
    BY <1>1, <2>1 DEF HeldAt, LoopInv, Reading
  <2>2. ASSUME NEW n \in todo[p], bin[Place(p, n)][n] = NoBin,
               bin' = [bin EXCEPT ![Place(p, n)][n] = EmptyBin]
        PROVE  /\ \A m \in Monitors, c \in Chunks :
                    /\ HeldAt("prod", m, c)' <=> HeldAt("prod", m, c)
                    /\ HeldAt("stage", m, c)' <=> HeldAt("stage", m, c)
               /\ \A m \in staged[p] : bin'["prod"][m] = NoBin
    BY <1>0, <1>1, <1>a, <2>2, BinFacts DEF BinType, HeldAt, LoopInv, Reading, Place, TypesAt
  <2>3. QED
    BY <2>1, <2>2 DEF VisitFails
<1>b. \A m \in Monitors : /\ Covers(bin'["prod"][m], bin["prod"][m], m)
                         /\ Covers(bin'["stage"][m], bin["stage"][m], m)
                         /\ hits[m] \in SUBSET Chunks
  BY <1>0, <1>2 DEF Covers, HeldAt, TypesAt
<1>3. TypeOK'
  <2>1. BinType'
    <3>1. ASSUME NEW n \in todo[p], bin' = [bin EXCEPT ![Place(p, n)][n] = EmptyBin]
          PROVE  BinType'
      BY <1>0, <1>a, <3>1, BinFacts DEF BinType, Bins, Place, TypesAt
    <3>2. CASE UNCHANGED bin
      BY <1>a, <3>2 DEF BinType
    <3>3. QED
      BY <3>1, <3>2 DEF VisitFails
  <2>2. LastType'
    BY <1>0, <1>1, <1>a DEF LastType, VisitFails, Fault, Loop, Goto, index
  <2>3. PcType'
    BY <1>0, <1>1, <1>a DEF PcType, VisitFails, Fault, Loop, Goto, index
  <2>4. IndexType'
    BY <1>0, <1>1, <1>a, MonitorConstants DEF IndexType, VisitFails, Fault, Loop, Goto, index
  <2>5. SetType'
    BY <1>0, <1>1, <1>a DEF SetType, VisitFails, Fault, Loop, Goto, index
  <2>6. ChunkType'
    BY <1>0, <1>1, <1>a DEF ChunkType, VisitFails, Fault, Loop, Goto, index
  <2>7. QED
    BY <2>1, <2>2, <2>3, <2>4, <2>5, <2>6
       DEF TypeOK, BinType, LastType, PcType, IndexType, SetType, ChunkType
<1>4. LastForm'
  BY <1>0, <1>1, <1>2 DEF TypesAt, LastForm
<1>5. LoopInv(p)'
  BY <1>0, <1>1, <1>2 DEF TypesAt, LoopInv, Reading, Moving, Cleaning
<1>6. SeenInv(p)'
  BY <1>0, <1>1, <1>2 DEF TypesAt, SeenInv, Searched, Visiting, Place, HeldAt
<1>7. StageInv(p)'
  BY <1>0, <1>1, <1>b, CoversFacts DEF StageInv, Visiting, Moving
<1>8. ProdInv(p)'
  BY <1>0, <1>1, <1>b, CoversFacts DEF ProdInv
<1>9. KeptInv(p)'
  BY <1>0, <1>1, <1>2 DEF TypesAt, KeptInv, Cleaning, HeldAt
<1>10. OnlyHits'
  BY <1>0, <1>1, <1>2 DEF TypesAt, OnlyHits, HeldAt
<1>11. BehindInv(p)'
  BY <1>0, <1>1, <1>2 DEF TypesAt, BehindInv, Visiting
<1>12. FaultlessInv(p)'
  BY <1>0, <1>1, <1>2, <1>a DEF TypesAt, FaultlessInv, OnceInv, OnceAt, InProgress, Visiting, Moving, Cleaning, Place, HeldAt, IndexType
<1>13. QED
  BY <1>3, <1>4, <1>5, <1>6, <1>7, <1>8, <1>9, <1>10, <1>11, <1>12

LEMMA NewChunkKeeps ==
  ASSUME NEW p, Alone(p), MonitorInv(p), FaultlessInv(p), NewChunk
  PROVE  MonitorInv(p)' /\ FaultlessInv(p)'
<1> USE DEF MonitorInv
<1>0. p \in Procs /\ TypesAt(p)
  BY TypesOfLocals DEF Alone
<1>a. BinType /\ LastType /\ PcType /\ IndexType /\ SetType /\ ChunkType
  BY TypeParts
<1>1. /\ nChunks' \in 0 .. MaxChunks
      /\ UNCHANGED <<hits, blooms, bin, last, dels, faults, pc, addrs, staged, range, chunk, poss, todo, kept>>
  BY <1>0, <1>a DEF BinType, LastType, PcType, SetType, ChunkType, TypesAt, IndexType, NewChunk, disk, locals
<1>2. TypeOK'
  <2>1. BinType'
    BY <1>0, <1>1, <1>a DEF BinType, TypesAt, IndexType, NewChunk, disk, locals
  <2>2. LastType'
    BY <1>0, <1>1, <1>a DEF LastType, TypesAt, IndexType, NewChunk, disk, locals
  <2>3. PcType'
    BY <1>0, <1>1, <1>a DEF PcType, TypesAt, IndexType, NewChunk, disk, locals
  <2>4. IndexType'
    BY <1>0, <1>1, <1>a DEF IndexType, TypesAt, IndexType, NewChunk, disk, locals
  <2>5. SetType'
    BY <1>0, <1>1, <1>a DEF SetType, TypesAt, IndexType, NewChunk, disk, locals
  <2>6. ChunkType'
    BY <1>0, <1>1, <1>a DEF ChunkType, TypesAt, IndexType, NewChunk, disk, locals
  <2>7. QED
    BY <2>1, <2>2, <2>3, <2>4, <2>5, <2>6
       DEF TypeOK, BinType, LastType, PcType, IndexType, SetType, ChunkType
<1>3. LastForm'
  BY <1>0, <1>1 DEF TypesAt, LastForm
<1>4. LoopInv(p)'
  BY <1>0, <1>1 DEF TypesAt, LoopInv, Reading, Moving, Cleaning
<1>5. SeenInv(p)'
  BY <1>0, <1>1 DEF TypesAt, SeenInv, Searched, Visiting, Place, HeldAt
<1>6. StageInv(p)'
  BY <1>0, <1>1 DEF TypesAt, StageInv, Visiting, Moving, HeldAt
<1>7. ProdInv(p)'
  BY <1>0, <1>1 DEF TypesAt, ProdInv, HeldAt
<1>8. KeptInv(p)'
  BY <1>0, <1>1 DEF TypesAt, KeptInv, Cleaning, HeldAt
<1>9. OnlyHits'
  BY <1>0, <1>1 DEF TypesAt, OnlyHits, HeldAt
<1>10. BehindInv(p)'
  BY <1>0, <1>1 DEF TypesAt, BehindInv, Visiting
<1>11. FaultlessInv(p)'
  BY <1>0, <1>1 DEF TypesAt, FaultlessInv, OnceInv, OnceAt, InProgress, Visiting, Moving, Cleaning, Place, HeldAt
<1>12. QED
  BY <1>2, <1>3, <1>4, <1>5, <1>6, <1>7, <1>8, <1>9, <1>10, <1>11

LEMMA BeginKeeps ==
  ASSUME NEW p, Alone(p), MonitorInv(p), FaultlessInv(p), NEW A \in (SUBSET Monitors) \ {{}}, Begin(p, A)
  PROVE  MonitorInv(p)' /\ FaultlessInv(p)'
<1> USE DEF MonitorInv
<1>0. p \in Procs /\ TypesAt(p)
  BY TypesOfLocals DEF Alone
<1>a. BinType /\ LastType /\ PcType /\ IndexType /\ SetType /\ ChunkType
  BY TypeParts
<1>1. /\ pc[p] = "none" /\ pc'[p] = "clean" /\ addrs'[p] = A /\ chunk'[p] = 1
      /\ staged'[p] = {m \in A : bin["prod"][m] = NoBin}
      /\ UNCHANGED <<nChunks, hits, blooms, dels, bin, last, faults, poss, todo, kept>>
  BY <1>0, <1>a DEF BinType, LastType, PcType, SetType, ChunkType, Begin, Goto, index, disk
<1>2. /\ range' = [range EXCEPT ![p] = <<range'[p][1], nChunks>>]
      /\ range'[p][1] \in 0 .. Last(MaxChunks) + 1 /\ nChunks \in 0 .. MaxChunks
      /\ \A m \in A : range'[p][1] <= last["prod"][m]
  <2> DEFINE firsts == {IF Exists(m) THEN last["prod"][m] ELSE 0 : m \in A}
             f == CHOOSE f \in firsts : \A g \in firsts : f <= g
  <2>1. A \subseteq Monitors /\ A # {}
    OBVIOUS
  <2>2. \A m \in A : last["prod"][m] \in 0 .. Last(MaxChunks) + 1
    BY <1>a, <2>1 DEF LastType
  <2>3. Last(MaxChunks) \in Nat
    BY ChunkOrder, MonitorConstants DEF Chunks
  <2>4. firsts \subseteq 0 .. Last(MaxChunks) + 1 /\ firsts # {}
    BY <2>1, <2>2, <2>3
  <2>5. firsts \in SUBSET Nat
    BY <2>4
  <2>6. f \in firsts /\ \A g \in firsts : f <= g
    <3> HIDE DEF firsts
    <3>1. \E x \in firsts : \A g \in firsts : x <= g
      BY <2>4, <2>5, MinExists
    <3>2. QED
      BY <3>1
  <2>7. \A m \in A : last["prod"][m] \in firsts
    BY DEF Exists
  <2>8. range' = [range EXCEPT ![p] = <<f, nChunks>>]
    BY DEF Begin
  <2> HIDE DEF firsts, f
  <2>9. range'[p] = <<f, nChunks>>
    BY <1>0, <1>a, <2>8 DEF ChunkType
  <2>a. range'[p][1] = f
    BY <2>9
  <2>b. f \in 0 .. Last(MaxChunks) + 1
    BY <2>4, <2>6
  <2>c. \A m \in A : f <= last["prod"][m]
    BY <2>6, <2>7
  <2>10. range'[p][1] = f /\ f \in 0 .. Last(MaxChunks) + 1 /\ \A m \in A : f <= last["prod"][m]
    BY <2>a, <2>b, <2>c
  <2>11. nChunks \in 0 .. MaxChunks
    BY <1>a DEF IndexType
  <2>12. QED
    BY <2>8, <2>10, <2>11
<1>3. TypeOK'
  <2>1. BinType'
    BY <1>0, <1>1, <1>a DEF BinType, Begin, Goto, index, disk
  <2>2. LastType'
    BY <1>0, <1>1, <1>a DEF LastType, Begin, Goto, index, disk
  <2>3. PcType'
    BY <1>0, <1>1, <1>a DEF PcType, Begin, Goto, index, disk
  <2>4. IndexType'
    BY <1>0, <1>1, <1>a DEF IndexType, Begin, Goto, index, disk
  <2>5. SetType'
    BY <1>0, <1>1, <1>a DEF SetType, Begin, Goto, index, disk
  <2>6. ChunkType'
    <3>1. chunk' = [chunk EXCEPT ![p] = 1] /\ 1 \in 0 .. MaxChunks + 1
      BY MonitorConstants DEF Begin
    <3>2. chunk' \in [Procs -> 0 .. MaxChunks + 1]
      BY <1>a, <3>1 DEF ChunkType
    <3>3. range' \in [Procs -> (0 .. Last(MaxChunks) + 1) \X (0 .. MaxChunks)]
      BY <1>a, <1>2 DEF ChunkType
    <3>4. QED
      BY <3>2, <3>3 DEF ChunkType
  <2>7. QED
    BY <2>1, <2>2, <2>3, <2>4, <2>5, <2>6
       DEF TypeOK, BinType, LastType, PcType, IndexType, SetType, ChunkType
<1>4. LastForm'
  BY <1>0, <1>1, <1>2 DEF TypesAt, LastForm
<1>5. LoopInv(p)'
  BY <1>0, <1>1, <1>2 DEF TypesAt, LoopInv, Reading, Moving, Cleaning
<1>6. SeenInv(p)'
  BY <1>0, <1>1, <1>2 DEF TypesAt, SeenInv, Searched, Visiting, Place, HeldAt
<1>7. StageInv(p)'
  BY <1>0, <1>1, <1>2 DEF TypesAt, StageInv, Visiting, Moving, HeldAt
<1>8. ProdInv(p)'
  BY <1>0, <1>1, <1>2 DEF TypesAt, ProdInv, HeldAt
<1>9. KeptInv(p)'
  BY <1>0, <1>1, <1>2 DEF TypesAt, KeptInv, Cleaning, HeldAt
<1>10. OnlyHits'
  BY <1>0, <1>1, <1>2 DEF TypesAt, OnlyHits, HeldAt
<1>11. BehindInv(p)'
  BY <1>0, <1>1, <1>2 DEF TypesAt, BehindInv, Visiting
<1>12. FaultlessInv(p)'
  BY <1>0, <1>1, <1>2 DEF TypesAt, FaultlessInv, OnceInv, OnceAt, InProgress, Visiting, Moving, Cleaning, Place, HeldAt
<1>13. QED
  BY <1>3, <1>4, <1>5, <1>6, <1>7, <1>8, <1>9, <1>10, <1>11, <1>12

-----------------------------------------------------------------------------
(* The theorems *)

LEMMA MonitorInit ==
  ASSUME NEW p, Alone(p), Init PROVE MonitorInv(p) /\ FaultlessInv(p)
<1>0. p \in Procs
  BY DEF Alone
<1>1. Last(MaxChunks) \in Nat /\ MaxChunks \in Nat
  BY ChunkOrder, MonitorConstants DEF Chunks
<1>2. BinType /\ LastType /\ PcType
  BY <1>1 DEF Init, BinType, LastType, PcType, Bins
<1>3. IndexType /\ SetType /\ ChunkType
  BY <1>1, MonitorConstants DEF Init, IndexType, SetType, ChunkType, Bins
<1>4. TypeOK
  BY <1>2, <1>3, TypeParts
<1>5. \A m \in Monitors : /\ bin["prod"][m] = NoBin /\ bin["stage"][m] = NoBin
                          /\ last["prod"][m] = 0 /\ last["stage"][m] = 0
  BY DEF Init
<1>6. pc[p] = "none" /\ staged[p] = {}
  BY <1>0 DEF Init
<1>7. \A m \in Monitors, c \in Chunks : ~ HeldAt("prod", m, c) /\ ~ HeldAt("stage", m, c)
  BY <1>5, BinFacts DEF HeldAt
<1>8. LastForm
  BY <1>5 DEF LastForm, NextBlocks
<1>9. \A m \in Monitors : hits[m] \subseteq Chunks
  BY <1>3 DEF IndexType
<1>10. ProdInv(p)
  BY <1>5, FitsMissing DEF ProdInv
<1>11. LoopInv(p) /\ SeenInv(p) /\ StageInv(p) /\ KeptInv(p) /\ BehindInv(p)
  BY <1>6 DEF LoopInv, SeenInv, StageInv, KeptInv, BehindInv, Reading, Visiting, Moving, Cleaning
<1>12. OnlyHits
  BY <1>7 DEF OnlyHits, Init
<1>13. FaultlessInv(p)
  BY <1>6, <1>7 DEF FaultlessInv, OnceInv, OnceAt, Cleaning
<1>14. QED
  BY <1>4, <1>8, <1>10, <1>11, <1>12, <1>13 DEF MonitorInv

LEMMA MonitorStutter ==
  ASSUME NEW p, MonitorInv(p), FaultlessInv(p), UNCHANGED vars
  PROVE  MonitorInv(p)' /\ FaultlessInv(p)'
<1>1. UNCHANGED <<nChunks, hits, blooms, bin, last, dels, faults, pc, addrs, staged, range, chunk,
                  poss, todo, kept>>
  BY DEF vars, index, disk, locals
<1>2. TypeOK' /\ LastForm' /\ LoopInv(p)' /\ BehindInv(p)' /\ OnlyHits'
  BY <1>1 DEF MonitorInv, TypeOK, LastForm, LoopInv, BehindInv, OnlyHits, HeldAt
<1>3. SeenInv(p)' /\ StageInv(p)' /\ ProdInv(p)' /\ KeptInv(p)'
  BY <1>1 DEF MonitorInv, SeenInv, StageInv, ProdInv, KeptInv, HeldAt, Searched, Place
<1>4. FaultlessInv(p)'
  BY <1>1 DEF FaultlessInv, OnceInv, OnceAt, InProgress, HeldAt, Place
<1>5. QED
  BY <1>2, <1>3, <1>4 DEF MonitorInv

LEMMA MonitorNext ==
  ASSUME NEW p, Alone(p), MonitorInv(p), FaultlessInv(p), [Next]_vars
  PROVE  MonitorInv(p)' /\ FaultlessInv(p)'
<1>1. CASE NewChunk
  BY <1>1, NewChunkKeeps
<1>2. CASE Start(p)
  BY <1>2, BeginKeeps, CleanReadKeeps, DeleteOrUndeleteKeeps, RemoveKeeps DEF Start
<1>3. CASE Freshen(p)
  BY <1>3, CleanStageKeeps, SkipChunkKeeps, VisitChunkKeeps, ScanDoneKeeps, LastsDoneKeeps,
     VisitsDoneKeeps, FreshenedKeeps, ScanKeeps, WriteLastKeeps, MoveBinKeeps, MoveLastKeeps
     DEF Freshen
<1>4. CASE CleanOrRemove(p)
  BY <1>4, CleanOpenKeeps, CleanWriteKeeps, RemoveLastKeeps, RemoveDelsKeeps DEF CleanOrRemove
<1>5. CASE Kill(p) \/ VisitFails(p)
  BY <1>5, KillKeeps, VisitFailsKeeps
<1>6. CASE UNCHANGED vars
  BY <1>6, MonitorStutter
<1>7. QED
  BY <1>1, <1>2, <1>3, <1>4, <1>5, <1>6 DEF Next, Alone

LEMMA MonitorResult ==
  ASSUME NEW p, Alone(p), MonitorInv(p), FaultlessInv(p) PROVE MissesNoTwo /\ Exact
<1>0. p \in Procs /\ TypesAt(p)
  BY TypesOfLocals DEF Alone, MonitorInv
<1>1. \A m \in Monitors, c \in Chunks : Holds(m, c) <=> HeldAt("prod", m, c)
  BY DEF Holds, HeldAt, Held
<1>2. MissesNoTwo
  <2> SUFFICES ASSUME NEW m \in Monitors, NEW c \in Chunks, Last(c) < last["prod"][m], ~ Rewritten(m)
               PROVE  Found(m, c) \/ (c > 1 /\ Found(m, c - 1))
    BY DEF MissesNoTwo
  <2>1. Fits(bin["prod"][m], hits[m], m, last["prod"][m])
    BY <1>0 DEF Rewritten, MonitorInv, ProdInv
  <2>2. PassedIn(bin["prod"][m], hits[m], m, c)
    BY <2>1 DEF Fits, Before
  <2>3. c > 1 => c - 1 \in Chunks
    BY MonitorConstants DEF Chunks
  <2>4. \A d \in Chunks : FoundIn(bin["prod"][m], hits[m], m, d) => Found(m, d)
    BY DEF FoundIn, Found, Holds, Held
  <2>5. QED
    BY <2>2, <2>3, <2>4 DEF PassedIn
<1>3. Exact
  BY <1>1 DEF Exact, MonitorInv, OnlyHits, FaultlessInv, OnceInv, OnceAt
<1>4. QED
  BY <1>2, <1>3

\* acctExport, one invocation at a time: whatever is killed or fails in freshening, and
\* whatever is cleaned, deleted and removed in between, the chunk that begins at the block
\* in .last.txt may be passed over, but of two chunks before that block that follow each
\* other the monitor has what there is in one, and it has what there is in the first
\* (visitBinaryFile, moveToProduction, process_clean).
THEOREM MonitorsMissNoTwo ==
  ASSUME NEW p, Alone(p)
  PROVE  Spec => []MissesNoTwo
<1>1. Init => MonitorInv(p) /\ FaultlessInv(p)
  BY MonitorInit
<1>2. (MonitorInv(p) /\ FaultlessInv(p)) /\ [Next]_vars => (MonitorInv(p) /\ FaultlessInv(p))'
  BY MonitorNext
<1>3. MonitorInv(p) /\ FaultlessInv(p) => MissesNoTwo
  BY MonitorResult
<1>4. QED
  BY <1>1, <1>2, <1>3, PTL DEF Spec

\* acctExport, one invocation at a time: a monitor never holds what the index does not
\* have, and as long as nothing was killed and nothing failed it holds nothing twice
\* (writeMonitorArray appends without looking).
THEOREM MonitorsExact ==
  ASSUME NEW p, Alone(p)
  PROVE  Spec => []Exact
<1>1. Init => MonitorInv(p) /\ FaultlessInv(p)
  BY MonitorInit
<1>2. (MonitorInv(p) /\ FaultlessInv(p)) /\ [Next]_vars => (MonitorInv(p) /\ FaultlessInv(p))'
  BY MonitorNext
<1>3. MonitorInv(p) /\ FaultlessInv(p) => Exact
  BY MonitorResult
<1>4. QED
  BY <1>1, <1>2, <1>3, PTL DEF Spec

-----------------------------------------------------------------------------
(* Sums *)

\* What is built up in m steps from v0 on, step j making it from what the steps before
\* made: there is such a thing.
BuildsUp(m, V, v0, T) == m \in Nat /\ v0 \in V /\ T \in [V \X (1 .. m) -> V]
Built(m, V, v0, T, f) == f \in [0 .. m -> V] /\
              \A j \in 0 .. m : f[j] = IF j = 0 THEN v0 ELSE T[<<f[j - 1], j>>]
LEMMA RecursionExists ==
    ASSUME NEW m, NEW V, NEW v0, NEW T, BuildsUp(m, V, v0, T)
    PROVE  \E f : Built(m, V, v0, T, f)
<1> USE DEF BuildsUp, Built
<1> DEFINE Counts(n, f) == \A j \in 0 .. n : f[j] = IF j = 0 THEN v0 ELSE T[<<f[j - 1], j>>]
           Bad == {n \in 0 .. m : ~ \E f \in [0 .. n -> V] : Counts(n, f)}
<1>1. SUFFICES ASSUME Bad # {} PROVE FALSE
  <2>1. m \in 0 .. m
    OBVIOUS
  <2>2. QED
    BY <2>1, ZenonT(60)
<1>2. PICK n \in Bad : \A k \in Bad : n <= k
  <2>1. Bad \in SUBSET Nat
    OBVIOUS
  <2>2. QED
    BY <1>1, <2>1, MinExists
<1>3. n \in 0 .. m /\ ~ \E f \in [0 .. n -> V] : Counts(n, f)
  BY Zenon
<1>4. n # 0
  <2>1. SUFFICES ASSUME n = 0 PROVE FALSE
    OBVIOUS
  <2> DEFINE f == [j \in 0 .. 0 |-> v0]
  <2>2. f \in [0 .. n -> V] /\ Counts(n, f)
    BY <2>1
  <2>3. QED
    BY <1>3, <2>2, Zenon
<1>5. n - 1 \in 0 .. m /\ n \in 1 .. m /\ n \in Nat
  BY <1>3, <1>4
<1>6. n - 1 \notin Bad
  <2> HIDE DEF Bad
  <2>1. n - 1 \in Bad => n <= n - 1
    BY <1>2, Zenon
  <2>2. QED
    BY <1>5, <2>1
<1>7. PICK f \in [0 .. n - 1 -> V] : Counts(n - 1, f)
  BY <1>5, <1>6, Zenon
<1> DEFINE g == [j \in 0 .. n |-> IF j = n THEN T[<<f[n - 1], n>>] ELSE f[j]]
<1>8. f[n - 1] \in V /\ T[<<f[n - 1], n>>] \in V
  BY <1>5
<1>9. g \in [0 .. n -> V]
  BY <1>5, <1>8
<1>10. \A j \in 0 .. n : g[j] = IF j = 0 THEN v0 ELSE T[<<g[j - 1], j>>]
  <2> SUFFICES ASSUME NEW j \in 0 .. n
               PROVE  g[j] = IF j = 0 THEN v0 ELSE T[<<g[j - 1], j>>]
    OBVIOUS
  <2>1. CASE j = n
    <3>1. n - 1 \in 0 .. n /\ n - 1 # n
      BY <1>5
    <3>2. g[n - 1] = f[n - 1] /\ g[n] = T[<<f[n - 1], n>>]
      BY <1>5, <3>1
    <3> HIDE DEF g
    <3>3. QED
      BY <1>4, <2>1, <3>2
  <2>2. CASE j # n
    <3>1. j \in 0 .. n - 1 /\ (j # 0 => j - 1 \in 0 .. n /\ j - 1 # n)
      BY <1>5, <2>2
    <3>2. f[j] = IF j = 0 THEN v0 ELSE T[<<f[j - 1], j>>]
      BY <1>7, <3>1
    <3>3. g[j] = f[j] /\ (j # 0 => g[j - 1] = f[j - 1])
      BY <2>2, <3>1
    <3>4. QED
      BY <3>2, <3>3
  <2>3. QED
    BY <2>1, <2>2
<1>11. Counts(n, g)
  BY <1>10
<1> HIDE DEF g, Counts
<1>12. QED
  BY <1>3, <1>9, <1>11, Zenon


\* What Total adds up.
LEMMA TotalFacts ==
    ASSUME NEW f \in Seq(Int)
    PROVE  /\ Total(f, 0) = 0
           /\ \A j \in 0 .. Len(f) : Total(f, j) \in Int
           /\ \A j \in 1 .. Len(f) : Total(f, j) = Total(f, j - 1) + f[j]
<1>0. Len(f) \in Nat /\ \A j \in 1 .. Len(f) : f[j] \in Int
  OBVIOUS
<1> DEFINE m == Len(f)
           Is(u) == u = [j \in 0 .. Len(f) |-> IF j = 0 THEN 0 ELSE u[j - 1] + f[j]]
           T == [x \in Int \X (1 .. m) |-> x[1] + f[x[2]]]
           U == CHOOSE u : Is(u)
<1>2. T \in [Int \X (1 .. m) -> Int]
  BY <1>0
<1>3. \A n \in Int, j \in 1 .. m : T[<<n, j>>] = n + f[j]
  OBVIOUS
<1> HIDE DEF T
<1>4. PICK u \in [0 .. m -> Int] :
        \A j \in 0 .. m : u[j] = IF j = 0 THEN 0 ELSE T[<<u[j - 1], j>>]
  <2> DEFINE V == Int
             v0 == 0
  <2>1. v0 \in V /\ m \in Nat /\ T \in [V \X (1 .. m) -> V]
    BY <1>0, <1>2
  <2> HIDE DEF V, v0, m
  <2>2. BuildsUp(m, V, v0, T)
    BY <2>1 DEF BuildsUp
  <2>3. \E u : Built(m, V, v0, T, u)
    BY <2>2, RecursionExists, Zenon
  <2>4. QED
    BY <2>3 DEF Built, V, v0, m
<1>5. \A j \in 0 .. m : u[j] = IF j = 0 THEN 0 ELSE u[j - 1] + f[j]
  <2>1. \A j \in 0 .. m : j # 0 => j - 1 \in 0 .. m /\ j \in 1 .. m
    BY <1>0
  <2>2. \A j \in 0 .. m : j # 0 => u[j - 1] \in Int
    BY <2>1
  <2>3. \A j \in 0 .. m : j # 0 => T[<<u[j - 1], j>>] = u[j - 1] + f[j]
    BY <1>3, <2>1, <2>2, Zenon
  <2>4. QED
    BY <1>4, <2>3
<1>6. Is(u)
  BY <1>5
<1>7. \A j : Total(f, j) = U[j]
  BY DEF Total
<1>8. Is(U)
  BY <1>6, Zenon
<1>9. \A j \in 0 .. m : U[j] = IF j = 0 THEN 0 ELSE U[j - 1] + f[j]
  BY <1>8
<1> HIDE DEF U, Is
<1>10. \A j \in 0 .. m : U[j] \in Int
  <2> DEFINE Bad == {j \in 0 .. m : U[j] \notin Int}
  <2>1. SUFFICES ASSUME Bad # {} PROVE FALSE
    OBVIOUS
  <2>2. PICK j \in Bad : \A k \in Bad : j <= k
    <3>1. Bad \in SUBSET Nat
      BY <1>0
    <3>2. QED
      BY <2>1, <3>1, MinExists
  <2>3. j \in 0 .. m /\ U[j] \notin Int
    OBVIOUS
  <2>4. j # 0
    BY <1>9, <2>3
  <2>5. j - 1 \in 0 .. m /\ j - 1 \notin Bad /\ j \in 1 .. m
    BY <1>0, <2>2, <2>3, <2>4
  <2>6. U[j - 1] \in Int
    BY <2>5
  <2>7. U[j] = U[j - 1] + f[j] /\ f[j] \in Int
    BY <1>0, <1>9, <2>3, <2>4, <2>5
  <2>8. U[j] \in Int
    BY <2>6, <2>7
  <2>9. QED
    BY <2>3, <2>8
<1>11. QED
  <2>1. 0 \in 0 .. m /\ \A j \in 1 .. m : j \in 0 .. m /\ j # 0
    BY <1>0
  <2>2. QED
    BY <1>7, <1>9, <1>10, <2>1

\* Two lists that begin with the same n numbers.
LEMMA TotalSame ==
    ASSUME NEW f \in Seq(Int), NEW g \in Seq(Int), NEW n \in Nat, n <= Len(f), n <= Len(g),
           \A j \in 1 .. n : f[j] = g[j]
    PROVE  Total(f, n) = Total(g, n)
<1> DEFINE F(j) == Total(f, j)
           G(j) == Total(g, j)
           Bad == {j \in 0 .. n : F(j) # G(j)}
<1>1. /\ F(0) = 0 /\ G(0) = 0 /\ Len(f) \in Nat /\ Len(g) \in Nat
      /\ \A j \in 1 .. Len(f) : F(j) = F(j - 1) + f[j]
      /\ \A j \in 1 .. Len(g) : G(j) = G(j - 1) + g[j]
  BY TotalFacts
<1> HIDE DEF F, G
<1>2. SUFFICES ASSUME Bad # {} PROVE FALSE
  BY SMTT(40) DEF F, G
<1>3. PICK j \in Bad : \A k \in Bad : j <= k
  <2>1. Bad \in SUBSET Nat
    OBVIOUS
  <2>2. QED
    BY <1>2, <2>1, MinExists
<1>4. j \in 1 .. n /\ F(j) # G(j) /\ j - 1 \in 0 .. n /\ ~ (j <= j - 1)
         /\ j \in 1 .. Len(f) /\ j \in 1 .. Len(g)
  BY <1>1
<1>5. j - 1 \notin Bad
  <2> HIDE DEF Bad
  <2>1. QED
    BY <1>3, <1>4, Zenon
<1>6. F(j - 1) = G(j - 1)
  BY <1>4, <1>5
<1>7. QED
  BY <1>1, <1>4, <1>6

\* Nothing is added after the first k.
LEMMA TotalRest ==
    ASSUME NEW f \in Seq(Int), NEW k \in 0 .. Len(f), \A j \in k + 1 .. Len(f) : f[j] = 0
    PROVE  Total(f, Len(f)) = Total(f, k)
<1> DEFINE F(j) == Total(f, j)
           m == Len(f)
           Bad == {j \in 0 .. m : j >= k /\ F(j) # F(k)}
<1>1. /\ m \in Nat /\ k \in Nat /\ k <= m
      /\ \A j \in 0 .. m : F(j) \in Int
      /\ \A j \in 1 .. m : F(j) = F(j - 1) + f[j]
      /\ \A j \in k + 1 .. m : f[j] = 0
  BY TotalFacts
<1> HIDE DEF F, m
<1>2. SUFFICES ASSUME Bad # {} PROVE FALSE
  <2>1. m \in 0 .. m /\ m >= k
    BY <1>1
  <2>2. F(m) = F(k)
    BY <2>1
  <2>3. QED
    BY <2>2 DEF F, m
<1>3. PICK j \in Bad : \A i \in Bad : j <= i
  <2>1. Bad \in SUBSET Nat
    BY <1>1
  <2>2. QED
    BY <1>2, <2>1, MinExists
<1>4. j \in 1 .. m /\ j \in k + 1 .. m /\ F(j) # F(k) /\ j - 1 \in 0 .. m /\ ~ (j <= j - 1)
         /\ j - 1 >= k
  BY <1>1
<1>5. j - 1 \notin Bad
  <2> HIDE DEF Bad
  <2>1. QED
    BY <1>3, <1>4, Zenon
<1>6. F(j - 1) = F(k) /\ F(j - 1) \in Int
  BY <1>1, <1>4, <1>5
<1>7. F(j) = F(j - 1) + 0
  BY <1>1, <1>4
<1>8. QED
  BY <1>4, <1>6, <1>7

-----------------------------------------------------------------------------
(* The account, and what is exported of it *)

StatementType == [blockNumber : Int, begBal : Int, endBal : Int, endBalCalc : Int,
                  amountNet : Int, reconciled : BOOLEAN]
TxType == [blk : 0 .. LastBlock, top : Int, trc : Int, val : Int, tok : Int, log : BOOLEAN]

\* What does not change while statements are made.
Exported ==
    /\ how.windows \in BOOLEAN /\ how.filters \in BOOLEAN
    /\ txs \in Seq(TxType) /\ Len(txs) \in 1 .. MaxTxs
    /\ \A i, j \in 1 .. Len(txs) : i < j => txs[i].blk <= txs[j].blk /\ txs[j].blk > 0
    /\ firstRecord \in 0 .. Len(txs) - 1 /\ maxRecords \in Nat \ {0}
    /\ ~ how.windows => firstRecord = 0 /\ maxRecords = MaxTxs

LEMMA ExportedInit == AcctInit => Exported
<1> SUFFICES ASSUME AcctInit PROVE Exported
  OBVIOUS
<1>1. how \in [kinds : SUBSET Kind, windows : BOOLEAN, filters : BOOLEAN]
         /\ how.kinds \subseteq Kind /\ how.windows \in BOOLEAN /\ how.filters \in BOOLEAN
  BY ReconcileConstants DEF AcctInit
<1>2. LastBlock \in Nat /\ MaxTxs \in Nat \ {0}
  BY ReconcileConstants
<1> DEFINE Tx == {[blk |-> b, top |-> k.top, trc |-> k.trc, val |-> k.val, tok |-> k.tok,
                   log |-> k.log] : b \in 0 .. LastBlock, k \in how.kinds}
<1>3. Tx \subseteq TxType
  BY <1>1 DEF Kind, TxType
<1>4. txs \in UNION {[1 .. n -> Tx] : n \in 1 .. MaxTxs}
         /\ \A i, j \in DOMAIN txs : i < j => txs[i].blk <= txs[j].blk /\ txs[j].blk > 0
  BY DEF AcctInit, Chains
<1> HIDE DEF Tx
<1>5. PICK n \in 1 .. MaxTxs : txs \in [1 .. n -> Tx]
  BY <1>4
<1>6. txs \in [1 .. n -> TxType] /\ n \in Nat
  BY <1>2, <1>3, <1>5
<1>7. txs \in Seq(TxType) /\ Len(txs) = n
  BY <1>6
<1>8. \A i, j \in 1 .. Len(txs) : i < j => txs[i].blk <= txs[j].blk /\ txs[j].blk > 0
  BY <1>4, <1>6, <1>7
<1>9. firstRecord \in 0 .. Len(txs) - 1 /\ maxRecords \in Nat \ {0}
         /\ (~ how.windows => firstRecord = 0 /\ maxRecords = MaxTxs)
  BY <1>1, <1>2, <1>5, <1>7 DEF AcctInit
<1>10. QED
  BY <1>1, <1>5, <1>7, <1>8, <1>9 DEF Exported

\* A transaction is in a block of the chain.
LEMMA TxFacts ==
    ASSUME Exported
    PROVE  \A i \in 1 .. Len(txs) :
               /\ txs[i] \in TxType /\ txs[i].blk \in Nat /\ txs[i].blk \in Int
               /\ txs[i].blk < NoneAfter
               /\ txs[i].top \in Int /\ txs[i].trc \in Int /\ txs[i].val \in Int
               /\ txs[i].tok \in Int /\ txs[i].log \in BOOLEAN
<1>1. SUFFICES ASSUME NEW t \in TxType
               PROVE  /\ t.blk \in Nat /\ t.blk \in Int /\ t.blk < NoneAfter
                      /\ t.top \in Int /\ t.trc \in Int /\ t.val \in Int
                      /\ t.tok \in Int /\ t.log \in BOOLEAN
  BY DEF Exported
<1>2. LastBlock \in Nat
  BY ReconcileConstants
<1>3. t.blk \in 0 .. LastBlock
  BY DEF TxType
<1>4. QED
  BY <1>2, <1>3 DEF TxType, NoneAfter

\* The appearances are a part of the transactions; without a window they are all of them.
LEMMA AppsAre ==
    ASSUME Exported
    PROVE  /\ Len(apps) \in Nat \ {0} /\ DOMAIN apps = 1 .. Len(apps)
           /\ firstRecord + Len(apps) <= Len(txs)
           /\ \A i \in 1 .. Len(apps) : /\ apps[i] = txs[firstRecord + i]
                                        /\ firstRecord + i \in 1 .. Len(txs)
           /\ ~ how.windows => Len(apps) = Len(txs)
<1> DEFINE b == IF firstRecord + maxRecords < Len(txs) THEN firstRecord + maxRecords
                ELSE Len(txs)
<1>1. txs \in Seq(TxType) /\ Len(txs) \in 1 .. MaxTxs /\ firstRecord \in 0 .. Len(txs) - 1
         /\ maxRecords \in Nat \ {0} /\ MaxTxs \in Nat
         /\ (~ how.windows => firstRecord = 0 /\ maxRecords = MaxTxs)
  BY ReconcileConstants DEF Exported
<1>2. b \in firstRecord + 1 .. Len(txs) /\ Len(txs) \in Nat /\ firstRecord \in Nat
         /\ (~ how.windows => b = Len(txs))
  BY <1>1
<1>3. apps = SubSeq(txs, firstRecord + 1, b)
  BY DEF apps
<1> HIDE DEF b
<1>4. Len(apps) = b - firstRecord /\ DOMAIN apps = 1 .. b - firstRecord
  BY <1>1, <1>2, <1>3
<1>5. \A i \in 1 .. b - firstRecord : apps[i] = txs[firstRecord + i]
  <2> SUFFICES ASSUME NEW i \in 1 .. b - firstRecord PROVE apps[i] = txs[firstRecord + i]
    OBVIOUS
  <2>1. (firstRecord + 1) + i - 1 = firstRecord + i
    BY <1>2
  <2>2. QED
    BY <1>1, <1>2, <1>3, <2>1
<1>6. b - firstRecord \in Nat \ {0} /\ firstRecord + (b - firstRecord) <= Len(txs)
         /\ (\A i \in 1 .. b - firstRecord : firstRecord + i \in 1 .. Len(txs))
         /\ (~ how.windows => b - firstRecord = Len(txs))
  BY <1>1, <1>2
<1>7. QED
  BY <1>4, <1>5, <1>6

\* The node's balances, as the sums over the transactions that they are.
Vals == [i \in DOMAIN txs |-> txs[i].val]
LEMMA BalanceIs ==
    ASSUME Exported
    PROVE  /\ Vals \in Seq(Int) /\ Len(Vals) = Len(txs)
           /\ \A b : BalanceAt(b) \in Int /\ TokenAt(b) \in Int
           /\ \A b \in Int, k \in 0 .. Len(txs) :
                 /\ \A i \in 1 .. k : txs[i].blk <= b
                 /\ \A i \in k + 1 .. Len(txs) : txs[i].blk > b
                 => BalanceAt(b) = Total(Vals, k)
<1>1. txs \in Seq(TxType) /\ Len(txs) \in Nat /\ DOMAIN txs = 1 .. Len(txs)
  BY DEF Exported
<1>2. \A i \in 1 .. Len(txs) : txs[i].val \in Int /\ txs[i].tok \in Int /\ txs[i].blk \in Int
  BY TxFacts
<1>3. Vals \in Seq(Int) /\ Len(Vals) = Len(txs) /\ \A i \in 1 .. Len(txs) : Vals[i] = txs[i].val
  BY <1>1, <1>2 DEF Vals
<1>4. ASSUME NEW b
      PROVE  BalanceAt(b) \in Int /\ TokenAt(b) \in Int
  <2> DEFINE f == [i \in DOMAIN txs |-> IF txs[i].blk <= b THEN txs[i].val ELSE 0]
             g == [i \in DOMAIN txs |-> IF txs[i].blk <= b THEN txs[i].tok ELSE 0]
  <2>1. f \in Seq(Int) /\ Len(f) = Len(txs) /\ g \in Seq(Int) /\ Len(g) = Len(txs)
    BY <1>1, <1>2
  <2>2. BalanceAt(b) = Total(f, Len(txs)) /\ TokenAt(b) = Total(g, Len(txs))
    BY DEF BalanceAt, TokenAt
  <2> HIDE DEF f, g
  <2>3. Total(f, Len(f)) \in Int /\ Total(g, Len(g)) \in Int
    <3>1. Len(f) \in 0 .. Len(f) /\ Len(g) \in 0 .. Len(g)
      BY <1>1, <2>1
    <3>2. QED
      BY <2>1, <3>1, TotalFacts
  <2>4. QED
    BY <2>1, <2>2, <2>3
<1>5. ASSUME NEW b \in Int, NEW k \in 0 .. Len(txs),
             \A i \in 1 .. k : txs[i].blk <= b,
             \A i \in k + 1 .. Len(txs) : txs[i].blk > b
      PROVE  BalanceAt(b) = Total(Vals, k)
  <2> DEFINE f == [i \in DOMAIN txs |-> IF txs[i].blk <= b THEN txs[i].val ELSE 0]
  <2>1. f \in Seq(Int) /\ Len(f) = Len(txs)
           /\ \A i \in 1 .. Len(txs) : f[i] = IF txs[i].blk <= b THEN txs[i].val ELSE 0
    BY <1>1, <1>2
  <2>2. BalanceAt(b) = Total(f, Len(txs))
    BY DEF BalanceAt
  <2> HIDE DEF f
  <2>3. k \in Nat /\ k <= Len(f) /\ k <= Len(Vals) /\ k \in 0 .. Len(f)
    BY <1>1, <1>3, <2>1
  <2>4. \A j \in 1 .. k : f[j] = Vals[j]
    BY <1>1, <1>3, <1>5, <2>1
  <2>5. \A j \in k + 1 .. Len(f) : f[j] = 0
    <3> SUFFICES ASSUME NEW j \in k + 1 .. Len(f) PROVE f[j] = 0
      OBVIOUS
    <3>1. j \in k + 1 .. Len(txs) /\ j \in 1 .. Len(txs)
      BY <1>1, <2>1
    <3>2. ~ (txs[j].blk <= b)
      BY <1>2, <1>5, <3>1
    <3>3. QED
      BY <2>1, <3>1, <3>2
  <2>6. Total(f, k) = Total(Vals, k)
    BY <1>3, <2>1, <2>3, <2>4, TotalSame
  <2>7. Total(f, Len(f)) = Total(f, k)
    BY <2>1, <2>3, <2>5, TotalRest
  <2>8. QED
    BY <2>1, <2>2, <2>6, <2>7
<1>6. QED
  BY <1>3, <1>4, <1>5

\* Where a block ends, and where one begins, the node's balance is the sum so far.
LEMMA BlockEnds ==
    ASSUME Exported
    PROVE  /\ \A p \in 1 .. Len(txs) :
                 p = Len(txs) \/ txs[p].blk # txs[p + 1].blk
                     => BalanceAt(txs[p].blk) = Total(Vals, p)
           /\ \A p \in 0 .. Len(txs) - 1 :
                 p = 0 \/ txs[p].blk # txs[p + 1].blk
                     => BalanceAt(txs[p + 1].blk - 1) = Total(Vals, p)
<1> DEFINE m == Len(txs)
           B(i) == txs[i].blk
<1>1. /\ m \in Nat
      /\ \A i \in 1 .. m : B(i) \in Int
      /\ \A i, j \in 1 .. m : i < j => B(i) <= B(j)
      /\ \A b \in Int, k \in 0 .. m :
            /\ \A i \in 1 .. k : B(i) <= b
            /\ \A i \in k + 1 .. m : B(i) > b
            => BalanceAt(b) = Total(Vals, k)
  <2>1. m \in Nat /\ (\A i, j \in 1 .. m : i < j => B(i) <= B(j))
    BY DEF Exported
  <2>2. QED
    BY <2>1, TxFacts, BalanceIs
<1> HIDE DEF m, B
<1>1a. \A i, j \in 1 .. m : i < j => B(i) <= B(j)
  BY <1>1, Zenon
<1>1b. \A i \in 1 .. m : B(i) \in Int
  BY <1>1, Zenon
<1>2. ASSUME NEW p \in 1 .. m, p = m \/ B(p) # B(p + 1)
      PROVE  BalanceAt(B(p)) = Total(Vals, p)
  <2>1. p \in 0 .. m /\ B(p) \in Int
    BY <1>1
  <2>2. \A i \in 1 .. p : B(i) <= B(p)
    <3> SUFFICES ASSUME NEW i \in 1 .. p PROVE B(i) <= B(p)
      OBVIOUS
    <3>1. i \in 1 .. m /\ (i = p \/ i < p) /\ B(i) \in Int
      BY <1>1
    <3>2. QED
      BY <1>1, <2>1, <3>1
  <2>3. \A i \in p + 1 .. m : B(i) > B(p)
    <3> SUFFICES ASSUME NEW i \in p + 1 .. m PROVE B(i) > B(p)
      OBVIOUS
    <3>1. /\ i \in 1 .. m /\ p + 1 \in 1 .. m /\ p < p + 1 /\ p # m
          /\ (i = p + 1 \/ p + 1 < i)
      BY <1>1
    <3>2a. B(p) <= B(p + 1)
      BY <1>1a, <3>1, Zenon
    <3>2. B(p) < B(p + 1) /\ B(p + 1) \in Int /\ B(i) \in Int
      <4>1. B(p + 1) \in Int /\ B(i) \in Int
        BY <1>1b, <3>1, Zenon
      <4>2. B(p) # B(p + 1)
        BY <1>2, <3>1, Zenon
      <4>3. QED
        BY <2>1, <3>2a, <4>1, <4>2
    <3>3. B(p + 1) <= B(i)
      BY <1>1, <3>1, <3>2
    <3>4. QED
      BY <2>1, <3>2, <3>3
  <2>4. QED
    BY <1>1, <2>1, <2>2, <2>3
<1>3. ASSUME NEW p \in 0 .. m - 1, p = 0 \/ B(p) # B(p + 1)
      PROVE  BalanceAt(B(p + 1) - 1) = Total(Vals, p)
  <2>1. p \in 0 .. m /\ p + 1 \in 1 .. m /\ B(p + 1) \in Int /\ B(p + 1) - 1 \in Int
    BY <1>1
  <2>2. \A i \in 1 .. p : B(i) <= B(p + 1) - 1
    <3> SUFFICES ASSUME NEW i \in 1 .. p PROVE B(i) <= B(p + 1) - 1
      OBVIOUS
    <3>1. /\ i \in 1 .. m /\ p \in 1 .. m /\ p < p + 1 /\ p # 0
          /\ (i = p \/ i < p)
      BY <1>1
    <3>2a. B(p) <= B(p + 1)
      BY <1>1a, <2>1, <3>1, Zenon
    <3>2. B(p) < B(p + 1) /\ B(p) \in Int /\ B(i) \in Int
      <4>1. B(p) \in Int /\ B(i) \in Int
        BY <1>1b, <3>1, Zenon
      <4>2. B(p) # B(p + 1)
        BY <1>3, <3>1, Zenon
      <4>3. QED
        BY <2>1, <3>2a, <4>1, <4>2
    <3>3. B(i) <= B(p)
      BY <1>1, <3>1, <3>2
    <3>4. QED
      BY <2>1, <3>2, <3>3
  <2>3. \A i \in p + 1 .. m : B(i) > B(p + 1) - 1
    <3> SUFFICES ASSUME NEW i \in p + 1 .. m PROVE B(i) > B(p + 1) - 1
      OBVIOUS
    <3>1. i \in 1 .. m /\ (i = p + 1 \/ p + 1 < i) /\ B(i) \in Int
      BY <1>1
    <3>2. B(p + 1) <= B(i)
      BY <1>1, <2>1, <3>1
    <3>3. QED
      BY <2>1, <3>1, <3>2
  <2>4. QED
    BY <1>1, <2>1, <2>2, <2>3
<1>4. QED
  BY <1>2, <1>3 DEF m, B

-----------------------------------------------------------------------------
(* A statement *)

LEMMA StatementFacts ==
    ASSUME NEW t, NEW beg \in Int, NEW end \in Int, NEW calc \in Int, NEW d \in Int,
           t.blk \in Int
    PROVE  /\ Statement(t, beg, end, calc, d) \in StatementType
           /\ Statement(t, beg, end, calc, d).blockNumber = t.blk
           /\ Statement(t, beg, end, calc, d).begBal = beg
           /\ Statement(t, beg, end, calc, d).endBal = end
           /\ Statement(t, beg, end, calc, d).endBalCalc = calc
           /\ Statement(t, beg, end, calc, d).reconciled <=> d = 0 /\ end = calc
           /\ d = 0 /\ end = calc => Statement(t, beg, end, calc, d).amountNet = end - beg
<1> DEFINE net == IF d = 0 /\ end = calc THEN end - beg ELSE 0
           ok == d = 0 /\ end = calc
<1>1. Statement(t, beg, end, calc, d) =
        [blockNumber |-> t.blk, begBal |-> beg, endBal |-> end, endBalCalc |-> calc,
         amountNet |-> net, reconciled |-> ok]
  BY DEF Statement
<1>2. net \in Int /\ ok \in BOOLEAN /\ (d = 0 /\ end = calc => net = end - beg)
         /\ (ok <=> d = 0 /\ end = calc)
  OBVIOUS
<1> HIDE DEF net, ok
<1>3. QED
  BY <1>1, <1>2 DEF StatementType

\* The five statements that reconcileEth chooses from.
LEMMA Choices ==
    ASSUME NEW t, NEW prev, NEW next
    PROVE  \/ /\ reconcileEth(t, prev, next) = topLine(t, prev)
              /\ topLine(t, prev).reconciled
           \/ /\ ~ topLine(t, prev).reconciled
              /\ \/ /\ reconcileEth(t, prev, next) = reconcileUsingTraces(t, prev)
                    /\ \/ reconcileUsingTraces(t, prev).reconciled
                       \/ prev.blockNumber # t.blk /\ t.blk # next
                 \/ /\ prev.blockNumber # t.blk /\ t.blk = next
                    /\ reconcileEth(t, prev, next) =
                         LET beg == topLine(t, prev).begBal
                         IN Statement(t, beg, beg + t.trc, beg + t.trc,
                                      IF t.blk # 0 THEN beg - prev.endBal ELSE 0)
                 \/ /\ prev.blockNumber = t.blk /\ t.blk # next
                    /\ reconcileEth(t, prev, next) =
                         Statement(t, prev.endBalCalc, BalanceAt(t.blk),
                                   prev.endBalCalc + t.trc, 0)
                 \/ /\ prev.blockNumber = t.blk /\ t.blk = next
                    /\ reconcileEth(t, prev, next) =
                         Statement(t, prev.endBalCalc, prev.endBalCalc + t.trc,
                                   prev.endBalCalc + t.trc, 0)
<1>1. CASE topLine(t, prev).reconciled
  <2>1. reconcileEth(t, prev, next) = topLine(t, prev)
    BY <1>1, Zenon DEF reconcileEth
  <2>2. QED
    BY <1>1, <2>1, Zenon
<1>2. CASE ~ topLine(t, prev).reconciled /\ reconcileUsingTraces(t, prev).reconciled
  <2>1. reconcileEth(t, prev, next) = reconcileUsingTraces(t, prev)
    BY <1>2, Zenon DEF reconcileEth
  <2>2. QED
    BY <1>2, <2>1, Zenon
<1>3. CASE ~ topLine(t, prev).reconciled /\ ~ reconcileUsingTraces(t, prev).reconciled
  <2>1. reconcileEth(t, prev, next) = sameBlock(t, prev, next)
    BY <1>3, Zenon DEF reconcileEth
  <2>2. CASE prev.blockNumber # t.blk /\ t.blk # next
    <3>1. sameBlock(t, prev, next) = reconcileUsingTraces(t, prev)
      BY <2>2 DEF sameBlock
    <3>2. QED
      BY <1>3, <2>1, <2>2, <3>1, Zenon
  <2>3. CASE prev.blockNumber # t.blk /\ t.blk = next
    <3>1. sameBlock(t, prev, next) =
             LET beg == topLine(t, prev).begBal
             IN Statement(t, beg, beg + t.trc, beg + t.trc,
                          IF t.blk # 0 THEN beg - prev.endBal ELSE 0)
      BY <2>3 DEF sameBlock
    <3>2. QED
      BY <1>3, <2>1, <2>3, <3>1, Zenon
  <2>4. CASE prev.blockNumber = t.blk /\ t.blk # next
    <3>1. sameBlock(t, prev, next) =
             Statement(t, prev.endBalCalc, BalanceAt(t.blk), prev.endBalCalc + t.trc, 0)
      BY <2>4 DEF sameBlock
    <3>2. QED
      BY <1>3, <2>1, <2>4, <3>1, Zenon
  <2>5. CASE prev.blockNumber = t.blk /\ t.blk = next
    <3>1. sameBlock(t, prev, next) =
             Statement(t, prev.endBalCalc, prev.endBalCalc + t.trc, prev.endBalCalc + t.trc, 0)
      BY <2>5 DEF sameBlock
    <3>2. QED
      BY <1>3, <2>1, <2>5, <3>1, Zenon
  <2>6. QED
    BY <2>2, <2>3, <2>4, <2>5, Zenon
<1>4. QED
  BY <1>1, <1>2, <1>3, Zenon

\* The statements from the node's balances.
LEMMA NodeFacts ==
    ASSUME Exported, NEW t \in TxType, NEW prev \in StatementType
    PROVE  /\ t.blk \in Nat /\ t.top \in Int /\ t.trc \in Int /\ t.val \in Int
           /\ prev.endBal \in Int /\ prev.endBalCalc \in Int
           /\ \A b : BalanceAt(b) \in Int
           /\ topLine(t, prev) \in StatementType
           /\ topLine(t, prev).blockNumber = t.blk
           /\ topLine(t, prev).begBal = BalanceAt(IF t.blk = 0 THEN 0 ELSE t.blk - 1)
           /\ topLine(t, prev).endBal = BalanceAt(t.blk)
           /\ topLine(t, prev).endBalCalc = topLine(t, prev).begBal + t.top
           /\ topLine(t, prev).reconciled <=>
                 /\ topLine(t, prev).begBal = prev.endBal
                 /\ topLine(t, prev).endBal = topLine(t, prev).endBalCalc
           /\ topLine(t, prev).reconciled =>
                 topLine(t, prev).amountNet = topLine(t, prev).endBal - topLine(t, prev).begBal
           /\ reconcileUsingTraces(t, prev) \in StatementType
           /\ reconcileUsingTraces(t, prev).blockNumber = t.blk
           /\ reconcileUsingTraces(t, prev).begBal
                 = IF t.blk = 0 THEN 0 ELSE BalanceAt(t.blk - 1)
           /\ reconcileUsingTraces(t, prev).endBal = BalanceAt(t.blk)
           /\ reconcileUsingTraces(t, prev).endBalCalc
                 = reconcileUsingTraces(t, prev).begBal + t.trc
           /\ reconcileUsingTraces(t, prev).reconciled <=>
                 /\ t.blk = 0 \/ reconcileUsingTraces(t, prev).begBal = prev.endBal
                 /\ reconcileUsingTraces(t, prev).endBal
                       = reconcileUsingTraces(t, prev).endBalCalc
           /\ reconcileUsingTraces(t, prev).reconciled =>
                 reconcileUsingTraces(t, prev).amountNet
                    = reconcileUsingTraces(t, prev).endBal - reconcileUsingTraces(t, prev).begBal
<1>1. t.blk \in Nat /\ t.top \in Int /\ t.trc \in Int /\ t.val \in Int
         /\ prev.endBal \in Int /\ prev.endBalCalc \in Int
  <2>1. LastBlock \in Nat
    BY ReconcileConstants
  <2>2. QED
    BY <2>1 DEF TxType, StatementType
<1>2. \A b : BalanceAt(b) \in Int
  BY BalanceIs
<1> DEFINE b0 == BalanceAt(IF t.blk = 0 THEN 0 ELSE t.blk - 1)
           c0 == IF t.blk = 0 THEN 0 ELSE BalanceAt(t.blk - 1)
           e == BalanceAt(t.blk)
           d == IF t.blk = 0 THEN 0 ELSE c0 - prev.endBal
<1>3. topLine(t, prev) = Statement(t, b0, e, b0 + t.top, b0 - prev.endBal)
  BY Zenon DEF topLine
<1>4. reconcileUsingTraces(t, prev) = Statement(t, c0, e, c0 + t.trc, d)
  BY Zenon DEF reconcileUsingTraces
<1>5. b0 \in Int /\ c0 \in Int /\ e \in Int /\ t.blk \in Int
         /\ (t.blk # 0 => d = c0 - prev.endBal) /\ (t.blk = 0 => d = 0)
  BY <1>1, <1>2
<1>6. b0 = BalanceAt(IF t.blk = 0 THEN 0 ELSE t.blk - 1) /\ e = BalanceAt(t.blk)
         /\ c0 = IF t.blk = 0 THEN 0 ELSE BalanceAt(t.blk - 1)
  OBVIOUS
<1> HIDE DEF b0, c0, e, d
<1>7. /\ topLine(t, prev) \in StatementType
      /\ topLine(t, prev).blockNumber = t.blk
      /\ topLine(t, prev).begBal = b0
      /\ topLine(t, prev).endBal = e
      /\ topLine(t, prev).endBalCalc = b0 + t.top
      /\ topLine(t, prev).reconciled <=> b0 - prev.endBal = 0 /\ e = b0 + t.top
      /\ b0 - prev.endBal = 0 /\ e = b0 + t.top => topLine(t, prev).amountNet = e - b0
  <2>1. b0 + t.top \in Int /\ b0 - prev.endBal \in Int
    BY <1>1, <1>5
  <2>2. QED
    BY <1>3, <1>5, <2>1, StatementFacts
<1>8. b0 - prev.endBal = 0 <=> b0 = prev.endBal
  BY <1>1, <1>5
<1>9. /\ reconcileUsingTraces(t, prev) \in StatementType
      /\ reconcileUsingTraces(t, prev).blockNumber = t.blk
      /\ reconcileUsingTraces(t, prev).begBal = c0
      /\ reconcileUsingTraces(t, prev).endBal = e
      /\ reconcileUsingTraces(t, prev).endBalCalc = c0 + t.trc
      /\ reconcileUsingTraces(t, prev).reconciled <=> d = 0 /\ e = c0 + t.trc
      /\ d = 0 /\ e = c0 + t.trc => reconcileUsingTraces(t, prev).amountNet = e - c0
  <2>1. c0 + t.trc \in Int /\ d \in Int
    BY <1>1, <1>5
  <2>2. QED
    BY <1>4, <1>5, <2>1, StatementFacts
<1>10. d = 0 <=> t.blk = 0 \/ c0 = prev.endBal
  BY <1>1, <1>5
<1> DEFINE top == topLine(t, prev)
           trc == reconcileUsingTraces(t, prev)
<1>11. /\ top.reconciled <=> top.begBal = prev.endBal /\ top.endBal = top.endBalCalc
       /\ top.reconciled => top.amountNet = top.endBal - top.begBal
       /\ top.endBalCalc = top.begBal + t.top
  BY <1>7, <1>8, Zenon
<1>12. /\ trc.reconciled <=> /\ t.blk = 0 \/ trc.begBal = prev.endBal
                             /\ trc.endBal = trc.endBalCalc
       /\ trc.reconciled => trc.amountNet = trc.endBal - trc.begBal
       /\ trc.endBalCalc = trc.begBal + t.trc
  BY <1>9, <1>10, Zenon
<1>13. QED
  BY <1>1, <1>2, <1>6, <1>7, <1>9, <1>11, <1>12, Zenon

\* What a reconciled statement says: it starts where the last one ended, and its net is
\* what it ends with less that.
LEMMA NumsFacts ==
    ASSUME Exported, NEW t \in TxType, NEW prev \in StatementType, NEW next, NEW nums,
           nums = reconcileEth(t, prev, next), t.blk = 0 => prev.blockNumber = 0
    PROVE  /\ nums \in StatementType
           /\ nums.blockNumber = t.blk
           /\ nums.reconciled =>
                 /\ nums.endBal = nums.endBalCalc
                 /\ nums.amountNet = nums.endBal - nums.begBal
                 /\ \/ nums.begBal = prev.endBal
                    \/ prev.blockNumber = t.blk /\ nums.begBal = prev.endBalCalc
                    \/ t.blk = 0 /\ nums.begBal = 0
                 /\ nums.endBal = BalanceAt(t.blk) \/ t.blk = next
<1> DEFINE top == topLine(t, prev)
           trc == reconcileUsingTraces(t, prev)
<1>0. /\ t.blk \in Nat /\ t.blk \in Int /\ t.trc \in Int
      /\ prev.endBal \in Int /\ prev.endBalCalc \in Int
      /\ \A b : BalanceAt(b) \in Int
      /\ top \in StatementType /\ top.blockNumber = t.blk
      /\ top.begBal = BalanceAt(IF t.blk = 0 THEN 0 ELSE t.blk - 1)
      /\ top.endBal = BalanceAt(t.blk)
      /\ top.reconciled => /\ top.begBal = prev.endBal /\ top.endBal = top.endBalCalc
                           /\ top.amountNet = top.endBal - top.begBal
      /\ trc \in StatementType /\ trc.blockNumber = t.blk
      /\ trc.begBal = IF t.blk = 0 THEN 0 ELSE BalanceAt(t.blk - 1)
      /\ trc.endBal = BalanceAt(t.blk)
      /\ trc.reconciled => /\ t.blk = 0 \/ trc.begBal = prev.endBal
                           /\ trc.endBal = trc.endBalCalc
                           /\ trc.amountNet = trc.endBal - trc.begBal
  <2>1. t.blk \in Nat
    BY NodeFacts
  <2>2. t.blk \in Int
    BY <2>1
  <2>3. QED
    BY <2>1, <2>2, NodeFacts, Zenon
<1> HIDE DEF top, trc
<1>1. CASE nums = top /\ top.reconciled
  BY <1>0, <1>1, Zenon
<1>2. CASE nums = trc
  <2>1. t.blk = 0 => trc.begBal = 0
    BY <1>0, Zenon
  <2>2. QED
    BY <1>0, <1>2, <2>1, Zenon
<1>3. ASSUME prev.blockNumber # t.blk, t.blk = next,
             nums = (LET beg == top.begBal
                     IN Statement(t, beg, beg + t.trc, beg + t.trc,
                                  IF t.blk # 0 THEN beg - prev.endBal ELSE 0))
      PROVE  /\ nums \in StatementType /\ nums.blockNumber = t.blk
             /\ nums.reconciled =>
                   /\ nums.endBal = nums.endBalCalc
                   /\ nums.amountNet = nums.endBal - nums.begBal
                   /\ t.blk = 0 \/ nums.begBal = prev.endBal
  <2> DEFINE beg == top.begBal
             d == IF t.blk # 0 THEN beg - prev.endBal ELSE 0
             calc == beg + t.trc
  <2>1. beg \in Int
    BY <1>0, Zenon
  <2>2. d \in Int /\ calc \in Int /\ (d = 0 => t.blk = 0 \/ beg = prev.endBal)
    BY <1>0, <2>1
  <2>3. nums = Statement(t, beg, calc, calc, d)
    BY <1>3, Zenon
  <2> HIDE DEF beg, d, calc
  <2>4. /\ nums \in StatementType /\ nums.blockNumber = t.blk /\ nums.begBal = beg
        /\ nums.endBal = calc /\ nums.endBalCalc = calc
        /\ (nums.reconciled <=> d = 0)
        /\ (d = 0 => nums.amountNet = calc - beg)
    BY <1>0, <2>1, <2>2, <2>3, StatementFacts
  <2>5. QED
    BY <2>2, <2>4, Zenon
<1>4. ASSUME NEW end \in Int, prev.blockNumber = t.blk,
             nums = Statement(t, prev.endBalCalc, end, prev.endBalCalc + t.trc, 0)
      PROVE  /\ nums \in StatementType /\ nums.blockNumber = t.blk
             /\ nums.endBal = end
             /\ nums.reconciled =>
                   /\ nums.endBal = nums.endBalCalc
                   /\ nums.amountNet = nums.endBal - nums.begBal
                   /\ prev.blockNumber = t.blk /\ nums.begBal = prev.endBalCalc
  <2> DEFINE calc == prev.endBalCalc + t.trc
  <2>1. calc \in Int /\ nums = Statement(t, prev.endBalCalc, end, calc, 0) /\ 0 \in Int
    BY <1>0, <1>4
  <2> HIDE DEF calc
  <2>2. /\ nums \in StatementType /\ nums.blockNumber = t.blk
        /\ nums.begBal = prev.endBalCalc
        /\ nums.endBal = end /\ nums.endBalCalc = calc
        /\ (nums.reconciled <=> end = calc)
        /\ (end = calc => nums.amountNet = end - prev.endBalCalc)
    BY <1>0, <2>1, StatementFacts
  <2>3. QED
    BY <1>4, <2>2, Zenon
<1>5. prev.endBalCalc + t.trc \in Int /\ BalanceAt(t.blk) \in Int
  BY <1>0
<1>6. QED
  <2>1. \/ nums = top /\ top.reconciled
        \/ nums = trc
        \/ /\ prev.blockNumber # t.blk /\ t.blk = next
           /\ nums = (LET beg == top.begBal
                      IN Statement(t, beg, beg + t.trc, beg + t.trc,
                                   IF t.blk # 0 THEN beg - prev.endBal ELSE 0))
        \/ /\ prev.blockNumber = t.blk
           /\ nums = Statement(t, prev.endBalCalc, BalanceAt(t.blk),
                               prev.endBalCalc + t.trc, 0)
        \/ /\ prev.blockNumber = t.blk /\ t.blk = next
           /\ nums = Statement(t, prev.endBalCalc, prev.endBalCalc + t.trc,
                               prev.endBalCalc + t.trc, 0)
    BY Choices, Zenon DEF top, trc
  <2>2. t.blk = 0 => prev.blockNumber = t.blk
    BY Zenon
  <2>3. CASE prev.blockNumber # t.blk /\ t.blk = next
              /\ nums = (LET beg == top.begBal
                         IN Statement(t, beg, beg + t.trc, beg + t.trc,
                                      IF t.blk # 0 THEN beg - prev.endBal ELSE 0))
    BY <1>3, <2>2, <2>3, Zenon
  <2>4. CASE prev.blockNumber = t.blk
              /\ nums = Statement(t, prev.endBalCalc, BalanceAt(t.blk),
                                  prev.endBalCalc + t.trc, 0)
    BY <1>4, <1>5, <2>4, Zenon
  <2>5. CASE prev.blockNumber = t.blk /\ t.blk = next
              /\ nums = Statement(t, prev.endBalCalc, prev.endBalCalc + t.trc,
                                  prev.endBalCalc + t.trc, 0)
    BY <1>4, <1>5, <2>5, Zenon
  <2>6. QED
    BY <1>1, <1>2, <2>1, <2>3, <2>4, <2>5, Zenon

\* The statement of a transaction that shows all it does, when the last one ended with v,
\* the true balance so far: it is reconciled, and ends with the true balance.
LEMMA WholeNums ==
    ASSUME Exported, NEW t \in TxType, NEW prev \in StatementType, NEW next, NEW nums,
           nums = reconcileEth(t, prev, next), NEW v \in Int,
           t.top = t.val, t.trc = t.val, prev.endBal = v,
           t.blk # next => BalanceAt(t.blk) = v + t.val,
           t.blk = 0 => t.blk # next /\ v = 0,
           t.blk # 0 /\ prev.blockNumber # t.blk => BalanceAt(t.blk - 1) = v,
           t.blk # 0 /\ prev.blockNumber = t.blk => prev.endBalCalc = v
    PROVE  nums.reconciled /\ nums.endBal = v + t.val /\ nums.endBalCalc = v + t.val
<1> DEFINE top == topLine(t, prev)
           trc == reconcileUsingTraces(t, prev)
<1>0. /\ t.blk \in Nat /\ t.blk \in Int /\ t.val \in Int
      /\ \A b : BalanceAt(b) \in Int
      /\ top.begBal = BalanceAt(IF t.blk = 0 THEN 0 ELSE t.blk - 1)
      /\ top.endBal = BalanceAt(t.blk)
      /\ top.endBalCalc = top.begBal + t.val
      /\ top.reconciled <=> top.begBal = v /\ top.endBal = top.endBalCalc
      /\ trc.begBal = IF t.blk = 0 THEN 0 ELSE BalanceAt(t.blk - 1)
      /\ trc.endBal = BalanceAt(t.blk)
      /\ trc.endBalCalc = trc.begBal + t.val
      /\ trc.reconciled <=> /\ t.blk = 0 \/ trc.begBal = v
                            /\ trc.endBal = trc.endBalCalc
  <2>1. t.blk \in Nat
    BY NodeFacts
  <2>2. t.blk \in Int
    BY <2>1
  <2>3. /\ \A b : BalanceAt(b) \in Int
        /\ t.val \in Int
        /\ top.begBal = BalanceAt(IF t.blk = 0 THEN 0 ELSE t.blk - 1)
        /\ top.endBal = BalanceAt(t.blk)
        /\ top.endBalCalc = top.begBal + t.top
        /\ top.reconciled <=> top.begBal = prev.endBal /\ top.endBal = top.endBalCalc
        /\ trc.begBal = IF t.blk = 0 THEN 0 ELSE BalanceAt(t.blk - 1)
        /\ trc.endBal = BalanceAt(t.blk)
        /\ trc.endBalCalc = trc.begBal + t.trc
        /\ trc.reconciled <=> /\ t.blk = 0 \/ trc.begBal = prev.endBal
                              /\ trc.endBal = trc.endBalCalc
    BY NodeFacts, Zenon
  <2> HIDE DEF top, trc
  <2>4. QED
    BY <2>1, <2>2, <2>3, Zenon
<1> HIDE DEF top, trc
<1>1. CASE top.reconciled
  <2>1. nums = top
    BY <1>1, Choices, Zenon DEF top
  <2>2. QED
    BY <1>0, <1>1, <2>1
<1>2. CASE ~ top.reconciled /\ trc.reconciled
  <2>1. nums = trc
    BY <1>2, Zenon DEF reconcileEth, top, trc
  <2>2. trc.begBal = v
    BY <1>0, <1>2
  <2>3. QED
    BY <1>0, <1>2, <2>1, <2>2
<1>3. CASE ~ top.reconciled /\ ~ trc.reconciled
  <2>1. t.blk # 0
    <3>1. SUFFICES ASSUME t.blk = 0 PROVE FALSE
      OBVIOUS
    <3>2. trc.begBal = 0 /\ trc.endBal = v + t.val /\ v = 0
      BY <1>0, <3>1
    <3>3. trc.endBalCalc = 0 + t.val
      BY <1>0, <3>2, Zenon
    <3>4. QED
      BY <1>0, <1>3, <3>1, <3>2, <3>3
  <2>2. top.begBal = BalanceAt(t.blk - 1) /\ trc.begBal = BalanceAt(t.blk - 1)
    BY <1>0, <2>1
  <2>3. ~ (prev.blockNumber # t.blk /\ t.blk # next)
    <3>1. SUFFICES ASSUME prev.blockNumber # t.blk, t.blk # next PROVE FALSE
      OBVIOUS
    <3>2. trc.begBal = v /\ trc.endBal = v + t.val
      BY <1>0, <2>1, <2>2, <3>1, Zenon
    <3>3. QED
      BY <1>0, <1>3, <3>2, Zenon
  <2>4. ASSUME prev.blockNumber # t.blk, t.blk = next,
               nums = (LET beg == top.begBal
                       IN Statement(t, beg, beg + t.trc, beg + t.trc,
                                    IF t.blk # 0 THEN beg - prev.endBal ELSE 0))
        PROVE  nums.reconciled /\ nums.endBal = v + t.val /\ nums.endBalCalc = v + t.val
    <3>1. top.begBal = v
      BY <2>1, <2>2, <2>4, Zenon
    <3>2. nums = Statement(t, v, v + t.val, v + t.val, v - v)
      BY <2>1, <2>4, <3>1, Zenon
    <3>3. v + t.val \in Int /\ v - v \in Int /\ v - v = 0
      BY <1>0
    <3>4. QED
      BY <1>0, <3>2, <3>3, StatementFacts
  <2>5. ASSUME NEW end \in Int, end = v + t.val, prev.blockNumber = t.blk,
               nums = Statement(t, prev.endBalCalc, end, prev.endBalCalc + t.trc, 0)
        PROVE  nums.reconciled /\ nums.endBal = v + t.val /\ nums.endBalCalc = v + t.val
    <3>1. prev.endBalCalc = v
      BY <2>1, <2>5, Zenon
    <3>2. nums = Statement(t, v, v + t.val, v + t.val, 0)
      BY <2>5, <3>1, Zenon
    <3>3. v + t.val \in Int /\ 0 \in Int
      BY <1>0
    <3>4. QED
      BY <1>0, <3>2, <3>3, StatementFacts
  <2>6. \/ /\ prev.blockNumber # t.blk /\ t.blk = next
           /\ nums = (LET beg == top.begBal
                      IN Statement(t, beg, beg + t.trc, beg + t.trc,
                                   IF t.blk # 0 THEN beg - prev.endBal ELSE 0))
        \/ /\ prev.blockNumber = t.blk /\ t.blk # next
           /\ nums = Statement(t, prev.endBalCalc, BalanceAt(t.blk),
                               prev.endBalCalc + t.trc, 0)
        \/ /\ prev.blockNumber = t.blk /\ t.blk = next
           /\ nums = Statement(t, prev.endBalCalc, prev.endBalCalc + t.trc,
                               prev.endBalCalc + t.trc, 0)
    BY <1>3, <2>3, Choices, Zenon DEF top, trc
  <2>7. CASE prev.blockNumber # t.blk /\ t.blk = next
              /\ nums = (LET beg == top.begBal
                         IN Statement(t, beg, beg + t.trc, beg + t.trc,
                                      IF t.blk # 0 THEN beg - prev.endBal ELSE 0))
    BY <2>4, <2>7, Zenon
  <2>8. CASE prev.blockNumber = t.blk /\ t.blk # next
              /\ nums = Statement(t, prev.endBalCalc, BalanceAt(t.blk),
                                  prev.endBalCalc + t.trc, 0)
    <3>1. BalanceAt(t.blk) \in Int /\ BalanceAt(t.blk) = v + t.val
      BY <1>0, <2>8, Zenon
    <3>2. QED
      BY <2>5, <2>8, <3>1, Zenon
  <2>9. CASE prev.blockNumber = t.blk /\ t.blk = next
              /\ nums = Statement(t, prev.endBalCalc, prev.endBalCalc + t.trc,
                                  prev.endBalCalc + t.trc, 0)
    <3>1. prev.endBalCalc + t.trc \in Int /\ prev.endBalCalc + t.trc = v + t.val
      <4>1. prev.endBalCalc = v
        BY <2>1, <2>9, Zenon
      <4>2. v + t.val \in Int
        BY <1>0
      <4>3. QED
        BY <4>1, <4>2, Zenon
    <3>2. QED
      BY <2>5, <2>9, <3>1, Zenon
  <2>10. QED
    BY <2>6, <2>7, <2>8, <2>9, Zenon
<1>4. QED
  BY <1>1, <1>2, <1>3, Zenon

-----------------------------------------------------------------------------
(* Sums of the nets *)

LEMMA TotalAppend ==
    ASSUME NEW f \in Seq(Int), NEW x \in Int
    PROVE  /\ Append(f, x) \in Seq(Int) /\ Len(f) \in Nat
           /\ \A n \in 0 .. Len(f) : Total(Append(f, x), n) = Total(f, n)
           /\ Total(Append(f, x), Len(f) + 1) = Total(f, Len(f)) + x
<1> DEFINE g == Append(f, x)
<1>1. g \in Seq(Int) /\ Len(f) \in Nat /\ Len(g) = Len(f) + 1 /\ g[Len(f) + 1] = x
         /\ \A j \in 1 .. Len(f) : f[j] = g[j]
  OBVIOUS
<1> HIDE DEF g
<1>2. ASSUME NEW n \in 0 .. Len(f) PROVE Total(g, n) = Total(f, n)
  <2>1. n \in Nat /\ n <= Len(f) /\ n <= Len(g) /\ \A j \in 1 .. n : f[j] = g[j]
    BY <1>1
  <2>2. QED
    BY <1>1, <2>1, TotalSame
<1>3. Total(g, Len(f) + 1) = Total(g, Len(f)) + x
  <2>1. Len(f) + 1 \in 1 .. Len(g) /\ (Len(f) + 1) - 1 = Len(f)
    BY <1>1
  <2>2. Total(g, Len(f) + 1) = Total(g, (Len(f) + 1) - 1) + g[Len(f) + 1]
    BY <1>1, <2>1, TotalFacts
  <2>3. QED
    BY <1>1, <2>1, <2>2
<1>4. Len(f) \in 0 .. Len(f)
  BY <1>1
<1>5. QED
  BY <1>1, <1>2, <1>3, <1>4 DEF g

MadeType == [tx : Int, nums : StatementType]
TokType == [blockNumber : Int, begBal : Int, endBal : Int, amountNet : Int]
NetOf(S) == [i \in DOMAIN S |-> S[i].nums.amountNet]
TokNetOf(S) == [i \in DOMAIN S |-> S[i].amountNet]

LEMMA NetOfFacts ==
    ASSUME NEW S \in Seq(MadeType)
    PROVE  NetOf(S) \in Seq(Int) /\ Len(NetOf(S)) = Len(S)
<1>1. \A i \in DOMAIN S : S[i] \in MadeType
  OBVIOUS
<1>2. \A x \in MadeType : x.nums.amountNet \in Int
  BY DEF MadeType, StatementType
<1>3. \A i \in DOMAIN S : S[i].nums.amountNet \in Int
  BY <1>1, <1>2, Zenon
<1>4. QED
  BY <1>3 DEF NetOf

LEMMA NetAppend ==
    ASSUME NEW S \in Seq(MadeType), NEW x \in MadeType
    PROVE  NetOf(Append(S, x)) = Append(NetOf(S), x.nums.amountNet)
<1> DEFINE n == Len(S)
           f == NetOf(Append(S, x))
           g == Append(NetOf(S), x.nums.amountNet)
<1>1. n \in Nat /\ NetOf(S) \in Seq(Int) /\ Len(NetOf(S)) = n /\ x.nums.amountNet \in Int
         /\ \A i \in 1 .. n : NetOf(S)[i] = S[i].nums.amountNet
  BY NetOfFacts DEF NetOf, MadeType, StatementType
<1>2. f = [i \in 1 .. n + 1 |-> Append(S, x)[i].nums.amountNet]
  BY DEF NetOf
<1>3. \A i \in 1 .. n + 1 : Append(S, x)[i] = IF i = n + 1 THEN x ELSE S[i]
  OBVIOUS
<1>4. g = [i \in 1 .. n + 1 |-> g[i]] /\ \A i \in 1 .. n + 1 :
         g[i] = IF i = n + 1 THEN x.nums.amountNet ELSE NetOf(S)[i]
  BY <1>1
<1> HIDE DEF f, g, n
<1>5. \A i \in 1 .. n + 1 : f[i] = g[i]
  <2> SUFFICES ASSUME NEW i \in 1 .. n + 1 PROVE f[i] = g[i]
    OBVIOUS
  <2>1. f[i] = Append(S, x)[i].nums.amountNet
    BY <1>2
  <2>2. i # n + 1 => i \in 1 .. n
    BY <1>1
  <2>3. QED
    BY <1>1, <1>3, <1>4, <2>1, <2>2
<1>6. f = g
  BY <1>2, <1>4, <1>5
<1>7. QED
  BY <1>6 DEF f, g

LEMMA TokNetFacts ==
    ASSUME NEW S \in Seq(TokType)
    PROVE  /\ TokNetOf(S) \in Seq(Int) /\ Len(TokNetOf(S)) = Len(S)
           /\ \A x \in TokType : TokNetOf(Append(S, x)) = Append(TokNetOf(S), x.amountNet)
<1>1. TokNetOf(S) \in Seq(Int) /\ Len(TokNetOf(S)) = Len(S)
  <2>1. \A i \in DOMAIN S : S[i] \in TokType
    OBVIOUS
  <2>2. \A x \in TokType : x.amountNet \in Int
    BY DEF TokType
  <2>3. \A i \in DOMAIN S : S[i].amountNet \in Int
    BY <2>1, <2>2, Zenon
  <2>4. QED
    BY <2>3 DEF TokNetOf
<1>2. ASSUME NEW x \in TokType
      PROVE  TokNetOf(Append(S, x)) = Append(TokNetOf(S), x.amountNet)
  <2> DEFINE n == Len(S)
             f == TokNetOf(Append(S, x))
             g == Append(TokNetOf(S), x.amountNet)
  <2>1. n \in Nat /\ x.amountNet \in Int
           /\ \A i \in 1 .. n : TokNetOf(S)[i] = S[i].amountNet
    BY DEF TokNetOf, TokType
  <2>2. f = [i \in 1 .. n + 1 |-> Append(S, x)[i].amountNet]
    BY DEF TokNetOf
  <2>3. \A i \in 1 .. n + 1 : Append(S, x)[i] = IF i = n + 1 THEN x ELSE S[i]
    OBVIOUS
  <2>4. g = [i \in 1 .. n + 1 |-> g[i]] /\ \A i \in 1 .. n + 1 :
           g[i] = IF i = n + 1 THEN x.amountNet ELSE TokNetOf(S)[i]
    BY <1>1, <2>1
  <2> HIDE DEF f, g, n
  <2>5. \A i \in 1 .. n + 1 : f[i] = g[i]
    <3> SUFFICES ASSUME NEW i \in 1 .. n + 1 PROVE f[i] = g[i]
      OBVIOUS
    <3>1. f[i] = Append(S, x)[i].amountNet
      BY <2>2
    <3>2. i # n + 1 => i \in 1 .. n
      BY <2>1
    <3>3. QED
      BY <2>1, <2>3, <2>4, <3>1, <3>2
  <2>6. f = g
    BY <2>2, <2>4, <2>5
  <2>7. QED
    BY <2>6 DEF f, g
<1>3. QED
  BY <1>1, <1>2

-----------------------------------------------------------------------------
(* The books: what is true of the statements made, S, of the balance kept of them, e,   *)
(* of the tokens' statements, T, and of their balance, x, when the traverser is at k.   *)

\* What the first statement of a window starts from.
WindowStart == IF firstRecord = 0 THEN NoStatement
               ELSE Known(apps[1].blk - 1, BalanceAt(apps[1].blk - 1))
NextBlk(k) == IF k < Len(apps) THEN apps[k + 1].blk ELSE NoneAfter

InPlace(S, e, k, T, x) ==
    /\ k \in 0 .. Len(apps) + 1
    /\ e \in StatementType /\ x \in Int
    /\ S \in Seq(MadeType) /\ T \in Seq(TokType)
    /\ Len(S) <= k /\ Len(T) <= Len(S)
    /\ k = 0 => e = NoStatement
    /\ k <= 1 => S = << >>
    /\ k = 1 => e = WindowStart

\* No appearance is left out: there is a statement for each of them, in their order.
OneForEach(S, e, k) ==
    /\ k # 0 => Len(S) = k - 1
    /\ \A i \in 1 .. Len(S) : /\ S[i].tx = firstRecord + i
                              /\ S[i].nums.blockNumber = txs[firstRecord + i].blk
    /\ S # << >> => e = S[Len(S)].nums

\* As long as all are reconciled the nets add up to the balance the last of them ends
\* with, and that is the node's unless more of the block follows.
NetGood(S) ==
    \A n \in 1 .. Len(S) :
        (\A i \in 1 .. n : S[i].nums.reconciled)
        => /\ S[n].nums.endBal = S[n].nums.endBalCalc
           /\ Total(NetOf(S), n) = S[n].nums.endBal
           /\ \/ S[n].nums.endBal = BalanceAt(txs[n].blk)
              \/ n < Len(txs) /\ txs[n + 1].blk = txs[n].blk

\* The statements of transactions that show all they do are true.
Whole == ShowAll /\ ~ how.filters /\ ~ CutsBlock(firstRecord)
             /\ ~ CutsBlock(firstRecord + Len(apps))
WholeGood(S) ==
    \A i \in 1 .. Len(S) : /\ S[i].nums.reconciled
                           /\ S[i].nums.endBal = Total(Vals, firstRecord + i)
                           /\ S[i].nums.endBalCalc = Total(Vals, firstRecord + i)

\* The tokens' nets add up to the node's balance at each of their statements.
TokGood(T, x) ==
    /\ x = Total(TokNetOf(T), Len(T))
    /\ \A n \in 1 .. Len(T) : Total(TokNetOf(T), n) = TokenAt(T[n].blockNumber)

Books(S, e, k, T, x) ==
    /\ InPlace(S, e, k, T, x)
    /\ ~ how.filters => OneForEach(S, e, k)
    /\ ~ how.windows /\ ~ how.filters => NetGood(S)
    /\ Whole => WholeGood(S)
    /\ TokGood(T, x)

\* The appearance that is displayed, and the block of the one after it.
LEMMA Displayed ==
    ASSUME Exported, NEW k \in 1 .. Len(apps), NEW t, t = apps[k], NEW p, p = firstRecord + k
    PROVE  /\ t = txs[p] /\ t \in TxType /\ t.blk \in Int
           /\ p \in 1 .. Len(txs) /\ p \in Int /\ p - 1 \in 0 .. Len(txs)
           /\ t.blk = 0 => p = 1 /\ k = 1 /\ firstRecord = 0
           /\ t.blk = NextBlk(k) => p < Len(txs) /\ txs[p + 1].blk = t.blk
           /\ t.blk # NextBlk(k) /\ ~ CutsBlock(firstRecord + Len(apps))
                 => p = Len(txs) \/ txs[p].blk # txs[p + 1].blk
<1>1. /\ firstRecord \in Nat /\ Len(txs) \in Nat /\ Len(apps) \in Nat
      /\ firstRecord + Len(apps) <= Len(txs)
  BY AppsAre, SMTT(40) DEF Exported
<1>2. p \in 1 .. Len(txs) /\ p \in Int /\ p - 1 \in 0 .. Len(txs) /\ k \in Nat /\ k >= 1
         /\ (p = 1 => k = 1 /\ firstRecord = 0)
  BY <1>1
<1>3. t = txs[p]
  BY AppsAre
<1>4. t \in TxType /\ t.blk \in Int /\ t.blk < NoneAfter
  BY <1>2, <1>3, TxFacts
<1>5. t.blk = 0 => p = 1
  <2>1. SUFFICES ASSUME p # 1 PROVE t.blk # 0
    OBVIOUS
  <2>2. 1 \in 1 .. Len(txs) /\ 1 < p
    BY <1>2, <2>1
  <2>3. t.blk > 0
    BY <1>2, <1>3, <2>2 DEF Exported
  <2>4. QED
    BY <1>4, <2>3
<1>6. CASE k < Len(apps)
  <2>1. k + 1 \in 1 .. Len(apps) /\ firstRecord + (k + 1) = p + 1 /\ p < Len(txs)
    BY <1>1, <1>2, <1>6
  <2>2. apps[k + 1] = txs[p + 1]
    BY <2>1, AppsAre
  <2>3. NextBlk(k) = txs[p + 1].blk
    BY <1>6, <2>2 DEF NextBlk
  <2>4. QED
    BY <1>2, <1>3, <1>4, <1>5, <2>1, <2>3, Zenon
<1>7. CASE ~ (k < Len(apps))
  <2>1. k = Len(apps) /\ NextBlk(k) = NoneAfter /\ firstRecord + Len(apps) = p
    BY <1>1, <1>2, <1>7 DEF NextBlk
  <2>2. t.blk # NextBlk(k)
    <3>1. NoneAfter \in Int
      BY ReconcileConstants DEF NoneAfter
    <3>2. QED
      BY <1>4, <2>1, <3>1
  <2>3. ~ CutsBlock(p) => p = Len(txs) \/ txs[p].blk # txs[p + 1].blk
    <3>1. p # Len(txs) => p \in 1 .. Len(txs) - 1
      BY <1>1, <1>2
    <3>2. QED
      BY <3>1, Zenon DEF CutsBlock
  <2>4. QED
    BY <1>2, <1>3, <1>4, <1>5, <2>1, <2>2, <2>3, Zenon
<1>8. QED
  BY <1>6, <1>7

LEMMA StartFacts ==
    ASSUME Exported
    PROVE  /\ NoStatement \in StatementType /\ WindowStart \in StatementType
           /\ NoStatement.blockNumber = 0 /\ NoStatement.endBal = 0
           /\ NoStatement.endBalCalc = 0
           /\ firstRecord = 0 => WindowStart = NoStatement
           /\ firstRecord # 0 => /\ WindowStart.blockNumber = apps[1].blk - 1
                                 /\ WindowStart.endBal = BalanceAt(apps[1].blk - 1)
<1>1. ASSUME NEW b \in Int, NEW v \in Int
      PROVE  /\ Known(b, v) \in StatementType /\ Known(b, v).blockNumber = b
             /\ Known(b, v).endBal = v /\ Known(b, v).endBalCalc = 0
  BY DEF Known, StatementType
<1> DEFINE b == apps[1].blk - 1
<1>2. b \in Int
  <2>1. 1 \in 1 .. Len(apps)
    BY AppsAre
  <2>2. apps[1].blk \in Int
    <3>1. \A k \in 1 .. Len(apps) : apps[k].blk \in Int
      BY Displayed, Zenon
    <3>2. QED
      BY <2>1, <3>1, Zenon
  <2>3. QED
    BY <2>2
<1>3. BalanceAt(b) \in Int /\ 0 \in Int
  BY BalanceIs
<1>4. WindowStart = IF firstRecord = 0 THEN NoStatement ELSE Known(b, BalanceAt(b))
  BY DEF WindowStart
<1>5. NoStatement = Known(0, 0)
  BY DEF NoStatement
<1> HIDE DEF b
<1>6. QED
  BY <1>1, <1>2, <1>3, <1>4, <1>5 DEF b

\* The statement that is made of the appearance at k, and where that leaves the books.
Made(S, e, k, nums, made) ==
    /\ nums = reconcileEth(apps[k], e, NextBlk(k))
    /\ made = [tx |-> firstRecord + k, nums |-> nums]

\* A reconciled statement starts where the last one ended, and its net is the difference.
Told(e, k, nums) ==
    nums.reconciled =>
        /\ nums.endBal = nums.endBalCalc
        /\ nums.amountNet = nums.endBal - nums.begBal
        /\ \/ nums.begBal = e.endBal
           \/ e.blockNumber = apps[k].blk /\ nums.begBal = e.endBalCalc
           \/ apps[k].blk = 0 /\ nums.begBal = 0
        /\ nums.endBal = BalanceAt(apps[k].blk) \/ apps[k].blk = NextBlk(k)

LEMMA DisplayNums ==
    ASSUME Exported, NEW S, NEW e, NEW k, NEW T, NEW x, InPlace(S, e, k, T, x),
           k \in 1 .. Len(apps), NEW nums, NEW made, Made(S, e, k, nums, made)
    PROVE  /\ made \in MadeType /\ made.tx = firstRecord + k /\ made.nums = nums
           /\ nums \in StatementType
           /\ nums.blockNumber = apps[k].blk
           /\ Told(e, k, nums)
<1> DEFINE t == apps[k]
           next == NextBlk(k)
<1>1. e \in StatementType /\ (k = 1 => e = WindowStart)
  BY DEF InPlace
<1>2. k \in Int /\ firstRecord \in Int
  BY DEF Exported
<1>3. t \in TxType /\ (t.blk = 0 => k = 1 /\ firstRecord = 0)
  BY Displayed, Zenon
<1>4. t.blk = 0 => e.blockNumber = 0
  BY <1>1, <1>3, StartFacts, Zenon
<1>5. nums = reconcileEth(t, e, next)
  BY DEF Made
<1> HIDE DEF t, next
<1>6. /\ nums \in StatementType
      /\ nums.blockNumber = t.blk
      /\ nums.reconciled =>
            /\ nums.endBal = nums.endBalCalc
            /\ nums.amountNet = nums.endBal - nums.begBal
            /\ \/ nums.begBal = e.endBal
               \/ e.blockNumber = t.blk /\ nums.begBal = e.endBalCalc
               \/ t.blk = 0 /\ nums.begBal = 0
            /\ nums.endBal = BalanceAt(t.blk) \/ t.blk = next
  <2>1. e \in StatementType /\ t \in TxType
    BY <1>1, <1>3
  <2>2. QED
    BY <1>4, <1>5, <2>1, NumsFacts
<1>7. made \in MadeType /\ made.tx = firstRecord + k /\ made.nums = nums
  <2>1. firstRecord + k \in Int
    BY <1>2
  <2>2. QED
    BY <1>6, <2>1 DEF Made, MadeType
<1>8. QED
  BY <1>6, <1>7, Zenon DEF t, next, Told

LEMMA DisplayInPlace ==
    ASSUME Exported, NEW S, NEW e, NEW k, NEW T, NEW x, InPlace(S, e, k, T, x),
           k \in 1 .. Len(apps), NEW nums, NEW made, Made(S, e, k, nums, made),
           NEW tn \in TokType, NEW T2, T2 = T \/ T2 = Append(T, tn), NEW x2 \in Int
    PROVE  InPlace(Append(S, made), nums, k + 1, T2, x2)
<1>1. /\ k \in 0 .. Len(apps) + 1
      /\ S \in Seq(MadeType) /\ T \in Seq(TokType)
      /\ Len(S) <= k /\ Len(T) <= Len(S)
  BY DEF InPlace
<1>2. Len(apps) \in Nat /\ k \in Nat /\ k >= 1
  BY AppsAre
<1>3. made \in MadeType /\ nums \in StatementType
  BY DisplayNums, Zenon
<1>4. Append(S, made) \in Seq(MadeType) /\ Len(Append(S, made)) = Len(S) + 1 /\ Len(S) \in Nat
  BY <1>1, <1>3
<1>5. T2 \in Seq(TokType) /\ Len(T2) <= Len(T) + 1 /\ Len(T2) \in Nat /\ Len(T) \in Nat
  <2>1. T \in Seq(TokType) /\ Len(T) \in Nat
    BY <1>1
  <2>2. CASE T2 = T
    BY <2>1, <2>2
  <2>3. CASE T2 = Append(T, tn)
    BY <2>1, <2>3
  <2>4. QED
    BY <2>2, <2>3
<1>6. k + 1 \in 0 .. Len(apps) + 1 /\ k + 1 # 0 /\ k + 1 # 1 /\ ~ (k + 1 <= 1)
  BY <1>2
<1>7. Len(S) + 1 <= k + 1 /\ Len(T2) <= Len(S) + 1
  BY <1>1, <1>2, <1>4, <1>5
<1>8. QED
  BY <1>3, <1>4, <1>5, <1>6, <1>7 DEF InPlace

LEMMA DisplayOneForEach ==
    ASSUME Exported, NEW S, NEW e, NEW k, NEW T, NEW x, InPlace(S, e, k, T, x),
           k \in 1 .. Len(apps), NEW nums, NEW made, Made(S, e, k, nums, made),
           OneForEach(S, e, k)
    PROVE  /\ OneForEach(Append(S, made), nums, k + 1)
           /\ S \in Seq(MadeType) /\ Len(S) = k - 1 /\ k \in Nat /\ k >= 1
<1>1. /\ made \in MadeType /\ made.tx = firstRecord + k /\ made.nums = nums
      /\ nums.blockNumber = apps[k].blk
  BY DisplayNums
<1>2. apps[k].blk = txs[firstRecord + k].blk
  BY AppsAre
<1>3. S \in Seq(MadeType) /\ k \in Nat /\ k >= 1
  BY AppsAre DEF InPlace
<1>4. Len(S) = k - 1
  BY <1>3 DEF OneForEach
<1> DEFINE R == Append(S, made)
<1>5. Len(R) = k /\ Len(R) = (k + 1) - 1 /\ k + 1 # 0 /\ R # << >> /\ R[k] = made
         /\ \A i \in 1 .. k : R[i] = IF i = k THEN made ELSE S[i]
  BY <1>1, <1>3, <1>4
<1> HIDE DEF R
<1>6. ASSUME NEW i \in 1 .. Len(R)
      PROVE  R[i].tx = firstRecord + i /\ R[i].nums.blockNumber = txs[firstRecord + i].blk
  <2>1. CASE i = k
    BY <1>1, <1>2, <1>5, <2>1
  <2>2. CASE i # k
    <3>1. i \in 1 .. Len(S) /\ R[i] = S[i]
      BY <1>3, <1>4, <1>5, <2>2
    <3>2. QED
      BY <3>1 DEF OneForEach
  <2>3. QED
    BY <2>1, <2>2
<1>7. R[Len(R)].nums = nums
  BY <1>1, <1>5
<1>8. OneForEach(R, nums, k + 1)
  BY <1>5, <1>6, <1>7, Zenon DEF OneForEach
<1>9. QED
  BY <1>3, <1>4, <1>8 DEF R

LEMMA DisplayNetGood ==
    ASSUME Exported, NEW S, NEW e, NEW k, NEW T, NEW x, InPlace(S, e, k, T, x),
           k \in 1 .. Len(apps), NEW nums, NEW made, Made(S, e, k, nums, made),
           OneForEach(S, e, k), ~ how.windows, NetGood(S)
    PROVE  NetGood(Append(S, made))
<1>1. /\ made \in MadeType /\ made.tx = firstRecord + k /\ made.nums = nums
      /\ nums \in StatementType
      /\ nums.blockNumber = apps[k].blk
      /\ nums.reconciled =>
            /\ nums.endBal = nums.endBalCalc
            /\ nums.amountNet = nums.endBal - nums.begBal
            /\ \/ nums.begBal = e.endBal
               \/ e.blockNumber = apps[k].blk /\ nums.begBal = e.endBalCalc
               \/ apps[k].blk = 0 /\ nums.begBal = 0
            /\ nums.endBal = BalanceAt(apps[k].blk) \/ apps[k].blk = NextBlk(k)
  <2>1. /\ made \in MadeType /\ made.tx = firstRecord + k /\ made.nums = nums
        /\ nums \in StatementType
        /\ nums.blockNumber = apps[k].blk
        /\ Told(e, k, nums)
    BY DisplayNums
  <2>2. QED
    BY <2>1, Zenon DEF Told
<1>2. /\ S \in Seq(MadeType) /\ Len(S) = k - 1 /\ k \in Nat /\ k >= 1
  BY DisplayOneForEach, Zenon
<1>3. firstRecord = 0 /\ firstRecord + k = k
  BY <1>2 DEF Exported
<1>4. /\ apps[k] = txs[k] /\ (apps[k].blk = 0 => k = 1)
      /\ apps[k].blk = NextBlk(k) => k < Len(txs) /\ txs[k + 1].blk = txs[k].blk
  <2> DEFINE t == apps[k]
             p == firstRecord + k
  <2>1. t = txs[p] /\ (t.blk = 0 => k = 1)
           /\ (t.blk = NextBlk(k) => p < Len(txs) /\ txs[p + 1].blk = t.blk)
    BY Displayed, SMTT(40)
  <2>2. p = k
    BY <1>3
  <2> HIDE DEF t, p
  <2>3. t = txs[k] /\ (t.blk = 0 => k = 1)
           /\ (t.blk = NextBlk(k) => k < Len(txs) /\ txs[k + 1].blk = t.blk)
    BY <2>1, <2>2
  <2>4. t.blk = NextBlk(k) => k < Len(txs) /\ txs[k + 1].blk = txs[k].blk
    BY <2>3, Zenon
  <2>5. QED
    BY <2>3, <2>4, Zenon DEF t
<1> DEFINE R == Append(S, made)
           N(i) == Total(NetOf(R), i)
           M(i) == Total(NetOf(S), i)
<1>5. R \in Seq(MadeType) /\ Len(R) = k /\ R[k] = made
         /\ \A i \in 1 .. k - 1 : R[i] = S[i]
  BY <1>1, <1>2
<1>6. (\A i \in 0 .. k - 1 : N(i) = M(i)) /\ N(k) = M(k - 1) + nums.amountNet
         /\ M(0) = 0
  <2>1. NetOf(R) = Append(NetOf(S), nums.amountNet)
    BY <1>1, <1>2, NetAppend
  <2>2. NetOf(S) \in Seq(Int) /\ Len(NetOf(S)) = k - 1 /\ nums.amountNet \in Int
    BY <1>1, <1>2, NetOfFacts DEF StatementType
  <2>3. Len(NetOf(S)) + 1 = k
    BY <1>2, <2>2
  <2>4. QED
    BY <2>1, <2>2, <2>3, TotalAppend, TotalFacts
<1> HIDE DEF R, N, M
<1>7. SUFFICES ASSUME NEW n \in 1 .. k, \A i \in 1 .. n : R[i].nums.reconciled
               PROVE  /\ R[n].nums.endBal = R[n].nums.endBalCalc
                      /\ N(n) = R[n].nums.endBal
                      /\ \/ R[n].nums.endBal = BalanceAt(txs[n].blk)
                         \/ n < Len(txs) /\ txs[n + 1].blk = txs[n].blk
  <2>1. NetGood(R) <=> \A n \in 1 .. k :
          (\A i \in 1 .. n : R[i].nums.reconciled)
          => /\ R[n].nums.endBal = R[n].nums.endBalCalc
             /\ N(n) = R[n].nums.endBal
             /\ \/ R[n].nums.endBal = BalanceAt(txs[n].blk)
                \/ n < Len(txs) /\ txs[n + 1].blk = txs[n].blk
    BY <1>5, Zenon DEF NetGood, N
  <2>2. QED
    BY <2>1, Zenon DEF R
<1>8. ASSUME NEW j \in 1 .. k - 1, \A i \in 1 .. j : R[i].nums.reconciled
      PROVE  /\ R[j].nums.endBal = R[j].nums.endBalCalc
             /\ N(j) = R[j].nums.endBal
             /\ \/ R[j].nums.endBal = BalanceAt(txs[j].blk)
                \/ j < Len(txs) /\ txs[j + 1].blk = txs[j].blk
  <2>1. j \in 1 .. Len(S) /\ R[j] = S[j] /\ j \in 0 .. k - 1
           /\ \A i \in 1 .. j : i \in 1 .. k - 1
    BY <1>2, <1>5
  <2>2. \A i \in 1 .. j : S[i].nums.reconciled
    BY <1>5, <1>8, <2>1, Zenon
  <2>3. /\ S[j].nums.endBal = S[j].nums.endBalCalc
        /\ M(j) = S[j].nums.endBal
        /\ \/ S[j].nums.endBal = BalanceAt(txs[j].blk)
           \/ j < Len(txs) /\ txs[j + 1].blk = txs[j].blk
    BY <2>1, <2>2, Zenon DEF NetGood, M
  <2>4. N(j) = M(j)
    BY <1>6, <2>1, Zenon
  <2>5. QED
    BY <2>1, <2>3, <2>4, Zenon
<1>9. CASE n # k
  <2>1. n \in 1 .. k - 1
    BY <1>2, <1>9
  <2>2. QED
    BY <1>7, <1>8, <2>1, Zenon
<1>10. CASE n = k
  <2>1. nums.reconciled /\ R[k].nums = nums
    <3>1. k \in 1 .. k
      BY <1>2
    <3>2. R[k].nums.reconciled
      BY <1>7, <1>10, <3>1, Zenon
    <3>3. QED
      BY <1>1, <1>5, <3>2
  <2>2. nums.endBal = BalanceAt(txs[k].blk) \/ (k < Len(txs) /\ txs[k + 1].blk = txs[k].blk)
    BY <1>1, <1>4, <2>1, Zenon
  <2>3. nums.begBal = M(k - 1)
    <3>1. CASE k = 1
      <4>1. S = << >> /\ e = WindowStart
        BY <3>1 DEF InPlace
      <4>2. e.endBal = 0 /\ e.endBalCalc = 0
        BY <1>3, <4>1, StartFacts, Zenon
      <4>3. nums.begBal = 0
        BY <1>1, <2>1, <4>2, Zenon
      <4>4. QED
        BY <1>6, <3>1, <4>3
    <3>2. CASE k # 1
      <4>1. k - 1 \in 1 .. k - 1 /\ \A i \in 1 .. k - 1 : i \in 1 .. k
        BY <1>2, <3>2
      <4>2. \A i \in 1 .. k - 1 : R[i].nums.reconciled
        BY <1>7, <1>10, <4>1, Zenon
      <4>3. R[k - 1].nums.endBal = R[k - 1].nums.endBalCalc
               /\ N(k - 1) = R[k - 1].nums.endBal
        BY <1>8, <4>1, <4>2, Zenon
      <4>4. e = R[k - 1].nums
        <5>1. S # << >> /\ R[k - 1] = S[k - 1]
          BY <1>2, <1>5, <4>1
        <5>2. e = S[Len(S)].nums
          BY <5>1 DEF OneForEach
        <5>3. QED
          BY <1>2, <5>1, <5>2
      <4>5. nums.begBal = e.endBal
        BY <1>1, <1>4, <2>1, <3>2, <4>3, <4>4, Zenon
      <4>6. k - 1 \in 0 .. k - 1
        BY <1>2
      <4>7. QED
        BY <1>6, <4>3, <4>4, <4>5, <4>6, Zenon
    <3>3. QED
      BY <3>1, <3>2
  <2>4. N(k) = nums.endBal
    <3>1. nums.endBal \in Int /\ nums.begBal \in Int
      BY <1>1 DEF StatementType
    <3>2. N(k) = nums.begBal + (nums.endBal - nums.begBal)
      BY <1>1, <1>6, <2>1, <2>3
    <3>3. QED
      BY <3>1, <3>2
  <2>5. nums.endBal = nums.endBalCalc
    BY <1>1, <2>1, Zenon
  <2>6. QED
    BY <1>10, <2>1, <2>2, <2>4, <2>5, Zenon
<1>11. QED
  BY <1>9, <1>10, Zenon

LEMMA DisplayWholeGood ==
    ASSUME Exported, NEW S, NEW e, NEW k, NEW T, NEW x, InPlace(S, e, k, T, x),
           k \in 1 .. Len(apps), NEW nums, NEW made, Made(S, e, k, nums, made),
           OneForEach(S, e, k), Whole, WholeGood(S)
    PROVE  WholeGood(Append(S, made))
<1> DEFINE t == apps[k]
           p == firstRecord + k
           q == p - 1
           V(i) == Total(Vals, i)
           next == NextBlk(k)
<1>1. /\ made \in MadeType /\ made.nums = nums /\ nums \in StatementType
  BY DisplayNums
<1>2. /\ S \in Seq(MadeType) /\ Len(S) = k - 1 /\ k \in Nat /\ k >= 1
  BY DisplayOneForEach
<1>3. /\ firstRecord \in Nat /\ Len(txs) \in Nat
  BY DEF Exported
<1>4. /\ t = txs[p] /\ t \in TxType /\ t.blk \in Int /\ t.val \in Int
      /\ p \in 1 .. Len(txs)
      /\ t.blk = 0 => p = 1 /\ k = 1 /\ firstRecord = 0
      /\ t.blk = next => p < Len(txs) /\ txs[p + 1].blk = t.blk
      /\ t.blk # next => p = Len(txs) \/ txs[p].blk # txs[p + 1].blk
  <2>1. ~ CutsBlock(firstRecord + Len(apps))
    BY DEF Whole
  <2>2. /\ t = txs[p] /\ t \in TxType /\ t.blk \in Int
        /\ p \in 1 .. Len(txs)
        /\ t.blk = 0 => p = 1 /\ k = 1 /\ firstRecord = 0
        /\ t.blk = next => p < Len(txs) /\ txs[p + 1].blk = t.blk
        /\ t.blk # next => p = Len(txs) \/ txs[p].blk # txs[p + 1].blk
    BY <2>1, Displayed, SMTT(40)
  <2>3. t.val \in Int
    BY <2>2 DEF TxType
  <2>4. QED
    BY <2>2, <2>3
<1>5. t.top = t.val /\ t.trc = t.val
  <2>1. p \in DOMAIN txs
    BY <1>4 DEF Exported
  <2>2. QED
    BY <1>4, <2>1 DEF Whole, ShowAll
<1>6. /\ Vals \in Seq(Int) /\ Len(Vals) = Len(txs)
  BY BalanceIs
<1>7. /\ \A i \in 0 .. Len(txs) : V(i) \in Int
      /\ V(0) = 0
      /\ \A i \in 1 .. Len(txs) : V(i) = V(i - 1) + txs[i].val
  <2>1. \A i \in 1 .. Len(txs) : Vals[i] = txs[i].val
    BY DEF Vals, Exported
  <2>2. /\ \A i \in 0 .. Len(Vals) : V(i) \in Int
        /\ V(0) = 0
        /\ \A i \in 1 .. Len(Vals) : V(i) = V(i - 1) + Vals[i]
    BY <1>6, TotalFacts
  <2> HIDE DEF V
  <2>3. QED
    BY <1>6, <2>1, <2>2
<1>8. /\ p = Len(txs) \/ txs[p].blk # txs[p + 1].blk => BalanceAt(txs[p].blk) = V(p)
      /\ \A i \in 0 .. Len(txs) - 1 :
            i = 0 \/ txs[i].blk # txs[i + 1].blk => BalanceAt(txs[i + 1].blk - 1) = V(i)
  BY <1>4, BlockEnds
<1>9. q \in 0 .. Len(txs) - 1 /\ q \in 0 .. Len(txs) /\ q + 1 = p /\ V(q) \in Int
         /\ V(p) = V(q) + t.val
  <2> HIDE DEF V, t
  <2>1. q \in 0 .. Len(txs) - 1 /\ q \in 0 .. Len(txs) /\ q + 1 = p
    BY <1>3, <1>4, SMTT(40)
  <2>2. V(p) = V(p - 1) + txs[p].val
    BY <1>4, <1>7
  <2>3. QED
    BY <1>4, <1>7, <2>1, <2>2
<1>10. q = 0 \/ txs[q].blk # t.blk => BalanceAt(t.blk - 1) = V(q)
  <2> HIDE DEF V, t, q
  <2>1. txs[q + 1] = t
    BY <1>4, <1>9
  <2>2. q = 0 \/ txs[q].blk # txs[q + 1].blk => BalanceAt(txs[q + 1].blk - 1) = V(q)
    BY <1>8, <1>9, Zenon
  <2>3. QED
    BY <2>1, <2>2, Zenon
<1>11. nums = reconcileEth(t, e, next)
  BY DEF Made
<1>12. e \in StatementType /\ (k <= 1 => S = << >>) /\ (k = 1 => e = WindowStart)
  BY DEF InPlace
<1>13. t.blk # next => BalanceAt(t.blk) = V(q) + t.val
  <2> HIDE DEF V, t, q, p, next
  <2>1. QED
    BY <1>4, <1>8, <1>9, Zenon
<1>14. t.blk = 0 => t.blk # next /\ V(q) = 0
  <2>1. SUFFICES ASSUME t.blk = 0 PROVE t.blk # next /\ V(q) = 0
    OBVIOUS
  <2>2. p = 1 /\ q = 0
    BY <1>4, <2>1
  <2>3. t.blk # next
    <3>1. SUFFICES ASSUME t.blk = next PROVE FALSE
      OBVIOUS
    <3>2. p < Len(txs) /\ txs[p + 1].blk = 0
      BY <1>4, <2>1, <3>1
    <3>3. p + 1 \in 1 .. Len(txs) /\ 1 < p + 1 /\ 1 \in 1 .. Len(txs)
      BY <1>3, <2>2, <3>2
    <3>4. txs[p + 1].blk > 0
      BY <3>3 DEF Exported
    <3>5. QED
      BY <3>2, <3>4
  <2>4. V(q) = 0
    BY <1>7, <2>2
  <2>5. QED
    BY <2>3, <2>4
<1>15. /\ e.endBal = V(q)
       /\ t.blk # 0 /\ e.blockNumber # t.blk => BalanceAt(t.blk - 1) = V(q)
       /\ t.blk # 0 /\ e.blockNumber = t.blk => e.endBalCalc = V(q)
  <2>1. CASE k = 1 /\ firstRecord = 0
    <3>1. q = 0 /\ e = NoStatement
      BY <1>12, <2>1, StartFacts
    <3>2. e.endBal = 0 /\ e.endBalCalc = 0 /\ V(q) = 0
      <4>1. e.endBal = 0 /\ e.endBalCalc = 0
        BY <3>1, StartFacts
      <4>2. V(q) = 0
        BY <1>7, <3>1
      <4>3. QED
        BY <4>1, <4>2
    <3> HIDE DEF V, t, q
    <3>3. QED
      BY <1>10, <3>1, <3>2, Zenon
  <2>2. CASE k = 1 /\ firstRecord # 0
    <3>1. e.blockNumber = t.blk - 1 /\ e.endBal = BalanceAt(t.blk - 1)
      BY <1>12, <2>2, StartFacts
    <3>2. q = firstRecord /\ q \in 1 .. Len(txs) - 1
      BY <1>3, <1>9, <2>2
    <3>3. txs[q].blk # t.blk
      <4>1. txs[q].blk # txs[q + 1].blk
        BY <3>2 DEF Whole, CutsBlock
      <4>2. QED
        BY <1>4, <1>9, <4>1
    <3> HIDE DEF V, q, t
    <3>4. e.blockNumber # t.blk
      BY <1>4, <3>1
    <3>5. QED
      BY <1>10, <3>1, <3>3, <3>4, Zenon
  <2>3. CASE k # 1
    <3>1. k - 1 \in 1 .. Len(S) /\ q = firstRecord + (k - 1) /\ S # << >>
      BY <1>2, <1>3, <2>3
    <3>2. e = S[k - 1].nums
      BY <1>2, <3>1 DEF OneForEach
    <3>3. e.blockNumber = txs[q].blk
      BY <3>1, <3>2 DEF OneForEach
    <3>4. e.endBal = V(q) /\ e.endBalCalc = V(q)
      BY <3>1, <3>2 DEF WholeGood
    <3> HIDE DEF V, q, t
    <3>5. QED
      BY <1>10, <3>3, <3>4, Zenon
  <2>4. QED
    BY <2>1, <2>2, <2>3
<1>16. nums.reconciled /\ nums.endBal = V(p) /\ nums.endBalCalc = V(p)
  <2> HIDE DEF V, t, q, p, next
  <2>1. nums.reconciled /\ nums.endBal = V(q) + t.val /\ nums.endBalCalc = V(q) + t.val
    <3> DEFINE v == V(q)
    <3>1. /\ v \in Int /\ e.endBal = v
          /\ t.blk # next => BalanceAt(t.blk) = v + t.val
          /\ t.blk = 0 => t.blk # next /\ v = 0
          /\ t.blk # 0 /\ e.blockNumber # t.blk => BalanceAt(t.blk - 1) = v
          /\ t.blk # 0 /\ e.blockNumber = t.blk => e.endBalCalc = v
      BY <1>9, <1>13, <1>14, <1>15, Zenon
    <3>2. t \in TxType /\ e \in StatementType
      BY <1>4, <1>12
    <3> HIDE DEF v
    <3>3. nums.reconciled /\ nums.endBal = v + t.val /\ nums.endBalCalc = v + t.val
      BY <1>5, <1>11, <3>1, <3>2, WholeNums
    <3>4. QED
      BY <3>3 DEF v
  <2>2. QED
    BY <1>9, <2>1
<1> DEFINE R == Append(S, made)
<1>17. Len(R) = k /\ R[k] = made /\ \A i \in 1 .. k - 1 : R[i] = S[i]
  BY <1>1, <1>2
<1> HIDE DEF R, t, q, next
<1>18. ASSUME NEW i \in 1 .. k
       PROVE  /\ R[i].nums.reconciled
              /\ R[i].nums.endBal = V(firstRecord + i)
              /\ R[i].nums.endBalCalc = V(firstRecord + i)
  <2>1. CASE i = k
    BY <1>1, <1>16, <1>17, <2>1
  <2>2. CASE i # k
    <3>1. i \in 1 .. k - 1 /\ i \in 1 .. Len(S)
      BY <1>2, <2>2
    <3>2. R[i] = S[i]
      BY <1>17, <3>1
    <3>3. QED
      BY <3>1, <3>2 DEF WholeGood
  <2>3. QED
    BY <2>1, <2>2
<1>19. QED
  BY <1>17, <1>18 DEF WholeGood, R

\* The statement of a token: its net takes the balance to the node's.
LEMMA TokNext ==
    ASSUME NEW T \in Seq(TokType), NEW x \in Int, TokGood(T, x), NEW tn \in TokType,
           tn.endBal = TokenAt(tn.blockNumber), tn.amountNet = tn.endBal - x
    PROVE  /\ TokGood(Append(T, tn), tn.endBal)
           /\ tn.amountNet = 0 => tn.endBal = x
<1> DEFINE f == TokNetOf(T)
           R == Append(T, tn)
           N(i) == Total(TokNetOf(R), i)
           m == Len(T)
<1>1. /\ f \in Seq(Int) /\ Len(f) = m /\ m \in Nat
      /\ TokNetOf(R) = Append(f, tn.amountNet)
      /\ tn.amountNet \in Int /\ tn.endBal \in Int
  BY TokNetFacts DEF TokType
<1>2. Len(R) = m + 1 /\ R[m + 1] = tn /\ \A i \in 1 .. m : R[i] = T[i]
  OBVIOUS
<1>3. (\A i \in 0 .. m : N(i) = Total(f, i)) /\ N(m + 1) = Total(f, m) + tn.amountNet
  <2> HIDE DEF f
  <2>1. QED
    BY <1>1, TotalAppend
<1>4. x = Total(f, m) /\ \A n \in 1 .. m : Total(f, n) = TokenAt(T[n].blockNumber)
  BY DEF TokGood
<1> HIDE DEF f, R, N, m
<1>5. N(m + 1) = tn.endBal
  <2>1. N(m + 1) = x + (tn.endBal - x)
    BY <1>3, <1>4
  <2>2. QED
    BY <1>1, <2>1
<1>6. ASSUME NEW n \in 1 .. m + 1 PROVE N(n) = TokenAt(R[n].blockNumber)
  <2>1. CASE n = m + 1
    BY <1>2, <1>5, <2>1
  <2>2. CASE n # m + 1
    <3>1. n \in 1 .. m /\ n \in 0 .. m
      BY <1>1, <2>2
    <3>2. QED
      BY <1>2, <1>3, <1>4, <3>1
  <2>3. QED
    BY <2>1, <2>2
<1>7. TokGood(R, tn.endBal)
  BY <1>2, <1>5, <1>6, Zenon DEF TokGood, N
<1>8. tn.amountNet = 0 => tn.endBal = x
  BY <1>1
<1>9. QED
  BY <1>7, <1>8 DEF R

-----------------------------------------------------------------------------
(* The account stays what it is while it is exported. *)

BalOf(s, b) == Total([i \in DOMAIN s |-> IF s[i].blk <= b THEN s[i].val ELSE 0], Len(s))
TokOf(s, b) == Total([i \in DOMAIN s |-> IF s[i].blk <= b THEN s[i].tok ELSE 0], Len(s))
ValsOf(s) == [i \in DOMAIN s |-> s[i].val]

LEMMA Frame ==
    ASSUME UNCHANGED <<how, txs, firstRecord, maxRecords>>
    PROVE  /\ Exported => Exported'
           /\ apps' = apps /\ Vals' = Vals /\ WindowStart' = WindowStart
           /\ \A b : BalanceAt(b)' = BalanceAt(b) /\ TokenAt(b)' = TokenAt(b)
           /\ Whole' <=> Whole
<1>1. Exported => Exported'
  BY DEF Exported
<1>2. apps' = apps
  BY DEF apps
<1>3. Vals = ValsOf(txs) /\ Vals' = ValsOf(txs')
  BY DEF Vals, ValsOf
<1>4. \A b : /\ BalanceAt(b) = BalOf(txs, b) /\ BalanceAt(b)' = BalOf(txs', b)
             /\ TokenAt(b) = TokOf(txs, b) /\ TokenAt(b)' = TokOf(txs', b)
  BY DEF BalanceAt, BalOf, TokenAt, TokOf
<1>5. WindowStart' = WindowStart
  <2>1. BalanceAt(apps[1].blk - 1) = BalOf(txs, apps[1].blk - 1)
           /\ BalanceAt(apps[1].blk - 1)' = BalOf(txs', apps'[1].blk - 1)
    BY DEF BalanceAt, BalOf
  <2>2. BalanceAt(apps[1].blk - 1) = BalanceAt(apps[1].blk - 1)'
    BY <1>2, <2>1
  <2>3. QED
    BY <1>2, <2>2 DEF WindowStart
<1>6. Whole' <=> Whole
  BY <1>2 DEF Whole, ShowAll, CutsBlock
<1>7. QED
  BY <1>1, <1>2, <1>3, <1>4, <1>5, <1>6

LEMMA BooksFrame ==
    ASSUME UNCHANGED <<how, txs, firstRecord, maxRecords>>,
           Books(stmts', eth', travIndex', tstmts', tok')
    PROVE  Books(stmts, eth, travIndex, tstmts, tok)'
<1>1. InPlace(stmts, eth, travIndex, tstmts, tok)'
  BY Frame DEF Books, InPlace, NoStatement, Known
<1>2. ~ how'.filters => OneForEach(stmts, eth, travIndex)'
  BY Frame DEF Books, OneForEach
<1>3. ~ how'.windows /\ ~ how'.filters => NetGood(stmts)'
  BY Frame DEF Books, NetGood
<1>4. Whole' => WholeGood(stmts)'
  BY Frame DEF Books, WholeGood
<1>5. TokGood(tstmts, tok)'
  BY Frame DEF Books, TokGood
<1>6. QED
  BY <1>1, <1>2, <1>3, <1>4, <1>5 DEF Books

-----------------------------------------------------------------------------
(* The books are kept by every step *)

LEMMA InitBooks ==
    AcctInit => Exported /\ Books(stmts, eth, travIndex, tstmts, tok)
<1> SUFFICES ASSUME AcctInit PROVE Exported /\ Books(stmts, eth, travIndex, tstmts, tok)
  OBVIOUS
<1>1. Exported
  BY ExportedInit
<1>2. travIndex = 0 /\ eth = NoStatement /\ tok = 0 /\ stmts = << >> /\ tstmts = << >>
  BY DEF AcctInit
<1>3. InPlace(stmts, eth, travIndex, tstmts, tok)
  <2>1. NoStatement \in StatementType /\ Len(apps) \in Nat
    BY <1>1, AppsAre, StartFacts
  <2>2. QED
    BY <1>2, <2>1 DEF InPlace
<1>4. OneForEach(stmts, eth, travIndex) /\ NetGood(stmts) /\ WholeGood(stmts)
  BY <1>2 DEF OneForEach, NetGood, WholeGood
<1>5. TokGood(tstmts, tok)
  <2>1. tstmts \in Seq(TokType) /\ Len(tstmts) = 0
    BY <1>2
  <2>2. TokNetOf(tstmts) \in Seq(Int)
    BY <2>1, TokNetFacts
  <2>3. Total(TokNetOf(tstmts), 0) = 0
    BY <2>2, TotalFacts
  <2>4. QED
    BY <1>2, <2>1, <2>3 DEF TokGood
<1>6. QED
  BY <1>1, <1>3, <1>4, <1>5 DEF Books

LEMMA PreBooks ==
    ASSUME Exported, NEW S, NEW e, NEW T, NEW x, Books(S, e, 0, T, x)
    PROVE  Books(S, WindowStart, 1, T, x)
<1>1. InPlace(S, WindowStart, 1, T, x) /\ S = << >>
  <2>1. WindowStart \in StatementType /\ 1 \in 0 .. Len(apps) + 1
    BY AppsAre, StartFacts
  <2>2. QED
    BY <2>1 DEF Books, InPlace
<1>2. OneForEach(S, WindowStart, 1)
  BY <1>1 DEF OneForEach
<1>3. QED
  BY <1>1, <1>2 DEF Books

LEMMA SkipBooks ==
    ASSUME Exported, NEW S, NEW e, NEW k, NEW T, NEW x, Books(S, e, k, T, x),
           how.filters, k \in 1 .. Len(apps)
    PROVE  Books(S, e, k + 1, T, x)
<1>1. InPlace(S, e, k + 1, T, x)
  <2>1. Len(apps) \in Nat /\ k \in Nat /\ S \in Seq(MadeType)
    BY AppsAre DEF Books, InPlace
  <2>2. k + 1 \in 0 .. Len(apps) + 1 /\ k + 1 # 0 /\ k + 1 # 1 /\ ~ (k + 1 <= 1)
    BY <2>1
  <2>3. Len(S) <= k + 1
    <3>1. Len(S) <= k /\ Len(S) \in Nat
      BY <2>1 DEF Books, InPlace
    <3>2. QED
      BY <2>1, <3>1
  <2>4. QED
    BY <2>2, <2>3 DEF Books, InPlace
<1>2. ~ Whole
  BY DEF Whole
<1>3. QED
  BY <1>1, <1>2 DEF Books

LEMMA DisplayBooks ==
    ASSUME Exported, NEW S, NEW e, NEW k, NEW T, NEW x, Books(S, e, k, T, x),
           k \in 1 .. Len(apps), NEW nums, NEW made, Made(S, e, k, nums, made),
           NEW tn \in TokType, tn.endBal = TokenAt(tn.blockNumber),
           tn.amountNet = tn.endBal - x, NEW T2, NEW x2,
           \/ T2 = T /\ x2 = x
           \/ T2 = Append(T, tn) /\ x2 = tn.endBal
           \/ T2 = T /\ x2 = tn.endBal /\ tn.amountNet = 0
    PROVE  Books(Append(S, made), nums, k + 1, T2, x2)
<1>1. InPlace(S, e, k, T, x) /\ T \in Seq(TokType) /\ x \in Int /\ TokGood(T, x)
  BY DEF Books, InPlace
<1>2. TokGood(T2, x2) /\ x2 \in Int /\ (T2 = T \/ T2 = Append(T, tn))
  <2>1. TokGood(Append(T, tn), tn.endBal) /\ (tn.amountNet = 0 => tn.endBal = x)
    BY <1>1, TokNext
  <2>2. tn.endBal \in Int
    BY DEF TokType
  <2>3. QED
    BY <1>1, <2>1, <2>2, Zenon
<1>3. InPlace(Append(S, made), nums, k + 1, T2, x2)
  BY <1>1, <1>2, DisplayInPlace
<1>4. ~ how.filters => OneForEach(Append(S, made), nums, k + 1)
  BY <1>1, DisplayOneForEach DEF Books
<1>5. ~ how.windows /\ ~ how.filters => NetGood(Append(S, made))
  BY <1>1, DisplayNetGood DEF Books
<1>6. Whole => WholeGood(Append(S, made))
  <2>1. Whole => OneForEach(S, e, k) /\ WholeGood(S)
    BY DEF Books, Whole
  <2>2. QED
    BY <1>1, <2>1, DisplayWholeGood
<1>7. QED
  BY <1>2, <1>3, <1>4, <1>5, <1>6 DEF Books

LEMMA AcctStep ==
    Exported /\ Books(stmts, eth, travIndex, tstmts, tok) /\ [AcctNext]_acctVars
        => Exported' /\ Books(stmts, eth, travIndex, tstmts, tok)'
<1> SUFFICES ASSUME Exported, Books(stmts, eth, travIndex, tstmts, tok), [AcctNext]_acctVars
             PROVE  Exported' /\ Books(stmts, eth, travIndex, tstmts, tok)'
  OBVIOUS
<1>1. UNCHANGED <<how, txs, firstRecord, maxRecords>>
  BY DEF AcctNext, acctVars, acct_Pre, acct_Display, Skip
<1>2. Exported'
  BY <1>1, Frame
<1>3. SUFFICES Books(stmts', eth', travIndex', tstmts', tok')
  BY <1>1, <1>2, BooksFrame
<1>4. CASE UNCHANGED acctVars
  BY <1>4 DEF acctVars
<1>5. CASE acct_Pre
  <2>1. travIndex = 0 /\ travIndex' = 1 /\ UNCHANGED <<tok, stmts, tstmts>>
    BY <1>5 DEF acct_Pre
  <2>2. eth = NoStatement
    BY <2>1 DEF Books, InPlace
  <2>3. eth' = WindowStart
    BY <1>5, <2>2 DEF acct_Pre, WindowStart
  <2>4. Books(stmts, WindowStart, 1, tstmts, tok)
    BY <2>1, PreBooks
  <2>5. QED
    BY <2>1, <2>3, <2>4
<1>6. CASE Skip
  <2>1. /\ how.filters /\ travIndex \in 1 .. Len(apps)
        /\ travIndex' = travIndex + 1 /\ UNCHANGED <<eth, tok, stmts, tstmts>>
    BY <1>6, AppsAre DEF Skip
  <2>2. Books(stmts, eth, travIndex + 1, tstmts, tok)
    BY <2>1, SkipBooks
  <2>3. QED
    BY <2>1, <2>2
<1>7. CASE acct_Display
  <2> DEFINE k == travIndex
             nums == reconcileEth(apps[k], eth, NextBlk(k))
             made == [tx |-> firstRecord + k, nums |-> nums]
             tn == tokenStatement(apps[k])
  <2>1. k \in 1 .. Len(apps) /\ travIndex' = k + 1
    BY <1>7, AppsAre DEF acct_Display
  <2>2. process_reconciliation(apps[k], NextBlk(k))
    BY <1>7 DEF acct_Display, NextBlk
  <2>3. eth' = nums /\ stmts' = Append(stmts, made)
    BY <2>2 DEF process_reconciliation
  <2>4. /\ tok' = IF apps[k].log THEN tn.endBal ELSE tok
        /\ tstmts' = IF apps[k].log /\ tn.amountNet # 0 THEN Append(tstmts, tn) ELSE tstmts
    BY <2>2 DEF process_reconciliation
  <2>5. Made(stmts, eth, k, nums, made)
    BY DEF Made
  <2>6. /\ tn \in TokType /\ tn.endBal = TokenAt(tn.blockNumber)
        /\ tn.amountNet = tn.endBal - tok
    <3> DEFINE b == apps[k].blk
               end == TokenAt(b)
    <3>1. b \in Int
      BY <2>1, Displayed
    <3>2. end \in Int /\ tok \in Int
      BY BalanceIs DEF Books, InPlace
    <3>3. tn = [blockNumber |-> b, begBal |-> tok, endBal |-> end, amountNet |-> end - tok]
      BY DEF tokenStatement
    <3> HIDE DEF tn, b, end
    <3>4. /\ tn \in TokType /\ tn.endBal = end /\ tn.blockNumber = b
          /\ tn.amountNet = tn.endBal - tok
      BY <3>1, <3>2, <3>3 DEF TokType
    <3>5. end = TokenAt(b)
      BY DEF end
    <3>6. QED
      BY <3>4, <3>5
  <2> HIDE DEF k, nums, made, tn
  <2>7. \/ tstmts' = tstmts /\ tok' = tok
        \/ tstmts' = Append(tstmts, tn) /\ tok' = tn.endBal
        \/ tstmts' = tstmts /\ tok' = tn.endBal /\ tn.amountNet = 0
    BY <2>4
  <2>8. Books(stmts, eth, k, tstmts, tok)
    BY DEF k
  <2>9. Books(Append(stmts, made), nums, k + 1, tstmts', tok')
    BY <2>1, <2>5, <2>6, <2>7, <2>8, DisplayBooks
  <2>10. QED
    BY <2>1, <2>3, <2>9
<1>8. QED
  BY <1>4, <1>5, <1>6, <1>7 DEF AcctNext

\* The ether statements: reconcileEth and process_reconciliation keep the books.
THEOREM BooksAreBalanced == AcctSpec => []BooksBalance
<1> DEFINE Inv == Exported /\ Books(stmts, eth, travIndex, tstmts, tok)
<1>1. AcctInit => Inv
  BY InitBooks
<1>2. Inv /\ [AcctNext]_acctVars => Inv'
  BY AcctStep
<1>3. Inv => BooksBalance
  <2> SUFFICES ASSUME Exported, Books(stmts, eth, travIndex, tstmts, tok)
               PROVE  AcctTypeOK /\ WholeBlocksReconcile /\ NetsAddUp
    BY DEF BooksBalance
  <2>0. /\ stmts \in Seq(MadeType) /\ DOMAIN stmts = 1 .. Len(stmts)
        /\ InPlace(stmts, eth, travIndex, tstmts, tok)
    BY DEF Books, InPlace
  <2>1. AcctTypeOK
    <3>1. how.filters \/ travIndex = 0 \/ Len(stmts) = travIndex - 1
      <4>1. ~ how.filters => OneForEach(stmts, eth, travIndex)
        BY DEF Books
      <4>2. QED
        BY <4>1 DEF OneForEach
    <3>2. QED
      BY <2>0, <3>1 DEF InPlace, AcctTypeOK, StatementType
  <2>2. WholeBlocksReconcile
    <3>1. Whole => WholeGood(stmts)
      BY DEF Books
    <3>2. Whole => AllReconcile
      BY <2>0, <3>1 DEF WholeGood, AllReconcile
    <3>3. QED
      BY <3>2, Zenon DEF WholeBlocksReconcile, Whole
  <2>3. NetsAddUp
    <3> SUFFICES ASSUME ~ how.windows, ~ how.filters, NEW n \in DOMAIN stmts,
                        \A i \in 1 .. n : stmts[i].nums.reconciled,
                        \/ stmts[n].tx = Len(txs)
                        \/ txs[stmts[n].tx + 1].blk # stmts[n].nums.blockNumber
                 PROVE  Nets(n) = BalanceAt(stmts[n].nums.blockNumber)
      BY Zenon DEF NetsAddUp
    <3>1. OneForEach(stmts, eth, travIndex) /\ NetGood(stmts)
      BY DEF Books
    <3>2. n \in 1 .. Len(stmts) /\ n \in Int
      BY <2>0
    <3>3. firstRecord + n = n
      BY <3>2 DEF Exported
    <3>4. stmts[n].tx = n /\ stmts[n].nums.blockNumber = txs[n].blk
      BY <3>1, <3>2, <3>3 DEF OneForEach
    <3>5. Nets(n) = Total(NetOf(stmts), n)
      BY DEF Nets, NetOf
    <3>6. /\ Total(NetOf(stmts), n) = stmts[n].nums.endBal
          /\ \/ stmts[n].nums.endBal = BalanceAt(txs[n].blk)
             \/ n < Len(txs) /\ txs[n + 1].blk = txs[n].blk
      BY <3>1, <3>2, Zenon DEF NetGood
    <3>7. ~ (n < Len(txs) /\ txs[n + 1].blk = txs[n].blk)
      <4>1. Len(txs) \in Nat
        BY DEF Exported
      <4>2. QED
        BY <3>2, <3>4, <4>1
    <3>8. QED
      BY <3>4, <3>5, <3>6, <3>7, Zenon
  <2>4. QED
    BY <2>1, <2>2, <2>3
<1>4. QED
  BY <1>1, <1>2, <1>3, PTL DEF AcctSpec

\* The statements of tokens: process_reconciliation remembers the balance of a token
\* also when it makes no statement of it.
THEOREM TokensAreAddedUp == AcctSpec => []TokensAddUp
<1> DEFINE Inv == Exported /\ Books(stmts, eth, travIndex, tstmts, tok)
<1>1. AcctInit => Inv
  BY InitBooks
<1>2. Inv /\ [AcctNext]_acctVars => Inv'
  BY AcctStep
<1>3. Inv => TokensAddUp
  <2> DEFINE b == apps[1].blk - 1
             f == [i \in DOMAIN txs |-> IF txs[i].blk <= b THEN txs[i].tok ELSE 0]
  <2> SUFFICES ASSUME Exported, Books(stmts, eth, travIndex, tstmts, tok), ~ how.windows,
                      NEW n \in DOMAIN tstmts
               PROVE  Total([i \in DOMAIN tstmts |-> tstmts[i].amountNet], n)
                        = TokenAt(tstmts[n].blockNumber) - TokenAt(b)
    BY Zenon DEF TokensAddUp
  <2>1. tstmts \in Seq(TokType) /\ TokGood(tstmts, tok)
    BY DEF Books, InPlace
  <2>2. Total(TokNetOf(tstmts), n) = TokenAt(tstmts[n].blockNumber)
    <3>1. n \in 1 .. Len(tstmts)
      BY <2>1
    <3>2. QED
      BY <2>1, <3>1 DEF TokGood
  <2>3. TokNetOf(tstmts) = [i \in DOMAIN tstmts |-> tstmts[i].amountNet]
    BY DEF TokNetOf
  <2>4. TokenAt(b) = 0
    <3>1. Len(txs) \in Nat \ {0} /\ firstRecord = 0 /\ txs \in Seq(TxType)
             /\ DOMAIN txs = 1 .. Len(txs)
      BY DEF Exported
    <3>2. apps[1] = txs[1]
      <4>1. 1 \in 1 .. Len(apps) /\ firstRecord + 1 = 1
        <5>1. Len(apps) \in Nat \ {0}
          BY AppsAre, Zenon
        <5>2. QED
          BY <3>1, <5>1
      <4>2. apps[1] = txs[firstRecord + 1]
        BY <4>1, AppsAre, Zenon
      <4>3. QED
        BY <4>1, <4>2
    <3>3. \A i \in 1 .. Len(txs) : ~ (txs[i].blk <= b)
      <4> SUFFICES ASSUME NEW i \in 1 .. Len(txs) PROVE ~ (txs[i].blk <= b)
        OBVIOUS
      <4>1. 1 \in 1 .. Len(txs) /\ (i = 1 \/ 1 < i)
        BY <3>1
      <4>2. txs[1].blk \in Int /\ txs[i].blk \in Int
        BY <4>1, TxFacts
      <4>3. txs[1].blk <= txs[i].blk
        <5>1. CASE i = 1
          BY <4>2, <5>1
        <5>2. CASE 1 < i
          BY <4>1, <5>2 DEF Exported
        <5>3. QED
          BY <4>1, <5>1, <5>2
      <4>4. b = txs[1].blk - 1
        BY <3>2
      <4>5. QED
        BY <4>2, <4>3, <4>4
    <3>4. f = [i \in 1 .. Len(txs) |-> 0]
      BY <3>1, <3>3
    <3>5. f \in Seq(Int) /\ Len(f) = Len(txs) /\ \A i \in 1 .. Len(txs) : f[i] = 0
      <4> HIDE DEF f
      <4>1. QED
        BY <3>1, <3>4
    <3>6. TokenAt(b) = Total(f, Len(txs))
      BY DEF TokenAt
    <3> HIDE DEF f, b
    <3>7. 0 \in 0 .. Len(f) /\ \A j \in 0 + 1 .. Len(f) : f[j] = 0
      BY <3>1, <3>5
    <3>8. Total(f, Len(f)) = Total(f, 0) /\ Total(f, 0) = 0
      BY <3>5, <3>7, TotalRest, TotalFacts
    <3>9. QED
      BY <3>5, <3>6, <3>8
  <2>5. TokenAt(tstmts[n].blockNumber) \in Int
    BY BalanceIs
  <2> HIDE DEF b
  <2>6. QED
    BY <2>2, <2>3, <2>4, <2>5
<1>4. QED
  BY <1>1, <1>2, <1>3, PTL DEF AcctSpec
=============================================================================
