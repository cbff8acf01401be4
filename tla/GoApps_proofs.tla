---------------------------- MODULE GoApps_proofs ----------------------------
(***************************************************************************)
(* The Go programs, for any number of blocks, goroutines, connections,     *)
(* commands and chunks: blaze keeps its contract with blockScrape, flame's *)
(* switch survives restarts, its websockets get every message in order,    *)
(* and acctScrape2 prints what is found in each chunk once.                *)
(***************************************************************************)
EXTENDS GoApps, FiniteSetTheorems, SequenceTheorems, TLAPS

-----------------------------------------------------------------------------
(* blaze *)

\* Where main is tells which channels are closed and which pools have ended.
MainInv ==
    /\ blockClosed <=> main # "feed"
    /\ addrClosed <=> main \in {"addressWG", "done"}
    /\ main # "feed" => block = StartBlock + NBlocks
    /\ \A p \in BlockProcs : bproc[p] = "done" => blockClosed
    /\ main \in {"addressWG", "done"} => \A p \in BlockProcs : bproc[p] = "done"
    /\ main = "done" => \A q \in AddrProcs : aproc[q] = "done"

\* A goroutine has a block exactly while it is working on one that was fed.
HandsInv ==
    /\ \A p \in BlockProcs : bproc[p] \in {"query", "send"} <=> bnum[p] # NoBlock
    /\ \A p \in BlockProcs : bnum[p] # NoBlock => bnum[p] < block
    /\ \A q \in AddrProcs : aproc[q] \in {"extract", "write"} <=> anum[q] # NoBlock
    /\ \A q \in AddrProcs : anum[q] # NoBlock => anum[q] < block
    /\ \A q \in AddrProcs : aproc[q] = "write" => anum[q] \notin EmptyBlocks
    /\ \A b \in torn : \E q \in AddrProcs : aproc[q] = "write" /\ anum[q] = b

Inv == TypeOK /\ MainInv /\ HandsInv /\ OnePlace

LEMMA InitInv == Init => Inv
  <1> SUFFICES ASSUME Init PROVE Inv
    OBVIOUS
  <1>1. TypeOK
    <2>1. block \in StartBlock .. StartBlock + NBlocks
      BY BlazeConstants DEF Init
    <2>2. /\ bproc \in [BlockProcs -> {"receive", "query", "send", "done"}]
          /\ aproc \in [AddrProcs -> {"receive", "extract", "write", "done"}]
      BY DEF Init
    <2>3. bnum \in [BlockProcs -> BlockRange \cup {NoBlock}] /\ anum \in [AddrProcs -> BlockRange \cup {NoBlock}]
      BY DEF Init
    <2> QED BY <2>1, <2>2, <2>3 DEF Init, TypeOK
  <1>2. MainInv
    BY DEF Init, MainInv
  <1>3. HandsInv
    BY DEF Init, HandsInv, NoBlock
  <1>4. OnePlace
    <2>1. \A b \in BlockRange : ~ (b < block)
      BY BlazeConstants DEF Init, BlockRange
    <2> QED BY <2>1 DEF Init, OnePlace
  <1> QED BY <1>1, <1>2, <1>3, <1>4 DEF Inv

LEMMA FeedInv == ASSUME Inv, NEW p \in BlockProcs, Feed(p) PROVE Inv'
  <1>1. TypeOK'
    BY BlazeConstants DEF Inv, TypeOK, Feed, BlockRange, NoBlock, procs, files
  <1>2. MainInv'
    BY DEF Inv, TypeOK, MainInv, Feed, files
  <1>3. block \in BlockRange /\ block \in Int /\ block # NoBlock /\ block' = block + 1
    BY BlazeConstants DEF Inv, TypeOK, Feed, BlockRange, NoBlock
  <1>4. HandsInv'
    BY <1>3, BlazeConstants DEF Inv, TypeOK, HandsInv, Feed, BlockRange, NoBlock, files
  <1>5. OnePlace'
    <2>1. bnum' = [bnum EXCEPT ![p] = block] /\ bnum \in [BlockProcs -> BlockRange \cup {NoBlock}]
          /\ UNCHANGED <<anum, ripe, unripe, hexNamed>> /\ anum \in [AddrProcs -> BlockRange \cup {NoBlock}]
          /\ bnum[p] = NoBlock
      BY DEF Inv, TypeOK, Feed, files, HandsInv
    <2>2. \A r \in BlockProcs : bnum[r] # block
      BY <1>3, <2>1, BlazeConstants DEF Inv, HandsInv, BlockRange, NoBlock
    <2>3. \A q \in AddrProcs : anum[q] # block
      BY <1>3, <2>1, BlazeConstants DEF Inv, HandsInv, BlockRange, NoBlock
    <2>4. \A r \in BlockProcs : bnum'[r] = IF r = p THEN block ELSE bnum[r]
      BY <2>1
    <2>5. \A b \in BlockRange : b < block' /\ b # block => b < block
      BY <1>3, BlazeConstants DEF BlockRange
    <2>6. \A r \in BlockProcs, q \in AddrProcs : bnum'[r] # NoBlock => bnum'[r] # anum'[q]
      BY <2>1, <2>3, <2>4 DEF Inv, OnePlace
    <2>7. \A r, t \in BlockProcs : bnum'[r] # NoBlock /\ bnum'[r] = bnum'[t] => r = t
      BY <2>2, <2>4 DEF Inv, OnePlace
    <2>8. \A r, t \in AddrProcs : anum'[r] # NoBlock /\ anum'[r] = anum'[t] => r = t
      BY <2>1 DEF Inv, OnePlace
    <2>9. \A b \in BlockRange : b < block' /\ b \notin EmptyBlocks =>
             \/ \E r \in BlockProcs : bnum'[r] = b
             \/ \E q \in AddrProcs : anum'[q] = b
             \/ b \in ripe' \cup unripe' \cup hexNamed'
      <3> SUFFICES ASSUME NEW b \in BlockRange, b < block', b \notin EmptyBlocks
                   PROVE  \/ \E r \in BlockProcs : bnum'[r] = b
                          \/ \E q \in AddrProcs : anum'[q] = b
                          \/ b \in ripe' \cup unripe' \cup hexNamed'
        OBVIOUS
      <3>1. CASE b = block
        BY <3>1, <2>4
      <3>2. CASE b # block
        <4>1. \/ \E r \in BlockProcs : bnum[r] = b
              \/ \E q \in AddrProcs : anum[q] = b
              \/ b \in ripe \cup unripe \cup hexNamed \cup hexNamed
          BY <3>2, <2>5 DEF Inv, OnePlace
        <4>2. \A r \in BlockProcs : bnum[r] = b => bnum'[r] = b
          BY <2>1, <2>4, <1>3, BlazeConstants DEF BlockRange, NoBlock
        <4> QED BY <4>1, <4>2, <2>1
      <3> QED BY <3>1, <3>2
    <2> QED
      BY <2>6, <2>7, <2>8, <2>9 DEF OnePlace
  <1> QED BY <1>1, <1>2, <1>4, <1>5 DEF Inv

LEMMA SendInv ==
  ASSUME Inv, NEW p \in BlockProcs, NEW q \in AddrProcs, SendBlock(p, q) PROVE Inv'
  <1>0. /\ bproc' = [bproc EXCEPT ![p] = "receive"] /\ bnum' = [bnum EXCEPT ![p] = NoBlock]
        /\ aproc' = [aproc EXCEPT ![q] = "extract"] /\ anum' = [anum EXCEPT ![q] = bnum[p]]
        /\ UNCHANGED <<main, block, blockClosed, addrClosed, ripe, unripe, hexNamed, torn, exited>>
        /\ bproc[p] = "send" /\ aproc[q] = "receive" /\ ~ addrClosed
    BY DEF SendBlock, files
  <1>1. bnum[p] \in BlockRange /\ bnum[p] # NoBlock /\ anum[q] = NoBlock
    BY <1>0 DEF Inv, TypeOK, HandsInv
  <1>2. TypeOK'
    BY <1>0, <1>1 DEF Inv, TypeOK
  <1>3. MainInv'
    BY <1>0 DEF Inv, TypeOK, MainInv
  <1>4. HandsInv'
    BY <1>0, <1>1 DEF Inv, TypeOK, HandsInv
  <1>5. OnePlace'
    <2>1. \A r \in BlockProcs : bnum'[r] = IF r = p THEN NoBlock ELSE bnum[r]
      BY <1>0 DEF Inv, TypeOK
    <2>2. \A r \in AddrProcs : anum'[r] = IF r = q THEN bnum[p] ELSE anum[r]
      BY <1>0 DEF Inv, TypeOK
    <2> QED
      BY <1>0, <1>1, <2>1, <2>2 DEF Inv, OnePlace
  <1> QED BY <1>2, <1>3, <1>4, <1>5 DEF Inv

LEMMA NothingInv == ASSUME Inv, NEW q \in AddrProcs, ExtractNothing(q) PROVE Inv'
  <1>0. /\ aproc' = [aproc EXCEPT ![q] = "receive"] /\ anum' = [anum EXCEPT ![q] = NoBlock]
        /\ UNCHANGED <<main, block, blockClosed, addrClosed, bproc, bnum, ripe, unripe, hexNamed, torn, exited>>
        /\ aproc[q] = "extract" /\ anum[q] \in EmptyBlocks
    BY DEF ExtractNothing, files
  <1>1. TypeOK'
    BY <1>0 DEF Inv, TypeOK
  <1>2. MainInv'
    BY <1>0 DEF Inv, TypeOK, MainInv
  <1>3. HandsInv'
    BY <1>0 DEF Inv, TypeOK, HandsInv
  <1>4. OnePlace'
    <2>1. \A r \in AddrProcs : anum'[r] = IF r = q THEN NoBlock ELSE anum[r]
      BY <1>0 DEF Inv, TypeOK
    <2> QED
      BY <1>0, <2>1 DEF Inv, OnePlace
  <1> QED BY <1>1, <1>2, <1>3, <1>4 DEF Inv

LEMMA CreateInv == ASSUME Inv, NEW q \in AddrProcs, CreateFile(q) PROVE Inv'
  <1>0. /\ aproc' = [aproc EXCEPT ![q] = "write"] /\ torn' = torn \cup {anum[q]}
        /\ UNCHANGED <<main, block, blockClosed, addrClosed, bproc, bnum, anum, ripe, unripe, hexNamed, exited>>
        /\ aproc[q] = "extract" /\ anum[q] \notin EmptyBlocks
    BY DEF CreateFile
  <1>1. anum[q] \in BlockRange
    BY <1>0 DEF Inv, TypeOK, HandsInv
  <1>2. TypeOK'
    BY <1>0, <1>1 DEF Inv, TypeOK
  <1>3. MainInv'
    BY <1>0 DEF Inv, TypeOK, MainInv
  <1>4. HandsInv'
    BY <1>0 DEF Inv, TypeOK, HandsInv
  <1>5. OnePlace'
    BY <1>0 DEF Inv, OnePlace
  <1> QED BY <1>2, <1>3, <1>4, <1>5 DEF Inv

LEMMA WriteInv == ASSUME Inv, NEW q \in AddrProcs, WriteFile(q) PROVE Inv'
  <1>0. /\ aproc' = [aproc EXCEPT ![q] = "receive"] /\ anum' = [anum EXCEPT ![q] = NoBlock]
        /\ torn' = torn \ {anum[q]}
        /\ UNCHANGED <<main, block, blockClosed, addrClosed, bproc, bnum, exited>>
        /\ aproc[q] = "write"
    BY DEF WriteFile
  <1>1. anum[q] \in BlockRange /\ anum[q] # NoBlock /\ anum[q] \notin EmptyBlocks
    BY <1>0 DEF Inv, TypeOK, HandsInv
  <1>f. /\ ripe \subseteq ripe' /\ unripe \subseteq unripe' /\ hexNamed \subseteq hexNamed'
        /\ anum[q] \in ripe' \cup unripe' \cup hexNamed'
    BY <1>1, BlazeConstants DEF WriteFile, BlockRange
  <1>2. TypeOK'
    <2>1. ripe' \subseteq Traced /\ unripe' \subseteq Traced
      BY <1>1 DEF WriteFile, Inv, TypeOK, Traced
    <2>2. hexNamed' \subseteq BlockRange \cap LogBlocks /\ torn' \subseteq BlockRange \ EmptyBlocks
      BY <1>1 DEF WriteFile, Inv, TypeOK
    <2> QED BY <1>0, <2>1, <2>2 DEF Inv, TypeOK
  <1>3. MainInv'
    BY <1>0 DEF Inv, TypeOK, MainInv
  <1>a. \A r \in AddrProcs : anum'[r] = IF r = q THEN NoBlock ELSE anum[r]
    BY <1>0 DEF Inv, TypeOK
  <1>b. \A r \in AddrProcs : aproc'[r] = IF r = q THEN "receive" ELSE aproc[r]
    BY <1>0 DEF Inv, TypeOK
  <1>4. HandsInv'
    <2>1. \A b \in torn' : \E r \in AddrProcs : aproc'[r] = "write" /\ anum'[r] = b
      BY <1>0, <1>a, <1>b DEF Inv, HandsInv
    <2> QED BY <1>0, <1>a, <1>b, <2>1 DEF Inv, HandsInv
  <1>5. OnePlace'
    <2>1. \A b \in BlockRange : b \in ripe \cup unripe \cup hexNamed => b \in ripe' \cup unripe' \cup hexNamed'
      BY <1>f
    <2>2. anum[q] \in ripe' \cup unripe' \cup hexNamed'
      BY <1>f
    <2>3. \A b \in BlockRange : b < block' /\ b \notin EmptyBlocks =>
            \/ \E p \in BlockProcs : bnum'[p] = b
            \/ \E r \in AddrProcs : anum'[r] = b
            \/ b \in ripe' \cup unripe' \cup hexNamed'
      <3> SUFFICES ASSUME NEW b \in BlockRange, b < block, b \notin EmptyBlocks
                   PROVE  \/ \E p \in BlockProcs : bnum[p] = b
                          \/ \E r \in AddrProcs : anum'[r] = b
                          \/ b \in ripe' \cup unripe' \cup hexNamed'
        BY <1>0
      <3>1. \/ \E p \in BlockProcs : bnum[p] = b
            \/ \E r \in AddrProcs : anum[r] = b
            \/ b \in ripe \cup unripe \cup hexNamed \cup hexNamed
        BY DEF Inv, OnePlace
      <3>2. CASE \E r \in AddrProcs : anum[r] = b
        BY <3>2, <1>a, <2>2
      <3> QED BY <3>1, <3>2, <2>1
    <2> QED
      BY <1>0, <1>1, <1>a, <2>3 DEF Inv, OnePlace
  <1> QED BY <1>2, <1>3, <1>4, <1>5 DEF Inv

LEMMA NextInv == Inv /\ [Next]_vars => Inv'
  <1> SUFFICES ASSUME Inv, [Next]_vars PROVE Inv'
    OBVIOUS
  <1>1. CASE CloseBlocks
    BY <1>1, BlazeConstants DEF Inv, TypeOK, MainInv, HandsInv, OnePlace, CloseBlocks, procs, files
  <1>2. CASE CloseAddresses
    BY <1>2 DEF Inv, TypeOK, MainInv, HandsInv, OnePlace, CloseAddresses, procs, files
  <1>3. CASE End
    BY <1>3 DEF Inv, TypeOK, MainInv, HandsInv, OnePlace, End, procs, files
  <1>4. ASSUME NEW p \in BlockProcs, Feed(p) PROVE Inv'
    BY <1>4, FeedInv
  <1>5. ASSUME NEW p \in BlockProcs, Query(p) PROVE Inv'
    BY <1>5 DEF Inv, TypeOK, MainInv, HandsInv, OnePlace, Query, files
  <1>6. ASSUME NEW p \in BlockProcs, BlocksDone(p) PROVE Inv'
    BY <1>6 DEF Inv, TypeOK, MainInv, HandsInv, OnePlace, BlocksDone, files
  <1>7. ASSUME NEW p \in BlockProcs, NEW q \in AddrProcs, SendBlock(p, q) PROVE Inv'
    BY <1>7, SendInv
  <1>8. ASSUME NEW q \in AddrProcs, ExtractNothing(q) PROVE Inv'
    BY <1>8, NothingInv
  <1>9. ASSUME NEW q \in AddrProcs, CreateFile(q) PROVE Inv'
    BY <1>9, CreateInv
  <1>10. ASSUME NEW q \in AddrProcs, WriteFile(q) PROVE Inv'
    BY <1>10, WriteInv
  <1>11. ASSUME NEW q \in AddrProcs, AddressesDone(q) PROVE Inv'
    BY <1>11 DEF Inv, TypeOK, MainInv, HandsInv, OnePlace, AddressesDone, files
  <1>12. CASE Exit
    BY <1>12 DEF Inv, TypeOK, MainInv, HandsInv, OnePlace, Exit, procs, files
  <1>13. CASE UNCHANGED vars
    BY <1>13 DEF Inv, TypeOK, MainInv, HandsInv, OnePlace, vars, procs, files
  <1> QED
    BY <1>1, <1>2, <1>3, <1>4, <1>5, <1>6, <1>7, <1>8, <1>9, <1>10, <1>11, <1>12, <1>13
       DEF Next, Work, Ended

\* The pipeline loses no block and gives none to two goroutines, in any order of its
\* sends, for all sizes of the two pools (feeding, sending and writing in scrape.go).
THEOREM EachBlockInOnePlace == Spec => []OnePlace
  <1>1. Inv => OnePlace BY DEF Inv
  <1> QED BY <1>1, InitInv, NextInv, PTL DEF Spec

\* addressChannel is closed only when no goroutine can send on it any more.
THEOREM ChannelClosedInTime == Spec => []ClosedInTime
  <1>1. Inv => ClosedInTime BY DEF Inv, MainInv, ClosedInTime
  <1> QED BY <1>1, InitInv, NextInv, PTL DEF Spec

LEMMA SuccessMeansAll ==
  ASSUME Inv, End PROVE Abstract!Succeed
  <1>1. /\ block = StartBlock + NBlocks
        /\ \A p \in BlockProcs : bproc[p] = "done"
        /\ \A q \in AddrProcs : aproc[q] = "done"
    BY DEF Inv, MainInv, End
  <1>2. \A p \in BlockProcs : bnum[p] = NoBlock
    BY <1>1 DEF Inv, HandsInv
  <1>3. \A q \in AddrProcs : anum[q] = NoBlock
    BY <1>1 DEF Inv, HandsInv
  <1>4. \A b \in BlockRange : b < block /\ b # NoBlock
    BY <1>1, BlazeConstants DEF BlockRange, NoBlock
  <1>5. \A b \in Traced : b \in ripe \cup unripe
    <2> SUFFICES ASSUME NEW b \in Traced PROVE b \in ripe \cup unripe
      OBVIOUS
    <2>1. b \in BlockRange /\ b \notin EmptyBlocks /\ b \notin LogBlocks
      BY DEF Traced
    <2>2. b \in ripe \cup unripe \cup hexNamed
      BY <1>2, <1>3, <1>4, <2>1 DEF Inv, OnePlace
    <2> QED BY <2>1, <2>2 DEF Inv, TypeOK
  <1>6. ripe \cup unripe = Traced
    BY <1>5 DEF Inv, TypeOK
  <1>7. torn \ LogBlocks = {}
    BY <1>1 DEF Inv, HandsInv
  <1>8. Status = "running" /\ Status' = "zero"
    BY DEF Status, End, Alive
  <1> QED BY <1>6, <1>7, <1>8 DEF Abstract!Succeed, End, files

LEMMA StepRefines ==
  ASSUME Inv, [Next]_vars PROVE [Abstract!Next]_(Abstract!vars)
  <1> USE DEF Status, Alive
  <1>0. ASSUME UNCHANGED <<main, files, exited>> PROVE UNCHANGED Abstract!vars
    BY <1>0 DEF Abstract!vars, files
  <1>1. CASE CloseBlocks
    BY <1>1 DEF CloseBlocks, Abstract!vars, files
  <1>2. CASE CloseAddresses
    BY <1>2 DEF CloseAddresses, Abstract!vars, files
  <1>3. CASE End
    BY <1>3, SuccessMeansAll DEF Abstract!Next
  <1>4. ASSUME NEW p \in BlockProcs, Feed(p) PROVE UNCHANGED Abstract!vars
    BY <1>4 DEF Feed, Abstract!vars, files
  <1>5. ASSUME NEW p \in BlockProcs, Query(p) PROVE UNCHANGED Abstract!vars
    BY <1>5 DEF Query, Abstract!vars, files
  <1>6. ASSUME NEW p \in BlockProcs, BlocksDone(p) PROVE UNCHANGED Abstract!vars
    BY <1>6 DEF BlocksDone, Abstract!vars, files
  <1>7. ASSUME NEW p \in BlockProcs, NEW q \in AddrProcs, SendBlock(p, q)
        PROVE UNCHANGED Abstract!vars
    BY <1>7 DEF SendBlock, Abstract!vars, files
  <1>8. ASSUME NEW q \in AddrProcs, ExtractNothing(q) PROVE UNCHANGED Abstract!vars
    BY <1>8 DEF ExtractNothing, Abstract!vars, files
  <1>9. ASSUME NEW q \in AddrProcs, CreateFile(q) PROVE [Abstract!Next]_(Abstract!vars)
    <2>1. anum[q] \in BlockRange /\ anum[q] \notin EmptyBlocks
      BY <1>9 DEF CreateFile, Inv, TypeOK, HandsInv
    <2>2. CASE anum[q] \in LogBlocks
      <3>1. torn' \ LogBlocks = torn \ LogBlocks
        BY <1>9, <2>2 DEF CreateFile
      <3> QED BY <1>9, <3>1 DEF CreateFile, Abstract!vars
    <2>3. CASE anum[q] \notin LogBlocks
      <3>1. torn' \ LogBlocks = (torn \ LogBlocks) \cup {anum[q]}
        BY <1>9, <2>3 DEF CreateFile
      <3>2. Abstract!Create(anum[q])
        BY <1>9, <3>1 DEF CreateFile, Abstract!Create
      <3> QED BY <2>1, <2>3, <3>2 DEF Abstract!Next, Traced
    <2> QED BY <2>2, <2>3
  <1>10. ASSUME NEW q \in AddrProcs, WriteFile(q) PROVE [Abstract!Next]_(Abstract!vars)
    <2>1. anum[q] \in BlockRange /\ anum[q] \notin EmptyBlocks
      BY <1>10 DEF WriteFile, Inv, TypeOK, HandsInv
    <2>2. torn' = torn \ {anum[q]} /\ Status = "running" /\ UNCHANGED Status
      BY <1>10 DEF WriteFile
    <2>3. CASE anum[q] \in LogBlocks
      <3>1. torn' \ LogBlocks = torn \ LogBlocks /\ UNCHANGED <<ripe, unripe>>
        BY <1>10, <2>2, <2>3 DEF WriteFile
      <3> QED BY <2>2, <3>1 DEF Abstract!vars
    <2>4. CASE anum[q] \notin LogBlocks
      <3>1. anum[q] \in Traced
        BY <2>1, <2>4 DEF Traced
      <3>2. anum[q] <= RipeBlock <=> anum[q] \in RipeBlocks \cap Traced
        BY <3>1, <2>1 DEF RipeBlocks
      <3>3. torn' \ LogBlocks = (torn \ LogBlocks) \ {anum[q]}
        BY <2>2
      <3>4. ~ (anum[q] <= RipeBlock /\ anum[q] > RipeBlock)
        BY <2>1, BlazeConstants DEF BlockRange
      <3>5. Abstract!Write(anum[q])
        BY <1>10, <2>2, <2>4, <3>2, <3>3, <3>4 DEF WriteFile, Abstract!Write
      <3> QED BY <3>1, <3>5 DEF Abstract!Next
    <2> QED BY <2>3, <2>4
  <1>11. ASSUME NEW q \in AddrProcs, AddressesDone(q) PROVE UNCHANGED Abstract!vars
    BY <1>11 DEF AddressesDone, Abstract!vars, files
  <1>12. CASE Exit
    BY <1>12 DEF Exit, Abstract!Next, Abstract!Fail, files
  <1>13. CASE UNCHANGED vars
    BY <1>13 DEF vars, Abstract!vars, files
  <1> QED
    BY <1>1, <1>2, <1>3, <1>4, <1>5, <1>6, <1>7, <1>8, <1>9, <1>10, <1>11, <1>12, <1>13
       DEF Next, Work, Ended

\* For the blocks that have traces blaze is what blockScrape takes it for: whatever its
\* goroutines do, a return of zero means a whole file, named by its number, for each of
\* them, the ripe ones in ripe/ and the others in unripe/, and none of them for any other
\* block (writeAddresses).
THEOREM BlazeKeepsContract == Spec => ImplementsBlaze
  <1>1. Init => Abstract!Init
    BY DEF Init, Abstract!Init, Status
  <1>2. Inv /\ [Next]_vars => [Abstract!Next]_(Abstract!vars)
    BY StepRefines
  <1> QED
    BY <1>1, <1>2, InitInv, NextInv, PTL DEF Spec, ImplementsBlaze, Abstract!Spec

-----------------------------------------------------------------------------
(* flame: the switch of a scraper *)

\* The handler at work, of which there is one at most, has set what it is going to write.
FlameInv ==
    /\ Flame!TypeOK
    /\ \A h \in Handlers : handler[h] = "write" => mode[h] = Running
    /\ Flame!Persisted

LEMMA FlameInitInv == ASSUME Flame!FlameConstants, Flame!Init PROVE FlameInv
<1>1. /\ Running \in BOOLEAN /\ WasRunning \in BOOLEAN /\ file \in BOOLEAN /\ state \in BOOLEAN
      /\ mode \in [Handlers -> BOOLEAN]
      /\ \A h \in Handlers : handler[h] # "write"
      /\ Flame!Persisted
  BY Zenon DEF Flame!Init, Flame!Persisted
<1>2. QED
  BY <1>1 DEF Flame!FlameConstants, Flame!Init, FlameInv, Flame!TypeOK

LEMMA FlameStep ==
  ASSUME Flame!FlameConstants, \A h, g \in Handlers : h = g,
         FlameInv, [Flame!Next]_Flame!vars
  PROVE  FlameInv'
<1> USE DEF Flame!FlameConstants, FlameInv, Flame!env
<1>1. CASE Flame!ScraperStep
  <2> USE DEF Flame!ScraperStep, Flame!CheckOff, Flame!CheckOn, Flame!RunCommand,
       Flame!CommandsDone, Flame!PauseBegins, Flame!SleepHalf, Flame!PauseOver
  <2>1. UNCHANGED <<Running, file, handler, mode, restarts, toggles>>
    BY <1>1
  <2>2. WasRunning' \in BOOLEAN /\ state' \in BOOLEAN
    BY <1>1, Zenon DEF Flame!TypeOK
  <2>3. loop' \in {"check", "command", "pause", "sleep"}
    BY <1>1, Zenon DEF Flame!TypeOK
  <2>4. /\ halves' \in 0 .. (IF MaxCmds > SleepHalves THEN MaxCmds ELSE SleepHalves)
        /\ passes' \in 0 .. 1
    BY <1>1 DEF Flame!TypeOK
  <2>5. QED
    BY <2>1, <2>2, <2>3, <2>4 DEF Flame!Persisted, Flame!TypeOK
<1>2. ASSUME NEW h \in Handlers, NEW on \in BOOLEAN, Flame!SetRunning(h, on)
      PROVE  FlameInv'
  <2>1. Flame!TypeOK'
    BY <1>2 DEF Flame!SetRunning, Flame!loopVars, Flame!TypeOK
  <2>2. handler'[h] = "write" /\ mode'[h] = Running'
    BY <1>2 DEF Flame!SetRunning, Flame!TypeOK
  <2>3. QED
    BY <2>1, <2>2 DEF Flame!Persisted
<1>3. ASSUME NEW h \in Handlers, Flame!WriteState(h)
      PROVE  FlameInv'
  <2>1. Flame!TypeOK'
    BY <1>3 DEF Flame!WriteState, Flame!loopVars, Flame!TypeOK
  <2>2. handler'[h] = "none" /\ file' = mode[h] /\ mode[h] = Running /\ Running' = Running
    BY <1>3 DEF Flame!WriteState, Flame!TypeOK
  <2>3. QED
    BY <2>1, <2>2 DEF Flame!Persisted
<1>4. CASE Flame!Restart
  <2>1. Flame!TypeOK'
    <3>1. /\ Running' \in BOOLEAN /\ WasRunning' \in BOOLEAN /\ state' \in BOOLEAN
          /\ file' \in BOOLEAN
      BY <1>4, Zenon DEF Flame!Restart, Flame!TypeOK
    <3>2. QED
      BY <1>4, <3>1 DEF Flame!Restart, Flame!TypeOK
  <2>2. Running' = file' /\ \A h \in Handlers : handler'[h] = "none"
    BY <1>4 DEF Flame!Restart
  <2>3. QED
    BY <2>1, <2>2 DEF Flame!Persisted
<1>5. CASE UNCHANGED Flame!vars
  BY <1>5 DEF Flame!vars, Flame!loopVars, Flame!TypeOK, Flame!Persisted
<1>6. QED
  BY <1>1, <1>2, <1>3, <1>4, <1>5 DEF Flame!Next

\* scraper.go: whatever the requests and the kills, as long as requests are handled one
\* at a time the file says what the last of them said, so that a restarted server does
\* the same (ChangeState, LoadStateFromCache).
THEOREM SwitchSurvivesRestarts ==
  ASSUME Flame!FlameConstants, \A h, g \in Handlers : h = g
  PROVE  Flame!Spec => []Persisted
<1>1. Flame!Init => FlameInv
  BY FlameInitInv
<1>2. FlameInv /\ [Flame!Next]_Flame!vars => FlameInv'
  BY FlameStep
<1>3. FlameInv => Persisted
  BY DEF FlameInv, Persisted
<1>4. QED
  BY <1>1, <1>2, <1>3, PTL DEF Flame!Spec

-----------------------------------------------------------------------------
(* flame: the websockets *)

\* Whoever the pool still has to send to is registered, and nobody who is registered has
\* a closed channel.
PoolInv ==
    /\ todo \subseteq connections
    /\ \A c \in closed : writer[c] \in {"receive", "ended"}
    /\ \A c \in connections : c \notin closed /\ writer[c] \in {"start", "receive", "write", "unregister"}

\* The last message the pool has passed to a connection.
Passed(c) == IF c \in todo THEN sent - 1 ELSE sent

\* How many messages were written to a connection follows from where its goroutine is.
CountOf(c) ==
    /\ got[c] \in Seq(Nat)
    /\ writer[c] \in {"none", "register"} => got[c] = <<>>
    /\ writer[c] \in {"start", "receive"} /\ c \in connections
          => since[c] + Len(got[c]) = Passed(c)
    /\ writer[c] = "write" => /\ c \in connections
                              /\ held[c] = since[c] + Len(got[c]) + 1
                              /\ held[c] = Passed(c)

CountInv == \A c \in Conns : CountOf(c)

SocketsInv == Sockets!TypeOK /\ got \in [Conns -> Seq(Nat)] /\ PoolInv /\ CountInv /\ Sockets!InOrder

LEMMA SocketsInitInv == ASSUME Sockets!WebsocketsConstants, Sockets!Init PROVE SocketsInv
  BY DEF Sockets!WebsocketsConstants, Sockets!Init, SocketsInv, Sockets!TypeOK, PoolInv, CountInv, CountOf,
         Passed, Sockets!InOrder

LEMMA PoolTakes ==
  ASSUME Sockets!WebsocketsConstants, SocketsInv, Sockets!Broadcast, UNCHANGED Sockets!connVars,
         Sockets!TypeOK'
  PROVE  SocketsInv'
  BY DEF SocketsInv, Sockets!TypeOK, PoolInv, CountInv, CountOf, Passed, Sockets!InOrder,
         Sockets!Broadcast, Sockets!Selecting, Sockets!connVars

LEMMA SocketsStep ==
  ASSUME Sockets!WebsocketsConstants, SocketsInv, [Sockets!Next]_Sockets!vars
  PROVE  SocketsInv'
<1> USE DEF SocketsInv, Sockets!WebsocketsConstants, Sockets!WriterAt, Sockets!JobAt,
            Sockets!poolVars, Sockets!connVars, Sockets!jobVars
<1>1. ASSUME NEW c \in Conns, Sockets!Connect(c) PROVE SocketsInv'
  <2>1. Sockets!TypeOK'
    BY <1>1 DEF Sockets!TypeOK, Sockets!Connect
  <2>2. UNCHANGED <<connections, todo, sent, closed, held, since, got>>
    BY <1>1 DEF Sockets!Connect
  <2>3. c \notin closed /\ c \notin connections /\ writer[c] = "none" /\ writer'[c] = "register"
    BY <1>1 DEF Sockets!TypeOK, PoolInv, Sockets!Connect
  <2>4. \A d \in Conns \ {c} : writer'[d] = writer[d]
    BY <1>1 DEF Sockets!TypeOK, Sockets!Connect
  <2>5. PoolInv'
    BY <2>2, <2>3, <2>4 DEF Sockets!TypeOK, PoolInv
  <2>6. CountInv'
    BY <2>2, <2>3, <2>4, SMTT(40) DEF Sockets!TypeOK, CountInv, CountOf, Passed
  <2>7. QED
    BY <2>1, <2>2, <2>5, <2>6 DEF Sockets!InOrder
<1>2. ASSUME NEW c \in Conns, Sockets!Register(c) PROVE SocketsInv'
  <2>1. Sockets!TypeOK'
    BY <1>2 DEF Sockets!TypeOK, Sockets!Register, Sockets!Selecting
  <2>2. got' \in [Conns -> Seq(Nat)]
    BY <1>2 DEF Sockets!TypeOK, Sockets!Register, Sockets!Selecting
  <2>3. PoolInv'
    BY <1>2 DEF Sockets!TypeOK, PoolInv, CountInv, CountOf, Sockets!Register, Sockets!Selecting
  <2>4. CountInv'
    <3>1. /\ got[c] = <<>> /\ writer'[c] = "start" /\ since'[c] = sent
          /\ todo' = {} /\ sent' = sent /\ got' = got /\ held' = held /\ sent \in Nat
      BY <1>2 DEF Sockets!TypeOK, CountInv, CountOf, Sockets!Register, Sockets!Selecting
    <3>2. \A d \in Conns \ {c} : UNCHANGED <<since[d], writer[d], d \in connections>>
      BY <1>2 DEF Sockets!TypeOK, Sockets!Register
    <3>3. ASSUME NEW d \in Conns \ {c} PROVE CountOf(d)'
      BY <1>2, <3>1, <3>2 DEF CountInv, CountOf, Passed, Sockets!Register, Sockets!Selecting
    <3>4. CountOf(c)'
      BY <3>1 DEF CountOf, Passed
    <3>5. QED
      BY <3>3, <3>4 DEF CountInv
  <2>5. Sockets!InOrder'
    BY <1>2, <2>2 DEF Sockets!TypeOK, PoolInv, CountInv, CountOf, Sockets!InOrder, Sockets!Register, Sockets!Selecting
  <2>6. QED
    BY <2>1, <2>2, <2>3, <2>4, <2>5
<1>3. ASSUME NEW c \in Conns, Sockets!Unregister(c) PROVE SocketsInv'
  BY <1>3 DEF SocketsInv, Sockets!TypeOK, PoolInv, CountInv, CountOf, Passed, Sockets!InOrder,
              Sockets!Unregister, Sockets!Selecting
<1>4. ASSUME NEW c \in Conns, Sockets!Send(c) PROVE SocketsInv'
  <2>1. Sockets!TypeOK'
    BY <1>4 DEF Sockets!TypeOK, Sockets!Send
  <2>2. got' \in [Conns -> Seq(Nat)]
    BY <1>4 DEF Sockets!TypeOK, Sockets!Send
  <2>3. PoolInv'
    BY <1>4 DEF Sockets!TypeOK, PoolInv, CountInv, CountOf, Sockets!Send
  <2>4. CountInv'
    BY <1>4, <2>2, SMTT(40) DEF Sockets!TypeOK, PoolInv, CountInv, CountOf, Passed, Sockets!Send
  <2>5. Sockets!InOrder'
    BY <1>4, <2>2 DEF Sockets!TypeOK, PoolInv, CountInv, CountOf, Sockets!InOrder, Sockets!Send
  <2>6. QED
    BY <2>1, <2>2, <2>3, <2>4, <2>5
<1>5. ASSUME NEW c \in Conns, Sockets!GoWrite(c) PROVE SocketsInv'
  BY <1>5 DEF SocketsInv, Sockets!TypeOK, PoolInv, CountInv, CountOf, Passed, Sockets!InOrder,
              Sockets!GoWrite
<1>6. ASSUME NEW c \in Conns, Sockets!WriteJSON(c) PROVE SocketsInv'
  <2>1. Sockets!TypeOK'
    BY <1>6 DEF Sockets!TypeOK, Sockets!WriteJSON
  <2>2. got' \in [Conns -> Seq(Nat)]
    BY <1>6 DEF Sockets!TypeOK, Sockets!WriteJSON
  <2>3. PoolInv'
    BY <1>6 DEF Sockets!TypeOK, PoolInv, CountInv, CountOf, Sockets!WriteJSON
  <2>4. CountInv'
    <3>1. got'[c] = Append(got[c], held[c]) /\ Len(got'[c]) = Len(got[c]) + 1
      BY <1>6 DEF Sockets!TypeOK, CountInv, CountOf, Sockets!WriteJSON
    <3>2. writer'[c] = "receive" /\ \A d \in Conns \ {c} : UNCHANGED <<got[d], writer[d]>>
      BY <1>6 DEF Sockets!TypeOK, Sockets!WriteJSON
    <3>3. UNCHANGED <<connections, todo, sent, held, since>>
      BY <1>6 DEF Sockets!WriteJSON
    <3>4. writer[c] = "write"
      BY <1>6 DEF Sockets!WriteJSON
    <3>5. ASSUME NEW d \in Conns \ {c} PROVE CountOf(d)'
      BY <3>2, <3>3 DEF CountInv, CountOf, Passed
    <3>6. CountOf(c)'
      <4>1. held[c] = since[c] + Len(got[c]) + 1 /\ held[c] = Passed(c)
        BY <3>4 DEF CountInv, CountOf
      <4>2. Passed(c)' = Passed(c) /\ since'[c] = since[c]
        BY <3>3 DEF Passed
      <4>3. since[c] + (Len(got[c]) + 1) = since[c] + Len(got[c]) + 1
        BY DEF Sockets!TypeOK, CountInv, CountOf
      <4>4. got'[c] \in Seq(Nat)
        BY <2>2
      <4>5. QED
        BY <3>1, <3>2, <4>1, <4>2, <4>3, <4>4 DEF CountOf
    <3>7. QED
      BY <3>5, <3>6 DEF CountInv
  <2>5. Sockets!InOrder'
    <3>1. got'[c] = Append(got[c], held[c]) /\ Len(got'[c]) = Len(got[c]) + 1
      BY <1>6 DEF Sockets!TypeOK, CountInv, CountOf, Sockets!WriteJSON
    <3>2. held[c] = since[c] + Len(got[c]) + 1
      BY <1>6 DEF CountInv, CountOf, Sockets!WriteJSON
    <3>3. got'[c] = [i \in 1 .. Len(got'[c]) |-> since[c] + i]
      <4> DEFINE n == Len(got[c])
                 s == since[c]
      <4>1. n \in Nat /\ s \in Nat /\ got[c] \in Seq(Nat) /\ held[c] \in Nat
        BY DEF Sockets!TypeOK
      <4>2. got[c] = [i \in 1 .. n |-> s + i]
        BY DEF Sockets!InOrder
      <4>3. Append(got[c], held[c]) = [i \in 1 .. n + 1 |-> s + i]
        <5>1. ASSUME NEW i \in 1 .. n + 1 PROVE Append(got[c], held[c])[i] = s + i
          <6>1. CASE i = n + 1
            BY <6>1, <3>2, <4>1
          <6>2. CASE i \in 1 .. n
            BY <6>2, <4>1, <4>2
          <6>3. QED
            BY <6>1, <6>2, <4>1
        <5>2. Append(got[c], held[c]) = [i \in 1 .. n + 1 |-> Append(got[c], held[c])[i]]
          BY <4>1
        <5>3. QED
          BY <5>1, <5>2
      <4>4. QED
        BY <3>1, <4>3
    <3>4. since' = since /\ \A d \in Conns \ {c} : got'[d] = got[d]
      BY <1>6 DEF Sockets!TypeOK, Sockets!WriteJSON
    <3>5. QED
      BY <3>3, <3>4 DEF Sockets!InOrder
  <2>6. QED
    BY <2>1, <2>2, <2>3, <2>4, <2>5
<1>7. ASSUME NEW c \in Conns, Sockets!WriteFails(c) \/ Sockets!WriterEnds(c) PROVE SocketsInv'
  <2>1. Sockets!TypeOK'
    BY <1>7 DEF Sockets!TypeOK, Sockets!WriteFails, Sockets!WriterEnds
  <2>2. got' \in [Conns -> Seq(Nat)]
    BY <1>7 DEF Sockets!TypeOK, Sockets!WriteFails, Sockets!WriterEnds
  <2>3. PoolInv'
    <3>1. CASE Sockets!WriteFails(c)
      BY <3>1 DEF Sockets!TypeOK, PoolInv, CountInv, CountOf, Sockets!WriteFails
    <3>2. CASE Sockets!WriterEnds(c)
      BY <3>2 DEF Sockets!TypeOK, PoolInv, Sockets!WriterEnds
    <3>3. QED
      BY <1>7, <3>1, <3>2
  <2>4. CountInv'
    BY <1>7, <2>2, SMTT(40) DEF Sockets!TypeOK, PoolInv, CountInv, CountOf, Passed, Sockets!WriteFails, Sockets!WriterEnds
  <2>5. Sockets!InOrder'
    BY <1>7, <2>2 DEF Sockets!TypeOK, PoolInv, CountInv, CountOf, Sockets!InOrder, Sockets!WriteFails, Sockets!WriterEnds
  <2>6. QED
    BY <2>1, <2>2, <2>3, <2>4, <2>5
<1>8. ASSUME NEW c \in Conns, Sockets!Break(c) PROVE SocketsInv'
  BY <1>8 DEF SocketsInv, Sockets!TypeOK, PoolInv, CountInv, CountOf, Passed, Sockets!InOrder,
              Sockets!Break
<1>9. ASSUME NEW j \in Jobs,
             Sockets!StartJob(j) \/ Sockets!Child(j) \/ Sockets!ChildFails(j)
               \/ Sockets!ScanLine(j) \/ Sockets!Answer(j)
      PROVE  SocketsInv'
  <2>1. Sockets!TypeOK'
    <3> USE DEF Sockets!TypeOK
    <3>1. CASE Sockets!StartJob(j)
      BY <3>1 DEF Sockets!StartJob
    <3>2. CASE Sockets!ChildWrites(j)
      BY <3>2, SMTT(40) DEF Sockets!ChildWrites
    <3>3. ASSUME NEW status \in {"ok", "error"}, Sockets!ChildEnds(j, status)
          PROVE  Sockets!TypeOK'
      BY <3>3 DEF Sockets!ChildEnds
    <3>4. CASE Sockets!ScanLine(j)
      BY <3>4 DEF Sockets!ScanLine
    <3>5. CASE Sockets!Answer(j)
      BY <3>5 DEF Sockets!Answer
    <3>6. QED
      BY <1>9, <3>1, <3>2, <3>3, <3>4, <3>5
         DEF Sockets!Child, Sockets!ChildDone, Sockets!ChildFails
  <2>2. UNCHANGED <<connections, todo, sent, writer, closed, broken, held, since, got>>
    BY <1>9 DEF Sockets!StartJob, Sockets!Child, Sockets!ChildWrites,
      Sockets!ChildDone, Sockets!ChildFails, Sockets!ChildEnds, Sockets!ScanLine, Sockets!Answer
  <2>3. QED
    BY <2>1, <2>2 DEF SocketsInv, PoolInv, CountInv, CountOf, Passed, Sockets!InOrder
<1>10. ASSUME NEW j \in Jobs, Sockets!BroadcastProgress(j) \/ Sockets!BroadcastError(j)
       PROVE  SocketsInv'
  <2>1. Sockets!TypeOK'
    <3> USE DEF Sockets!TypeOK, PoolInv, Sockets!Broadcast
    <3>1. CASE Sockets!BroadcastProgress(j)
      BY <3>1 DEF Sockets!BroadcastProgress
    <3>2. CASE Sockets!BroadcastError(j)
      BY <3>2 DEF Sockets!BroadcastError
    <3>3. QED
      BY <1>10, <3>1, <3>2
  <2>2. QED
    BY <1>10, <2>1, PoolTakes DEF Sockets!BroadcastProgress, Sockets!BroadcastError
<1>11. CASE UNCHANGED Sockets!vars
  BY <1>11 DEF SocketsInv, Sockets!TypeOK, PoolInv, CountInv, CountOf, Passed, Sockets!InOrder, Sockets!vars
<1>12. QED
  BY <1>1, <1>2, <1>3, <1>4, <1>5, <1>6, <1>7, <1>8, <1>9, <1>10, <1>11
     DEF Sockets!Next, Sockets!MeetPool, Sockets!Write

\* pool.run, Connection.write: for any number of connections and commands, whoever
\* registers, breaks or is dropped meanwhile, a connection is written every message from
\* its registration on, once and in order, and the pool sends on no closed channel.
THEOREM MessagesInOrder ==
  ASSUME Sockets!WebsocketsConstants
  PROVE  Sockets!Spec => []InOrder
<1>1. Sockets!Init => SocketsInv
  BY SocketsInitInv
<1>2. SocketsInv /\ [Sockets!Next]_Sockets!vars => SocketsInv'
  BY SocketsStep
<1>3. SocketsInv => InOrder
  BY DEF InOrder, SocketsInv, PoolInv, Sockets!NeverSendsOnClosed
<1>4. QED
  BY <1>1, <1>2, <1>3, PTL DEF Sockets!Spec

-----------------------------------------------------------------------------
(* acctScrape2 *)

\* Taking the first of a channel to the end of what is printed moves nothing in their
\* concatenation; sending appends to it.
LEMMA TakeKeepsOrder ==
  ASSUME NEW S, NEW s \in Seq(S), NEW t \in Seq(S), t # <<>>
  PROVE  Append(s, Head(t)) \o Tail(t) = s \o t
<1>1. Head(t) \in S /\ Tail(t) \in Seq(S) /\ Len(Tail(t)) = Len(t) - 1
      /\ \A i \in 1 .. Len(Tail(t)) : Tail(t)[i] = t[i + 1]
  BY HeadTailProperties
<1>2. Append(s, Head(t)) \in Seq(S) /\ Len(Append(s, Head(t))) = Len(s) + 1
  BY <1>1
<1>3. Len(s) \in Nat /\ Len(t) \in Nat \ {0} /\ Head(t) = t[1]
  BY EmptySeq
<1> DEFINE u == Append(s, Head(t)) \o Tail(t)
           v == s \o t
<1>4. /\ u \in Seq(S) /\ Len(u) = Len(s) + 1 + (Len(t) - 1)
      /\ \A i \in 1 .. (Len(s) + 1) + (Len(t) - 1) :
            u[i] = IF i <= Len(s) + 1 THEN Append(s, Head(t))[i] ELSE Tail(t)[i - (Len(s) + 1)]
  BY <1>1, <1>2, ConcatProperties
<1>5. /\ v \in Seq(S) /\ Len(v) = Len(s) + Len(t)
      /\ \A i \in 1 .. Len(s) + Len(t) : v[i] = IF i <= Len(s) THEN s[i] ELSE t[i - Len(s)]
  BY ConcatProperties
<1>6. ASSUME NEW i \in 1 .. Len(u) PROVE u[i] = v[i]
  <2>1. CASE i <= Len(s)
    BY <1>1, <1>2, <1>3, <1>4, <1>5, <2>1
  <2>2. CASE i = Len(s) + 1
    BY <1>1, <1>2, <1>3, <1>4, <1>5, <2>2
  <2>3. CASE i > Len(s) + 1
    <3>1. i - (Len(s) + 1) \in 1 .. Len(Tail(t)) /\ i - (Len(s) + 1) + 1 = i - Len(s)
      BY <1>1, <1>3, <1>4, <2>3
    <3>2. QED
      BY <1>1, <1>3, <1>4, <1>5, <2>3, <3>1
  <2>4. QED
    BY <1>3, <1>4, <2>1, <2>2, <2>3, SMTT(40)
<1>7. Len(u) = Len(v)
  BY <1>3, <1>4, <1>5
<1>8. QED
  BY <1>4, <1>5, <1>6, <1>7, SeqEqual

LEMMA SendAppends ==
  ASSUME NEW S, NEW s \in Seq(S), NEW t \in Seq(S), NEW e \in S
  PROVE  /\ s \o Append(t, e) \in Seq(S)
         /\ Len(s \o Append(t, e)) = Len(s \o t) + 1
         /\ \A i \in 1 .. Len(s \o t) : (s \o Append(t, e))[i] = (s \o t)[i]
         /\ (s \o Append(t, e))[Len(s \o t) + 1] = e
<1>1. Append(t, e) \in Seq(S) /\ Len(Append(t, e)) = Len(t) + 1 /\ Len(t) \in Nat /\ Len(s) \in Nat
  OBVIOUS
<1>2. /\ \A i \in 1 .. Len(t) : Append(t, e)[i] = t[i]
      /\ Append(t, e)[Len(t) + 1] = e
  BY <1>1
<1>3. /\ s \o t \in Seq(S) /\ Len(s \o t) = Len(s) + Len(t)
      /\ \A i \in 1 .. Len(s) + Len(t) : (s \o t)[i] = IF i <= Len(s) THEN s[i] ELSE t[i - Len(s)]
  BY ConcatProperties
<1>4. /\ s \o Append(t, e) \in Seq(S) /\ Len(s \o Append(t, e)) = Len(s) + (Len(t) + 1)
      /\ \A i \in 1 .. Len(s) + (Len(t) + 1) :
            (s \o Append(t, e))[i] = IF i <= Len(s) THEN s[i] ELSE Append(t, e)[i - Len(s)]
  <2> DEFINE r == Append(t, e)
  <2>1. r \in Seq(S) /\ Len(r) = Len(t) + 1
    BY <1>1
  <2> HIDE DEF r
  <2>2. /\ s \o r \in Seq(S) /\ Len(s \o r) = Len(s) + Len(r)
        /\ \A i \in 1 .. Len(s) + Len(r) : (s \o r)[i] = IF i <= Len(s) THEN s[i] ELSE r[i - Len(s)]
    BY <2>1, ConcatProperties
  <2>3. QED
    BY <2>1, <2>2 DEF r
<1>5. ASSUME NEW i \in 1 .. Len(s \o t) PROVE (s \o Append(t, e))[i] = (s \o t)[i]
  BY <1>1, <1>2, <1>3, <1>4
<1>6. (s \o Append(t, e))[Len(s \o t) + 1] = e
  BY <1>1, <1>2, <1>3, <1>4
<1>7. QED
  BY <1>1, <1>3, <1>4, <1>5, <1>6

-----------------------------------------------------------------------------
\* What is printed and, behind it, what will be.
Line == out \o channel

SearchTypes ==
    /\ pc \in {"files", "drain", "done", "dead"}
    /\ info \in 1 .. N + 1 /\ count \in Nat /\ left \in Nat
    /\ tasks \subseteq wg /\ wg \subseteq 1 .. N
    /\ channel \in Seq(1 .. N) /\ out \in Seq(1 .. N)

\* A chunk that was handed out is either searched or in the line, and there once.
LineInv ==
    /\ \A f \in tasks : f < info
    /\ \A i \in 1 .. Len(Line) : Line[i] < info /\ Line[i] \notin tasks
    /\ \A i, j \in 1 .. Len(Line) : Line[i] = Line[j] => i = j
    /\ \A f \in 1 .. N : f < info => f \in tasks \/ \E i \in 1 .. Len(Line) : Line[i] = f
    /\ pc \in {"drain", "done"} => info = N + 1
    /\ pc = "done" => tasks = {} /\ channel = <<>>

\* The counters of Execute.
TaskInv ==
    /\ count <= MaxTasks
    /\ pc = "files" => count = Cardinality(tasks) + Len(channel)
    /\ pc = "drain" => left = Cardinality(tasks) + Len(channel)
    /\ Cardinality(tasks) <= MaxTasks

SearchInv == SearchTypes /\ LineInv /\ TaskInv

LEMMA LineIsSeq == ASSUME SearchTypes PROVE Line \in Seq(1 .. N) /\ Len(Line) \in Nat
  BY ConcatProperties DEF SearchTypes, Line

LEMMA TasksFinite ==
  ASSUME Search!AcctScrape2Constants, SearchTypes
  PROVE  IsFiniteSet(tasks) /\ Cardinality(tasks) \in Nat
<1>1. IsFiniteSet(1 .. N)
  BY FS_Interval DEF Search!AcctScrape2Constants
<1>2. tasks \in SUBSET (1 .. N)
  BY DEF SearchTypes
<1>3. QED
  BY <1>1, <1>2, FS_Subset, FS_CardinalityType

LEMMA SearchInitInv == ASSUME Search!AcctScrape2Constants, Search!Init PROVE SearchInv
<1>1. SearchTypes
  BY DEF Search!AcctScrape2Constants, Search!Init, SearchTypes
<1>2. Line = <<>>
  BY ConcatEmptySeq, EmptySeq DEF Search!Init, Line
<1>3. LineInv
  BY <1>2 DEF Search!AcctScrape2Constants, Search!Init, LineInv
<1>4. TaskInv
  BY FS_EmptySet DEF Search!AcctScrape2Constants, Search!Init, TaskInv
<1>5. QED
  BY <1>1, <1>3, <1>4 DEF SearchInv

\* Whoever hands out a chunk keeps the line and adds a task.
LEMMA HandOut ==
  ASSUME Search!AcctScrape2Constants, SearchInv, info <= N,
         tasks' = tasks \cup {info}, info' = info + 1, Line' = Line, pc = "files", pc' = pc
  PROVE  LineInv' /\ Cardinality(tasks') = Cardinality(tasks) + 1
<1>1. IsFiniteSet(tasks) /\ info \notin tasks
  BY TasksFinite DEF SearchInv, LineInv, SearchTypes
<1>2. Cardinality(tasks') = Cardinality(tasks) + 1
  BY <1>1, FS_AddElement
<1>3. /\ \A f \in tasks' : f < info'
      /\ \A i \in 1 .. Len(Line') : Line'[i] < info' /\ Line'[i] \notin tasks'
  <2>1. \A i \in 1 .. Len(Line) : Line[i] \in 1 .. N
    BY LineIsSeq, ElementOfSeq DEF SearchInv
  <2>2. \A i \in 1 .. Len(Line) : Line[i] < info + 1 /\ Line[i] # info /\ Line[i] \notin tasks
    BY <2>1 DEF SearchInv, LineInv, SearchTypes, Search!AcctScrape2Constants
  <2>3. \A f \in tasks : f < info + 1
    BY DEF SearchInv, LineInv, SearchTypes, Search!AcctScrape2Constants
  <2>4. info < info + 1
    BY DEF SearchInv, SearchTypes, Search!AcctScrape2Constants
  <2>5. QED
    BY <2>2, <2>3, <2>4
<1>4. \A f \in 1 .. N : f < info' => f \in tasks' \/ \E i \in 1 .. Len(Line') : Line'[i] = f
  <2> SUFFICES ASSUME NEW f \in 1 .. N, f < info', f # info
               PROVE  f \in tasks' \/ \E i \in 1 .. Len(Line') : Line'[i] = f
    OBVIOUS
  <2>1. f < info
    BY DEF SearchInv, SearchTypes, Search!AcctScrape2Constants
  <2>2. QED
    BY <2>1 DEF SearchInv, LineInv
<1>5. QED
  BY <1>2, <1>3, <1>4 DEF SearchInv, LineInv

LEMMA SearchStep ==
  ASSUME Search!AcctScrape2Constants, SearchInv, [Search!Next]_Search!vars
  PROVE  SearchInv'
<1> USE DEF SearchInv
<1>a. IsFiniteSet(tasks) /\ Cardinality(tasks) \in Nat /\ N \in Nat /\ MaxTasks \in Nat
  BY TasksFinite DEF Search!AcctScrape2Constants
<1>1. CASE Search!Launch
  <2>1. SearchTypes'
    BY <1>1, <1>a DEF SearchTypes, Search!Launch
  <2>2. Line' = Line
    BY <1>1 DEF Search!Launch, Line
  <2>3. LineInv' /\ Cardinality(tasks') = Cardinality(tasks) + 1
    BY <1>1, <2>2, HandOut DEF Search!Launch
  <2>4. TaskInv'
    BY <1>1, <1>a, <2>3, SMTT(40) DEF SearchTypes, TaskInv, Search!Launch
  <2>5. QED
    BY <2>1, <2>3, <2>4
<1>2. CASE Search!TakeAndLaunch
  <2>1. /\ Head(channel) \in 1 .. N /\ channel' \in Seq(1 .. N)
        /\ Len(channel') = Len(channel) - 1 /\ Len(channel) \in Nat
    <3>1. channel \in Seq(1 .. N) /\ channel # <<>> /\ channel' = Tail(channel)
      BY <1>2 DEF SearchTypes, Search!TakeAndLaunch
    <3>2. Head(channel) \in 1 .. N /\ Tail(channel) \in Seq(1 .. N)
          /\ Len(Tail(channel)) = Len(channel) - 1
      BY <3>1, HeadTailProperties
    <3>3. QED
      BY <3>1, <3>2
  <2>2. SearchTypes'
    BY <1>2, <1>a, <2>1 DEF SearchTypes, Search!TakeAndLaunch
  <2>3. Line' = Line
    BY <1>2, TakeKeepsOrder DEF SearchTypes, Search!TakeAndLaunch, Line
  <2>4. LineInv' /\ Cardinality(tasks') = Cardinality(tasks) + 1
    BY <1>2, <2>3, HandOut DEF Search!TakeAndLaunch
  <2>5. TaskInv'
    BY <1>2, <1>a, <2>1, <2>4, EmptySeq DEF SearchTypes, TaskInv, Search!TakeAndLaunch
  <2>6. QED
    BY <2>2, <2>4, <2>5
<1>3. CASE Search!AllHandedOut
  <2>1. SearchTypes'
    BY <1>3 DEF SearchTypes, Search!AllHandedOut
  <2>2. LineInv'
    BY <1>3, <1>a, SMTT(40) DEF SearchTypes, LineInv, Line, Search!AllHandedOut
  <2>3. TaskInv'
    BY <1>3 DEF TaskInv, Search!AllHandedOut
  <2>4. QED
    BY <2>1, <2>2, <2>3
<1>4. CASE Search!Take
  <2>1. /\ Head(channel) \in 1 .. N /\ channel' \in Seq(1 .. N)
        /\ Len(channel') = Len(channel) - 1 /\ Len(channel) \in Nat
    <3>1. channel \in Seq(1 .. N) /\ channel # <<>> /\ channel' = Tail(channel)
      BY <1>4 DEF SearchTypes, Search!Take
    <3>2. Head(channel) \in 1 .. N /\ Tail(channel) \in Seq(1 .. N)
          /\ Len(Tail(channel)) = Len(channel) - 1
      BY <3>1, HeadTailProperties
    <3>3. QED
      BY <3>1, <3>2
  <2>2. SearchTypes'
    BY <1>4, <1>a, <2>1 DEF SearchTypes, Search!Take
  <2>3. Line' = Line
    BY <1>4, TakeKeepsOrder DEF SearchTypes, Search!Take, Line
  <2>4. LineInv'
    BY <1>4, <2>3 DEF LineInv, Search!Take
  <2>5. TaskInv'
    BY <1>4, <1>a, <2>1 DEF SearchTypes, TaskInv, Search!Take
  <2>6. QED
    BY <2>2, <2>4, <2>5
<1>5. CASE Search!Finish
  <2>1. out' = Line /\ Line \in Seq(1 .. N) /\ channel' = <<>> /\ tasks = {} /\ tasks' = {}
    BY <1>5, LineIsSeq DEF SearchTypes, Search!Finish, Line
  <2>2. Line' = Line
    BY <2>1, ConcatEmptySeq DEF Line
  <2>3. SearchTypes'
    BY <1>5, <2>1 DEF SearchTypes, Search!Finish
  <2>4. LineInv'
    BY <1>5, <2>1, <2>2 DEF LineInv, Search!Finish
  <2>5. TaskInv'
    BY <1>5 DEF TaskInv, Search!Finish
  <2>6. QED
    BY <2>3, <2>4, <2>5
<1>6. ASSUME NEW f \in 1 .. N, Search!Send(f) PROVE SearchInv'
  <2>1. /\ Line' \in Seq(1 .. N) /\ Len(Line') = Len(Line) + 1
        /\ \A i \in 1 .. Len(Line) : Line'[i] = Line[i]
        /\ Line'[Len(Line) + 1] = f /\ Len(Line) \in Nat
    BY <1>6, SendAppends, LineIsSeq, SMTT(40) DEF SearchTypes, Search!Send, Line
  <2>2. SearchTypes' /\ Len(channel') = Len(channel) + 1 /\ Len(channel) \in Nat
    BY <1>6 DEF SearchTypes, Search!Send
  <2>3. tasks' = tasks \ {f} /\ f \in tasks /\ info' = info /\ pc' = pc /\ pc # "done"
    BY <1>6 DEF Search!Send
  <2>4. Cardinality(tasks') = Cardinality(tasks) - 1
    BY <1>a, <2>3, FS_RemoveElement
  <2>5. LineInv'
    <3>1. \A i \in 1 .. Len(Line') : i \in 1 .. Len(Line) \/ i = Len(Line) + 1
      BY <2>1
    <3>2. \A i \in 1 .. Len(Line') : Line'[i] < info' /\ Line'[i] \notin tasks'
      BY <2>1, <2>3, <3>1 DEF LineInv
    <3>3. \A i \in 1 .. Len(Line) : Line[i] # f
      BY <2>3 DEF LineInv
    <3>4. \A i, j \in 1 .. Len(Line') : Line'[i] = Line'[j] => i = j
      BY <2>1, <3>1, <3>3 DEF LineInv
    <3>5. \A g \in 1 .. N : g < info' => g \in tasks' \/ \E i \in 1 .. Len(Line') : Line'[i] = g
      <4> SUFFICES ASSUME NEW g \in 1 .. N, g < info', g \notin tasks'
                   PROVE  \E i \in 1 .. Len(Line') : Line'[i] = g
        OBVIOUS
      <4>1. CASE g = f
        BY <2>1, <4>1
      <4>2. CASE g # f
        BY <2>1, <2>3, <4>2 DEF LineInv
      <4>3. QED
        BY <4>1, <4>2
    <3>6. QED
      BY <2>3, <3>2, <3>4, <3>5 DEF LineInv
  <2>6. TaskInv'
    <3>1. count' = count /\ left' = left
      BY <1>6 DEF Search!Send
    <3>2. Cardinality(tasks') + Len(channel') = Cardinality(tasks) + Len(channel)
          /\ Cardinality(tasks') <= Cardinality(tasks)
      BY <1>a, <2>2, <2>4
    <3>3. Cardinality(tasks') <= MaxTasks
      BY <1>a, <2>4 DEF TaskInv
    <3>4. QED
      BY <2>3, <3>1, <3>2, <3>3 DEF TaskInv
  <2>7. QED
    BY <2>2, <2>5, <2>6
<1>7. ASSUME NEW f \in 1 .. N, Search!WgDone(f) \/ Search!Fatal(f) PROVE SearchInv'
  <2>1. SearchTypes'
    BY <1>7 DEF SearchTypes, Search!WgDone, Search!Fatal
  <2>2. UNCHANGED <<info, count, left, tasks, channel, out, Line>> /\ (pc' = pc \/ pc' = "dead")
    BY <1>7 DEF Search!WgDone, Search!Fatal, Line
  <2>3. LineInv' /\ TaskInv'
    BY <2>2 DEF LineInv, TaskInv
  <2>4. QED
    BY <2>1, <2>3
<1>8. CASE UNCHANGED Search!vars
  BY <1>8, ZenonT(60) DEF Search!vars, SearchTypes, LineInv, TaskInv, Line
<1>9. QED
  BY <1>1, <1>2, <1>3, <1>4, <1>5, <1>6, <1>7, <1>8
     DEF Search!Next, Search!Execute, Search!Goroutine

LEMMA SearchResult ==
  ASSUME Search!AcctScrape2Constants, SearchInv PROVE Search!TypeOK /\ Search!PrintedOnce
<1> USE DEF SearchInv
<1>1. Search!TypeOK
  <2>1. Search!Cardinality(tasks) = Cardinality(tasks)
    BY DEF Search!Cardinality, Cardinality
  <2>2. QED
    BY <2>1 DEF SearchTypes, TaskInv, Search!TypeOK
<1>2. /\ Len(out) \in Nat /\ Len(channel) \in Nat /\ Len(Line) = Len(out) + Len(channel)
      /\ \A i \in 1 .. Len(out) : Line[i] = out[i] /\ i \in 1 .. Len(Line) /\ out[i] \in 1 .. N
      /\ DOMAIN out = 1 .. Len(out)
  <2>1. out \in Seq(1 .. N) /\ channel \in Seq(1 .. N)
    BY DEF SearchTypes
  <2>2. /\ Len(out) \in Nat /\ Len(channel) \in Nat /\ DOMAIN out = 1 .. Len(out)
        /\ \A i \in 1 .. Len(out) : out[i] \in 1 .. N
    BY <2>1, LenProperties, ElementOfSeq
  <2>3. /\ Len(Line) = Len(out) + Len(channel)
        /\ \A i \in 1 .. Len(out) + Len(channel) :
              Line[i] = IF i <= Len(out) THEN out[i] ELSE channel[i - Len(out)]
    BY <2>1, ConcatProperties DEF Line
  <2>4. QED
    BY <2>2, <2>3
<1>3. \A i, j \in DOMAIN out : out[i] = out[j] => i = j
  BY <1>2 DEF LineInv
<1>4. ASSUME pc = "done" PROVE {out[i] : i \in DOMAIN out} = 1 .. N
  <2>1. Line = out /\ tasks = {} /\ info = N + 1 /\ N \in Nat
    BY <1>4, ConcatEmptySeq DEF LineInv, Line, SearchTypes, Search!AcctScrape2Constants
  <2>2. \A f \in 1 .. N : \E i \in DOMAIN out : out[i] = f
    BY <1>2, <2>1, SMTT(40) DEF LineInv
  <2>3. QED
    BY <1>2, <2>2
<1>5. QED
  BY <1>1, <1>3, <1>4 DEF Search!PrintedOnce

\* Execute of acctScrape2: however the goroutines are scheduled, for any number of chunks
\* and any limit, what is found in a chunk is printed once, at the end that of every
\* chunk, and the two counters bound the goroutines as they are meant to.
THEOREM EachChunkPrintedOnce ==
  ASSUME Search!AcctScrape2Constants
  PROVE  Search!Spec => []PrintedOnce
<1>1. Search!Init => SearchInv
  BY SearchInitInv
<1>2. SearchInv /\ [Search!Next]_Search!vars => SearchInv'
  BY SearchStep
<1>3. SearchInv => PrintedOnce
  BY SearchResult DEF PrintedOnce
<1>4. QED
  BY <1>1, <1>2, <1>3, PTL DEF Search!Spec
=============================================================================
