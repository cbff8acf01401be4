--------------------------- MODULE BlazePipeline ----------------------------
(***************************************************************************)
(* blaze scrape: main feeds block numbers to a pool of goroutines that     *)
(* query the node, and they feed a second pool that extracts the addresses *)
(* and writes a file per block.  Both channels are unbuffered.  Any error  *)
(* ends the process at once, whatever the others are doing.                *)
(***************************************************************************)
EXTENDS Integers

CONSTANTS StartBlock, NBlocks,   \* startBlock, nBlocks
          RipeBlock,             \* ripeBlock
          BlockProcs,            \* goroutines of getTracesAndLogs
          AddrProcs,             \* goroutines of extractAddresses
          EmptyBlocks,           \* blocks without traces and without logs
          LogBlocks,             \* blocks with logs, and without traces
          Errors                 \* whether the node or the disk may fail

ASSUME BlazeConstants ==
    /\ StartBlock \in Nat /\ NBlocks \in Nat /\ RipeBlock \in Nat
    /\ Errors \in BOOLEAN
    /\ EmptyBlocks \cap LogBlocks = {}

BlockRange == StartBlock .. StartBlock + NBlocks - 1
RipeBlocks == {b \in BlockRange : b <= RipeBlock}
NoBlock == -1

\* Blocks with traces: their number is the traces' integer.  A log's is a hex string.
Traced == BlockRange \ (EmptyBlocks \cup LogBlocks)

VARIABLES
    main, block,               \* where scrapeBlocks is; its loop variable
    blockClosed, addrClosed,   \* the channels are closed
    bproc, bnum,               \* where each getTracesAndLogs is; its block
    aproc, anum,               \* where each extractAddresses is; its block
    ripe, unripe,              \* blocks whose file, named by number, is complete
    hexNamed,                  \* those of which ripe/ has one named by a hex string
    torn,                      \* blocks whose file is created, under its name
    exited                     \* os.Exit(1)

procs == <<bproc, bnum, aproc, anum>>
files == <<ripe, unripe, hexNamed, torn>>
vars == <<main, block, blockClosed, addrClosed, procs, files, exited>>

Init ==
    /\ main = "feed" /\ block = StartBlock
    /\ blockClosed = FALSE /\ addrClosed = FALSE
    /\ bproc = [p \in BlockProcs |-> "receive"]
    /\ bnum = [p \in BlockProcs |-> NoBlock]
    /\ aproc = [p \in AddrProcs |-> "receive"]
    /\ anum = [p \in AddrProcs |-> NoBlock]
    /\ ripe = {} /\ unripe = {} /\ hexNamed = {} /\ torn = {}
    /\ exited = FALSE

Alive == ~ exited /\ main # "done"

-----------------------------------------------------------------------------
(* scrapeBlocks *)

\* blockChannel <- block
Feed(p) ==
    /\ Alive /\ main = "feed" /\ block < StartBlock + NBlocks
    /\ bproc[p] = "receive"
    /\ bproc' = [bproc EXCEPT ![p] = "query"]
    /\ bnum' = [bnum EXCEPT ![p] = block]
    /\ block' = block + 1
    /\ UNCHANGED <<main, blockClosed, addrClosed, aproc, anum, files, exited>>

CloseBlocks ==
    /\ Alive /\ main = "feed" /\ block = StartBlock + NBlocks
    /\ blockClosed' = TRUE
    /\ main' = "blockWG"
    /\ UNCHANGED <<block, addrClosed, procs, files, exited>>

\* Mutant: addressChannel is closed without waiting for those that send on it.
CloseAddressesAtOnce ==
    /\ Alive /\ main = "blockWG"
    /\ addrClosed' = TRUE
    /\ main' = "addressWG"
    /\ UNCHANGED <<block, blockClosed, procs, files, exited>>

\* blockWG.Wait
CloseAddresses ==
    /\ Alive /\ main = "blockWG"
    /\ \A p \in BlockProcs : bproc[p] = "done"
    /\ addrClosed' = TRUE
    /\ main' = "addressWG"
    /\ UNCHANGED <<block, blockClosed, procs, files, exited>>

\* addressWG.Wait
End ==
    /\ Alive /\ main = "addressWG"
    /\ \A q \in AddrProcs : aproc[q] = "done"
    /\ main' = "done"
    /\ UNCHANGED <<block, blockClosed, addrClosed, procs, files, exited>>

-----------------------------------------------------------------------------
(* getTracesAndLogs *)

\* Mutant: a query is repeated until it succeeds, and it never does.
QueryForever(p) ==
    /\ Alive /\ bproc[p] = "query"
    /\ UNCHANGED vars

Query(p) ==
    /\ Alive /\ bproc[p] = "query"
    /\ bproc' = [bproc EXCEPT ![p] = "send"]
    /\ UNCHANGED <<main, block, blockClosed, addrClosed, bnum, aproc, anum, files, exited>>

\* Mutant: the goroutine keeps its block and sends it again.
SendBlockTwice(p, q) ==
    /\ Alive /\ bproc[p] = "send" /\ aproc[q] = "receive" /\ ~ addrClosed
    /\ aproc' = [aproc EXCEPT ![q] = "extract"]
    /\ anum' = [anum EXCEPT ![q] = bnum[p]]
    /\ UNCHANGED <<main, block, blockClosed, addrClosed, bproc, bnum, files, exited>>

\* addressChannel <- tracesAndLogs{traces, logs}
SendBlock(p, q) ==
    /\ Alive /\ bproc[p] = "send" /\ aproc[q] = "receive" /\ ~ addrClosed
    /\ bproc' = [bproc EXCEPT ![p] = "receive"]
    /\ bnum' = [bnum EXCEPT ![p] = NoBlock]
    /\ aproc' = [aproc EXCEPT ![q] = "extract"]
    /\ anum' = [anum EXCEPT ![q] = bnum[p]]
    /\ UNCHANGED <<main, block, blockClosed, addrClosed, files, exited>>

BlocksDone(p) ==
    /\ Alive /\ bproc[p] = "receive" /\ blockClosed
    /\ bproc' = [bproc EXCEPT ![p] = "done"]
    /\ UNCHANGED <<main, block, blockClosed, addrClosed, bnum, aproc, anum, files, exited>>

-----------------------------------------------------------------------------
(* extractAddresses, writeAddresses *)

\* Neither traces nor logs: no block number, no file.
ExtractNothing(q) ==
    /\ Alive /\ aproc[q] = "extract" /\ anum[q] \in EmptyBlocks
    /\ aproc' = [aproc EXCEPT ![q] = "receive"]
    /\ anum' = [anum EXCEPT ![q] = NoBlock]
    /\ UNCHANGED <<main, block, blockClosed, addrClosed, bproc, bnum, files, exited>>

CreateFile(q) ==
    /\ Alive /\ aproc[q] = "extract" /\ anum[q] \notin EmptyBlocks
    /\ torn' = torn \cup {anum[q]}
    /\ aproc' = [aproc EXCEPT ![q] = "write"]
    /\ UNCHANGED <<main, block, blockClosed, addrClosed, bproc, bnum, anum, ripe, unripe, hexNamed,
                   exited>>

\* Mutant: the last ripe block is taken for an unripe one.
WriteFileEarly(q) ==
    /\ Alive /\ aproc[q] = "write"
    /\ torn' = torn \ {anum[q]}
    /\ IF anum[q] >= RipeBlock
       THEN unripe' = unripe \cup {anum[q]} /\ UNCHANGED ripe
       ELSE ripe' = ripe \cup {anum[q]} /\ UNCHANGED unripe
    /\ aproc' = [aproc EXCEPT ![q] = "receive"]
    /\ anum' = [anum EXCEPT ![q] = NoBlock]
    /\ UNCHANGED <<main, block, blockClosed, addrClosed, bproc, bnum, hexNamed, exited>>

\* Atoi takes the hex string of a block without traces for 0, which is always ripe.
WriteFile(q) ==
    /\ Alive /\ aproc[q] = "write"
    /\ torn' = torn \ {anum[q]}
    /\ \/ /\ anum[q] \in LogBlocks
          /\ hexNamed' = hexNamed \cup {anum[q]}
          /\ UNCHANGED <<ripe, unripe>>
       \/ /\ anum[q] \notin LogBlocks /\ anum[q] > RipeBlock
          /\ unripe' = unripe \cup {anum[q]}
          /\ UNCHANGED <<ripe, hexNamed>>
       \/ /\ anum[q] \notin LogBlocks /\ anum[q] <= RipeBlock
          /\ ripe' = ripe \cup {anum[q]}
          /\ UNCHANGED <<unripe, hexNamed>>
    /\ aproc' = [aproc EXCEPT ![q] = "receive"]
    /\ anum' = [anum EXCEPT ![q] = NoBlock]
    /\ UNCHANGED <<main, block, blockClosed, addrClosed, bproc, bnum, exited>>

AddressesDone(q) ==
    /\ Alive /\ aproc[q] = "receive" /\ addrClosed
    /\ aproc' = [aproc EXCEPT ![q] = "done"]
    /\ UNCHANGED <<main, block, blockClosed, addrClosed, bproc, bnum, anum, files, exited>>

\* "caller will start over if this process exits with non-zero value"
Exit ==
    /\ Alive /\ Errors
    /\ \/ \E p \in BlockProcs : bproc[p] = "query"
       \/ \E q \in AddrProcs : aproc[q] \in {"extract", "write"}
    /\ exited' = TRUE
    /\ UNCHANGED <<main, block, blockClosed, addrClosed, procs, files>>

Ended == ~ Alive /\ UNCHANGED vars

Work ==
    \/ CloseBlocks \/ CloseAddresses \/ End
    \/ \E p \in BlockProcs : Feed(p) \/ Query(p) \/ BlocksDone(p) \/ \E q \in AddrProcs : SendBlock(p, q)
    \/ \E q \in AddrProcs : ExtractNothing(q) \/ CreateFile(q) \/ WriteFile(q) \/ AddressesDone(q)

Next == Work \/ Exit \/ Ended

Spec == Init /\ [][Next]_vars

\* Some goroutine that can go on does; the node answers.
FairSpec == Spec /\ WF_vars(Work)

-----------------------------------------------------------------------------
(* Properties *)

TypeOK ==
    /\ main \in {"feed", "blockWG", "addressWG", "done"}
    /\ block \in StartBlock .. StartBlock + NBlocks
    /\ blockClosed \in BOOLEAN /\ addrClosed \in BOOLEAN /\ exited \in BOOLEAN
    /\ bproc \in [BlockProcs -> {"receive", "query", "send", "done"}]
    /\ bnum \in [BlockProcs -> BlockRange \cup {NoBlock}]
    /\ aproc \in [AddrProcs -> {"receive", "extract", "write", "done"}]
    /\ anum \in [AddrProcs -> BlockRange \cup {NoBlock}]
    /\ ripe \subseteq Traced /\ unripe \subseteq Traced
    /\ hexNamed \subseteq BlockRange \cap LogBlocks /\ torn \subseteq BlockRange \ EmptyBlocks

\* A send on a closed channel would panic: nobody has a block for addressChannel when
\* it is closed.
ClosedInTime == addrClosed => \A p \in BlockProcs : bproc[p] \notin {"query", "send"}

\* A block is in one place: still to come, in one goroutine's hands, or in a file.
OnePlace ==
    /\ \A p \in BlockProcs, q \in AddrProcs : bnum[p] # NoBlock => bnum[p] # anum[q]
    /\ \A p, q \in BlockProcs : bnum[p] # NoBlock /\ bnum[p] = bnum[q] => p = q
    /\ \A p, q \in AddrProcs : anum[p] # NoBlock /\ anum[p] = anum[q] => p = q
    /\ \A b \in BlockRange : b < block /\ b \notin EmptyBlocks =>
          \/ \E p \in BlockProcs : bnum[p] = b
          \/ \E q \in AddrProcs : anum[q] = b
          \/ b \in ripe \cup unripe \cup hexNamed

Status == IF exited THEN "nonzero" ELSE IF main = "done" THEN "zero" ELSE "running"

Abstract == INSTANCE BlazeSpec
    WITH BlockRange <- Traced, RipeBlocks <- RipeBlocks \cap Traced,
         torn <- torn \ LogBlocks, status <- Status

\* blaze keeps what blockScrape relies on, for the blocks that have traces: returning
\* zero means that each of them has its whole file in its folder, named by its number.
ImplementsBlaze == Abstract!Spec

\* Two pools and two unbuffered channels never wait for each other for ever.
BlazeEnds == <>(~ Alive)
=============================================================================
