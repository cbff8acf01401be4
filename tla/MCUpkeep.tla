------------------------------ MODULE MCUpkeep ------------------------------
(***************************************************************************)
(* Files that are kept up to date, for TLC: ts.bin behind its lock, locks  *)
(* that are taken in every way, chunks fetched from IPFS, the prices, and  *)
(* the search for the block of a date.                                     *)
(* They share no state, so a behaviour of this module is one of a single   *)
(* part; the others stay as they began.                                    *)
(***************************************************************************)
EXTENDS Upkeep, TLC

CONSTANTS p1, q1, q2, f1, NoFile, Hollow

VARIABLES
    part,
    lck2, pc2, looks2, owns2, listed2, faults2, renewed2, abandoned2,
    now, prices, proc, fails, kills

locks == <<lck2, pc2, looks2, owns2, listed2, faults2, renewed2, abandoned2>>
quotes == <<now, prices, proc, fails, kills>>
all == <<part, vars, locks, fetch, quotes, dates>>

\* freshenTimestamps: Lock(tsIndex, modeWriteAppend, LOCK_NOWAIT).
MCKind == [p \in Procs |-> "createWriter"]

\* A file with a LOCK_CREATE writer, and a LOCK_WAIT writer or reader.
Writers == INSTANCE FileLock WITH
    Procs <- {q1, q2}, Kind <- (q1 :> "createWriter" @@ q2 :> "waitWriter"),
    maxSecondsLock <- 2, MaxFaults <- 2,
    lck <- lck2, pc <- pc2, looks <- looks2, owns <- owns2, listed <- listed2,
    faults <- faults2, renewed <- renewed2, abandoned <- abandoned2

Reader == INSTANCE FileLock WITH
    Procs <- {q1, q2}, Kind <- (q1 :> "createWriter" @@ q2 :> "waitReader"),
    maxSecondsLock <- 2, MaxFaults <- 2,
    lck <- lck2, pc <- pc2, looks <- looks2, owns <- owns2, listed <- listed2,
    faults <- faults2, renewed <- renewed2, abandoned <- abandoned2

\* Trading began within the first window of five periods, in the middle of a day.
Quotes == INSTANCE Prices WITH
    Procs <- {p1}, Freshens <- {TRUE}, Listed <- 3 .. 11, LastPeriod <- 11,
    Window <- 5, Day <- 4, Every <- 2, Btc <- FALSE, MaxFails <- 2, MaxKills <- 0,
    file <- prices

ASSUME Writers!LockConstants /\ Reader!LockConstants /\ Quotes!PriceConstants

\* A chain of one block.
NoDates == stamps = <<1>> /\ target = 1 /\ first = 1 /\ last = 1 /\ result = 0

UpInit ==
    /\ part \in {"timestamps", "writers", "reader", "fetch", "prices", "dates"}
    /\ TsInit /\ Writers!Init /\ Fetch!Init /\ Quotes!Init
    /\ part # "timestamps" => ts = << >>
    /\ part # "prices" => now = 0
    /\ \/ part = "dates" /\ Dates!Init
       \/ part # "dates" /\ NoDates

UpNext ==
    /\ UNCHANGED part
    /\ \/ part = "timestamps" /\ TsNext /\ UNCHANGED <<locks, fetch, quotes, dates>>
       \/ part = "writers" /\ Writers!Next /\ UNCHANGED <<vars, fetch, quotes, dates>>
       \/ part = "reader" /\ Reader!Next /\ UNCHANGED <<vars, fetch, quotes, dates>>
       \/ part = "fetch" /\ Fetch!Next /\ UNCHANGED <<vars, locks, quotes, dates>>
       \/ part = "prices" /\ Quotes!Next /\ UNCHANGED <<vars, locks, fetch, dates>>
       \/ part = "dates" /\ Dates!Next /\ UNCHANGED <<vars, locks, fetch, quotes>>
       \/ part = "dates" /\ result # 0 /\ UNCHANGED <<vars, locks, fetch, quotes, dates>>

\* The fairness of each part, as its module states it.
UpFairSpec ==
    /\ UpInit /\ [][UpNext]_all
    /\ \A p \in Procs :
          /\ WF_vars(part = "timestamps" /\ (Work(p) \/ (Step(p) /\ UNCHANGED tsVars)))
          /\ WF_vars(part = "timestamps" /\ FreshenBegin(p, MaxBlock))
    /\ \A q \in {q1, q2} :
          /\ WF_locks(part = "writers" /\ (Writers!Step(q) \/ Writers!Close(q)))
          /\ WF_locks(part = "reader" /\ (Reader!Step(q) \/ Reader!Close(q)))
    /\ \A p \in Fetchers :
          /\ WF_fetch(part = "fetch" /\ Fetch!Step(p))
          /\ SF_fetch(part = "fetch" /\ Fetch!GunzipReturns(p))
          /\ SF_fetch(part = "fetch" /\ Fetch!FindFile(p) /\ out[f1] = "none")
          /\ SF_fetch(part = "fetch" /\ Fetch!CurlOpens(p))
          /\ SF_fetch(part = "fetch" /\ Fetch!CurlReturns(p) /\ zip'[f1] = "good")
    /\ WF_quotes(part = "prices" /\ Quotes!Advance(p1))
    /\ WF_dates(part = "dates" /\ Dates!Next)

-----------------------------------------------------------------------------
(* What the modules promise, of the part that runs *)

\* CSharedResource::createLock: a stale lock never keeps a LOCK_CREATE writer out, and
\* neither do the other users of the file.
StaleLockIsBroken == []Writers!TypeOK /\ Writers!BreakerGetsIn

\* findTimestamp_binarySearch: the range shrinks, every search comes to an answer.
SearchComesToAnEnd == part = "dates" => Dates!SearchEnds

\* Each file gets up to date when its tool is run again and again: ts.bin gets to the
\* last block asked for, through all faults but one that leaves its lock behind
\* (freshenTimestamps); every chunk arrives, whatever failed runs leave over
\* (pinlib_getChunkFromRemote); every quote, a window at a time (loadPriceData).
FilesCatchUp ==
    /\ part = "timestamps" => []TsTypeOK /\ TsCatchesUp
    /\ part = "fetch" => Fetch!AllArrive
    /\ part = "prices" => Quotes!UpToDate
=============================================================================
