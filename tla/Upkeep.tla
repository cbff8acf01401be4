------------------------------- MODULE Upkeep -------------------------------
(***************************************************************************)
(* Files that are kept up to date: ts.bin behind its lock (Timestamps,     *)
(* which this module extends) and, beside it, chunks fetched from IPFS and *)
(* the search for the block of a date.                                     *)
(***************************************************************************)
EXTENDS Timestamps

CONSTANTS
    Fetchers, Files, CrashIn, MaxCrashes, Nobody,   \* of Unchain
    Latest, MaxTs, MaxStop                          \* of TsSearch

VARIABLES
    zip, zipBy, out, outBy, upc, chunk, unzips, seen, crashes,
    stamps, target, first, last, result

fetch == <<zip, zipBy, out, outBy, upc, chunk, unzips, seen, crashes>>
dates == <<stamps, target, first, last, result>>

Fetch == INSTANCE Unchain WITH Procs <- Fetchers, pc <- upc, file <- chunk
Dates == INSTANCE TsSearch WITH ts <- stamps

ASSUME FetchConstants == Fetch!UnchainConstants
ASSUME DateConstants == Dates!SearchConstants

-----------------------------------------------------------------------------
\* pinlib_getChunkFromRemote: no part of a chunk is ever taken for the chunk.
NeverReadsPart == Fetch!TypeOK /\ Fetch!NeverReadsPart

\* pinlib_getChunkFromRemote, "clean up on failure": a chunk that has arrived stays.
KeepsWhatArrived == Fetch!KeepsWhatArrived

\* findTimestamp_binarySearch, README of whenBlock: the answer is the block that occurred
\* at or before the date.
AtOrBefore == Dates!AtOrBefore
=============================================================================
