------------------------------- MODULE Unchain -------------------------------
(***************************************************************************)
(* pinlib_getChunkFromRemote and its callers: pinMan --init and acctExport *)
(* fetch the blooms and the chunks of the manifest from IPFS.  curl writes *)
(* the .gz, gunzip writes the file, each straight under its final name;    *)
(* what exists is taken to be complete.                                    *)
(*                                                                         *)
(* A file that is removed while a command writes it lives on without a     *)
(* name: only what the last command to create or truncate the name writes  *)
(* is seen.  curl and gunzip are external; Ctrl-C stops them as a failure. *)
(***************************************************************************)
EXTENDS Integers

CONSTANTS Procs, Files,
          CrashIn,      \* "download", "unpack": where the machine may stop
          MaxCrashes,   \* bound
          Nobody

UnchainConstants ==
    /\ CrashIn \subseteq {"download", "unpack"}
    /\ MaxCrashes \in Nat
    /\ Nobody \notin Procs

VARIABLES
    zip,       \* the .gz of each file
    zipBy,     \* the process whose curl writes what the name refers to
    out,       \* the file itself
    outBy,     \* the process whose gunzip writes what the name refers to
    pc, file,  \* file: what each process fetches
    unzips,    \* the state of the .gz when its gunzip began
    seen,      \* what each process last found in a file it was told is there
    crashes

vars == <<zip, zipBy, out, outBy, pc, file, unzips, seen, crashes>>

Labels == {"idle", "zip?", "curl", "curling", "unzip?", "gunzip", "gunzipping",
           "cleanup", "there?", "use"}

Init ==
    /\ zip = [f \in Files |-> "none"] /\ out = [f \in Files |-> "none"]
    /\ zipBy = [f \in Files |-> Nobody] /\ outBy = [f \in Files |-> Nobody]
    /\ pc = [p \in Procs |-> "idle"] /\ file \in [Procs -> Files]
    /\ unzips = [p \in Procs |-> "none"]
    /\ seen = [p \in Procs |-> "none"]
    /\ crashes = 0

At(p, label) == pc[p] = label
Goto(p, label) == pc' = [pc EXCEPT ![p] = label]
SetZip(f, what, who) == zip' = [zip EXCEPT ![f] = what] /\ zipBy' = [zipBy EXCEPT ![f] = who]
SetOut(f, what, who) == out' = [out EXCEPT ![f] = what] /\ outBy' = [outBy EXCEPT ![f] = who]
zipVars == <<zip, zipBy>>
outVars == <<out, outBy>>

FindFileAnyway(p) ==
    /\ At(p, "idle")
    /\ \E f \in Files : file' = [file EXCEPT ![p] = f]
    /\ Goto(p, "zip?")
    /\ UNCHANGED <<zipVars, outVars, unzips, seen, crashes>>

FindFile(p) ==
    /\ At(p, "idle")
    /\ \E f \in Files :
          /\ file' = [file EXCEPT ![p] = f]
          /\ Goto(p, IF out[f] # "none" THEN "use" ELSE "zip?")
    /\ UNCHANGED <<zipVars, outVars, unzips, seen, crashes>>

FindZip(p) ==
    /\ At(p, "zip?")
    /\ Goto(p, IF zip[file[p]] = "none" THEN "curl" ELSE "unzip?")
    /\ UNCHANGED <<zipVars, outVars, file, unzips, seen, crashes>>

\* curl -o creates or truncates the file when the first bytes arrive...
CurlOpens(p) ==
    /\ At(p, "curl")
    /\ SetZip(file[p], "partial", p)
    /\ Goto(p, "curling")
    /\ UNCHANGED <<outVars, file, unzips, seen, crashes>>

\* ...and returns 0 with the whole file, or with an error page of the gateway.
CurlReturns(p) ==
    /\ At(p, "curling")
    /\ \E got \in {"good", "bad"} :
          zip' = [zip EXCEPT ![file[p]] = IF zipBy[file[p]] = p THEN got ELSE @]
    /\ Goto(p, "unzip?")
    /\ UNCHANGED <<zipBy, outVars, file, unzips, seen, crashes>>

CurlFails(p) ==
    /\ pc[p] \in {"curl", "curling"}
    /\ SetZip(file[p], "none", Nobody)
    /\ Goto(p, "unzip?")
    /\ UNCHANGED <<outVars, file, unzips, seen, crashes>>

HaveZip(p) ==
    /\ At(p, "unzip?")
    /\ Goto(p, IF zip[file[p]] # "none" THEN "gunzip" ELSE "there?")
    /\ UNCHANGED <<zipVars, outVars, file, unzips, seen, crashes>>

\* gunzip --keep does not overwrite a file (not without asking): it fails.
GunzipOpens(p) ==
    /\ At(p, "gunzip")
    /\ IF zip[file[p]] = "none" \/ out[file[p]] # "none"
       THEN Goto(p, "cleanup") /\ UNCHANGED <<outVars, unzips>>
       ELSE /\ SetOut(file[p], "partial", p)
            /\ unzips' = [unzips EXCEPT ![p] = zip[file[p]]]
            /\ Goto(p, "gunzipping")
    /\ UNCHANGED <<zipVars, file, seen, crashes>>

\* A .gz that changes under gunzip may be read whole or not.
GunzipReturns(p) ==
    /\ At(p, "gunzipping")
    /\ "good" \in {unzips[p], zip[file[p]]}
    /\ out' = [out EXCEPT ![file[p]] = IF outBy[file[p]] = p THEN "good" ELSE @]
    /\ Goto(p, "there?")
    /\ UNCHANGED <<zipVars, outBy, file, unzips, seen, crashes>>

\* It fails, or Ctrl-C stops it: it removes what it has written.
GunzipFailsKeeps(p) ==
    /\ At(p, "gunzipping")
    /\ Goto(p, "there?")
    /\ UNCHANGED <<zipVars, outVars, file, unzips, seen, crashes>>

GunzipFails(p) ==
    /\ At(p, "gunzipping")
    /\ SetOut(file[p], "none", Nobody)
    /\ Goto(p, "cleanup")
    /\ UNCHANGED <<zipVars, file, unzips, seen, crashes>>

CleanupKeepsZip(p) ==
    /\ At(p, "cleanup")
    /\ SetOut(file[p], "none", Nobody)
    /\ Goto(p, "there?")
    /\ UNCHANGED <<zipVars, file, unzips, seen, crashes>>

\* "clean up on failure": both files.
Cleanup(p) ==
    /\ At(p, "cleanup")
    /\ SetZip(file[p], "none", Nobody) /\ SetOut(file[p], "none", Nobody)
    /\ Goto(p, "there?")
    /\ UNCHANGED <<file, unzips, seen, crashes>>

\* getChunkFromRemote returns true; its caller looks whether the file exists.
FileThere(p) ==
    /\ At(p, "there?")
    /\ Goto(p, IF out[file[p]] # "none" THEN "use" ELSE "idle")
    /\ UNCHANGED <<zipVars, outVars, file, unzips, seen, crashes>>

\* visitBinaryFile reads the chunk, or fails to open it.
Use(p) ==
    /\ At(p, "use")
    /\ seen' = [seen EXCEPT ![p] = out[file[p]]]
    /\ Goto(p, "idle")
    /\ UNCHANGED <<zipVars, outVars, file, unzips, crashes>>

\* The machine, or the container, stops: files stay as they are.
Crash ==
    /\ crashes < MaxCrashes /\ CrashIn # {}
    /\ "unpack" \in CrashIn \/ \A p \in Procs : pc[p] # "gunzipping"
    /\ crashes' = crashes + 1
    /\ pc' = [p \in Procs |-> "idle"]
    /\ unzips' = [p \in Procs |-> "none"] /\ seen' = [p \in Procs |-> "none"]
    /\ zipBy' = [f \in Files |-> Nobody] /\ outBy' = [f \in Files |-> Nobody]
    /\ UNCHANGED <<zip, out, file>>

Step(p) ==
    \/ FindFile(p) \/ FindZip(p) \/ CurlOpens(p) \/ CurlReturns(p) \/ CurlFails(p)
    \/ HaveZip(p) \/ GunzipOpens(p) \/ GunzipReturns(p) \/ GunzipFails(p)
    \/ Cleanup(p) \/ FileThere(p) \/ Use(p)

Next == Crash \/ \E p \in Procs : Step(p)

Spec == Init /\ [][Next]_vars

\* The tools are run again and again over all files; neither the gateway nor
\* the user's Ctrl-C is against a file for ever.
FairSpec ==
    /\ Spec
    /\ \A p \in Procs :
         /\ WF_vars(Step(p))
         /\ SF_vars(GunzipReturns(p))
         /\ \A f \in Files :
              /\ SF_vars(FindFile(p) /\ file'[p] = f /\ out[f] = "none")
              /\ SF_vars(CurlOpens(p) /\ file[p] = f)
              /\ SF_vars(CurlReturns(p) /\ file[p] = f /\ zip'[f] = "good")

-----------------------------------------------------------------------------
\* Every variable has its type.
TypeOK ==
    /\ zip \in [Files -> {"none", "partial", "good", "bad"}]
    /\ out \in [Files -> {"none", "partial", "good"}]
    /\ zipBy \in [Files -> Procs \cup {Nobody}]
    /\ outBy \in [Files -> Procs \cup {Nobody}]
    /\ pc \in [Procs -> Labels] /\ file \in [Procs -> Files]
    /\ unzips \in [Procs -> {"none", "partial", "good", "bad"}]
    /\ seen \in [Procs -> {"none", "partial", "good"}]
    /\ crashes \in 0..MaxCrashes

\* A process that is told its chunk exists reads the whole chunk, never the
\* beginning of one: visitBinaryFile would miss appearances and still record
\* the chunk as visited.
NeverReadsPart == \A p \in Procs : seen[p] # "partial"

\* "clean up on failure": the failure of one run removes nothing but its own
\* remains; a chunk that has arrived stays.
KeepsWhatArrived == [][\A f \in Files : out[f] = "good" => out'[f] = "good"]_vars

\* After interrupted downloads, error pages and crashes that leave half a .gz
\* behind, running the tool again gets every file: nothing left over is in the
\* way for ever.
AllArrive == <>[](\A f \in Files : out[f] = "good")
=============================================================================
