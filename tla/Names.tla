-------------------------------- MODULE Names --------------------------------
(***************************************************************************)
(* The names database: names.tab, names_custom.tab and the prefunds, read  *)
(* by loadNames of every tool and kept in the cache names.bin, and edited  *)
(* by ethNames (create, update, delete, undelete, remove), which rewrites  *)
(* one of the two text files from the map that it has loaded.              *)
(***************************************************************************)
EXTENDS Naturals, FiniteSets

CONSTANTS Addrs, Prefunds,   \* addresses; those of the genesis block
          Values,            \* what a name can be
          Editors, Readers,  \* processes: ethNames with a command, any other tool
          Commands,          \* the commands given: [crud, addr, val, env, to]
          Careful,           \* a name is edited in the file that it came from
          Serial,            \* one process at a time
          MaxShipped,        \* bound on the names that a file starts with
          MaxCmds,           \* bound on the lines of a file of commands (--file)
          MaxKills,          \* bound on kills
          MaxClock,          \* bound on the seconds that pass
          Torn,              \* a file opened for writing, nothing in it yet
          None               \* no file

Procs == Editors \cup Readers
Files == {"regular", "custom"}       \* names.tab and names_custom.tab
Entry == [val : Values \cup {"Prefund"}, cus : BOOLEAN, pre : BOOLEAN, del : BOOLEAN]
Maps == UNION {[S -> Entry] : S \in SUBSET Addrs}
NoNames == [a \in {} |-> 0]
NoCmd == [crud |-> "none"]

NamesConstants ==
    /\ Prefunds \subseteq Addrs /\ Editors \cap Readers = {}
    /\ Commands \subseteq [crud : {"create", "update", "delete", "undelete", "remove"},
                           addr : Addrs, val : Values, env : BOOLEAN, to : BOOLEAN]
    /\ Careful \in BOOLEAN /\ Serial \in BOOLEAN
    /\ MaxShipped \in Nat /\ MaxCmds \in Nat /\ MaxKills \in Nat /\ MaxClock \in Nat \ {0}
    /\ Torn \notin Maps /\ None \notin Maps \cup {Torn}

VARIABLES
    file,    \* the two text files
    bin,     \* names.bin: a map, Torn or None
    date,    \* the seconds the three were last written in
    clock,
    lck,     \* the text files that have a lock file
    pc,      \* where a process is
    map,     \* its namesMap
    cmd,     \* the line of options it is carrying out, or carried out last
    crud,    \* crudCommands[0], which no later line replaces
    cmds,    \* how many it has taken
    pf,      \* expContext().prefundMap is loaded
    kills,
    want     \* the names the user should see: what the commands done so far say

vars == <<file, bin, date, clock, lck, pc, map, cmd, crud, cmds, pf, kills, want>>

----------------------------------------------------------------------------
\* addToMap: the first file that has an address wins.
Merge(m, f) == [a \in DOMAIN m \cup DOMAIN f |-> IF a \in DOMAIN m THEN m[a] ELSE f[a]]

Prefund == [val |-> "Prefund", cus |-> FALSE, pre |-> TRUE, del |-> FALSE]

AddRegular(f) == f
AddCustom(m, f) == Merge(m, [a \in DOMAIN f |-> [f[a] EXCEPT !.cus = TRUE]])
AddPrefunds(m) == Merge(m, [a \in Prefunds |-> Prefund])

\* What loadNames makes of the text files.
View(f) == AddPrefunds(AddCustom(AddRegular(f["regular"]), f["custom"]))

\* What the two files may hold when the first tool starts.
Shipped == {[regular |-> r, custom |-> c] :
              r \in {m \in Maps : Cardinality(DOMAIN m) <= MaxShipped
                                  /\ \A a \in DOMAIN m : ~m[a].cus /\ ~m[a].pre /\ ~m[a].del /\ m[a].val \in Values},
              c \in {m \in Maps : Cardinality(DOMAIN m) <= MaxShipped
                                  /\ \A a \in DOMAIN m : m[a].cus /\ ~m[a].pre /\ ~m[a].del /\ m[a].val \in Values}}

Init ==
    /\ file \in {f \in Shipped : DOMAIN f["regular"] \cap DOMAIN f["custom"] = {}}
    /\ bin = None
    /\ date = [x \in Files \cup {"bin"} |-> 0]
    /\ clock = 1
    /\ lck = {}
    /\ pc = [p \in Procs |-> "off"]
    /\ map = [p \in Procs |-> NoNames]
    /\ cmd = [p \in Procs |-> NoCmd]
    /\ crud = [p \in Procs |-> "none"]
    /\ cmds = [p \in Procs |-> 0]
    /\ pf = [p \in Procs |-> FALSE]
    /\ kills = 0
    /\ want = View(file)

Tick ==
    /\ clock < MaxClock
    /\ clock' = clock + 1
    /\ UNCHANGED <<file, bin, date, lck, pc, map, cmd, crud, cmds, pf, kills, want>>

Start(p) ==
    /\ pc[p] = "off"
    /\ Serial => \A q \in Procs : pc[q] \in {"off", "done"}
    /\ pc' = [pc EXCEPT ![p] = "dates"]
    /\ UNCHANGED <<file, bin, date, clock, lck, map, cmd, crud, cmds, pf, kills, want>>

\* loadNames: the cache is used only if it is newer than the text files.
BinIsNewer == bin # None /\ \A f \in Files : date["bin"] > date[f]

Dates(p) ==
    /\ pc[p] = "dates"
    /\ pc' = [pc EXCEPT ![p] = IF BinIsNewer THEN "bin" ELSE "regular"]
    /\ UNCHANGED <<file, bin, date, clock, lck, map, cmd, crud, cmds, pf, kills, want>>

\* The cache is read without a lock; one that is empty gives no names.
ReadBin(p) ==
    /\ pc[p] = "bin"
    /\ IF bin = None
       THEN pc' = [pc EXCEPT ![p] = "regular"] /\ UNCHANGED map
       ELSE /\ map' = [map EXCEPT ![p] = IF bin = Torn THEN NoNames ELSE bin]
            /\ pc' = [pc EXCEPT ![p] = "ready"]
    /\ UNCHANGED <<file, bin, date, clock, lck, cmd, crud, cmds, pf, kills, want>>

\* importTabFile of names.tab; without a header the tool gives up.
ReadRegular(p) ==
    /\ pc[p] = "regular"
    /\ IF file["regular"] = Torn
       THEN pc' = [pc EXCEPT ![p] = "done"] /\ UNCHANGED map
       ELSE /\ map' = [map EXCEPT ![p] = AddRegular(file["regular"])]
            /\ pc' = [pc EXCEPT ![p] = "custom"]
    /\ UNCHANGED <<file, bin, date, clock, lck, cmd, crud, cmds, pf, kills, want>>

\* A plausible slip: the names are cached before the prefunds are added.
ReadCustomFirst(p) ==
    /\ pc[p] = "custom"
    /\ file["custom"] # Torn
    /\ map' = [map EXCEPT ![p] = AddCustom(map[p], file["custom"])]
    /\ pc' = [pc EXCEPT ![p] = "cutbin"]
    /\ UNCHANGED <<file, bin, date, clock, lck, cmd, crud, cmds, pf, kills, want>>

\* ... of names_custom.tab, and of the prefunds, which never change.
ReadCustom(p) ==
    /\ pc[p] = "custom"
    /\ IF file["custom"] = Torn
       THEN pc' = [pc EXCEPT ![p] = "done"] /\ UNCHANGED map
       ELSE /\ map' = [map EXCEPT ![p] = AddPrefunds(AddCustom(map[p], file["custom"]))]
            /\ pc' = [pc EXCEPT ![p] = "cutbin"]
    /\ UNCHANGED <<file, bin, date, clock, lck, cmd, crud, cmds, pf, kills, want>>

\* names.bin is opened for writing, under a lock, and filled.
CutBin(p) ==
    /\ pc[p] = "cutbin"
    /\ \A q \in Procs : pc[q] # "fillbin"
    /\ bin' = Torn /\ date' = [date EXCEPT !["bin"] = clock]
    /\ pc' = [pc EXCEPT ![p] = "fillbin"]
    /\ UNCHANGED <<file, clock, lck, map, cmd, crud, cmds, pf, kills, want>>

FillBin(p) ==
    /\ pc[p] = "fillbin"
    /\ bin' = map[p] /\ date' = [date EXCEPT !["bin"] = clock]
    /\ pc' = [pc EXCEPT ![p] = "ready"]
    /\ UNCHANGED <<file, clock, lck, map, cmd, crud, cmds, pf, kills, want>>

----------------------------------------------------------------------------
Dest(c) == IF c.to THEN "custom" ELSE "regular"

\* The name that a create or an update puts in: custom if the environment or the
\* option says so, a prefund if the map of the prefunds is loaded and has it.
Target(p, c) == [val |-> c.val, cus |-> c.env \/ c.to, pre |-> pf[p] /\ c.addr \in Prefunds,
                 del |-> FALSE]

\* The name e in the place of the one of a, or added to the others.
Put(m, a, e) == [x \in DOMAIN m \cup {a} |-> IF x = a THEN e ELSE m[x]]

\* namesMap with the command carried out on it.
Edited(p, c) ==
    LET m == map[p]
        has == c.addr \in DOMAIN m
        without == [a \in DOMAIN m \ {c.addr} |-> m[a]]
    IN CASE crud[p] = "remove" -> without
         [] crud[p] \in {"delete", "undelete"} /\ has ->
                [m EXCEPT ![c.addr].del = (crud[p] = "delete")]
         [] crud[p] = "create" \/ (crud[p] = "update" /\ has) -> Put(m, c.addr, Target(p, c))
         [] OTHER -> m

\* A plausible slip: everything that is known goes to the file.
OutputAll(p, c) ==
    LET m == Edited(p, c) IN [a \in {x \in DOMAIN m : ~m[x].pre} |-> m[a]]

\* pushToOutput, and the prefunds left out: the lines of the file written.
Output(p, c) ==
    LET m == Edited(p, c)
        kept == {a \in DOMAIN m : m[a].cus = c.to /\ ~m[a].pre}
    IN [a \in kept |-> m[a]]

\* What the user expects of the command: that name, and no other.
Wanted(c) ==
    LET has == c.addr \in DOMAIN want
        given == [val |-> c.val, cus |-> c.to, pre |-> FALSE, del |-> FALSE]
    IN CASE c.crud = "remove" -> AddPrefunds([a \in DOMAIN want \ {c.addr} |-> want[a]])
         [] c.crud \in {"delete", "undelete"} /\ has -> [want EXCEPT ![c.addr].del = (c.crud = "delete")]
         [] c.crud = "create" \/ (c.crud = "update" /\ has) -> Put(want, c.addr, given)
         [] OTHER -> want

\* A command of a careful user: a name is edited in the file it came from (a
\* prefund in either), and a prefund itself is neither deleted nor removed.
Proper(p, c) ==
    LET m == map[p]
        known == c.addr \in DOMAIN m /\ ~m[c.addr].pre
    IN /\ c.env => c.to
       /\ known => m[c.addr].cus = c.to
       /\ c.crud \in {"delete", "undelete", "remove"} => known

processEditCommand(p, c) ==
    /\ pc[p] = "ready" /\ p \in Editors
    /\ cmds[p] < MaxCmds
    /\ Careful => Proper(p, c)
    /\ cmd' = [cmd EXCEPT ![p] = c]
    /\ crud' = [crud EXCEPT ![p] = IF @ = "none" THEN c.crud ELSE @]
    /\ cmds' = [cmds EXCEPT ![p] = @ + 1]
    /\ pc' = [pc EXCEPT ![p] = "cuttext"]
    /\ UNCHANGED <<file, bin, date, clock, lck, map, pf, kills, want>>

\* stringToAsciiFile: a lock that nobody lets go of is waited for, and then
\* the file is not written.
CutText(p) ==
    LET f == Dest(cmd[p])
        held == \E q \in Procs : pc[q] = "puttext" /\ Dest(cmd[q]) = f
    IN /\ pc[p] = "cuttext"
       /\ ~held
       /\ IF f \in lck
          THEN pc' = [pc EXCEPT ![p] = "rmbin"] /\ UNCHANGED <<file, date, lck>>
          ELSE /\ file' = [file EXCEPT ![f] = Torn] /\ date' = [date EXCEPT ![f] = clock]
               /\ lck' = lck \cup {f}
               /\ pc' = [pc EXCEPT ![p] = "puttext"]
       /\ UNCHANGED <<bin, clock, map, cmd, crud, cmds, pf, kills, want>>

PutText(p) ==
    LET f == Dest(cmd[p])
    IN /\ pc[p] = "puttext"
       /\ file' = [file EXCEPT ![f] = Output(p, cmd[p])]
       /\ date' = [date EXCEPT ![f] = clock]
       /\ lck' = lck \ {f}
       /\ pc' = [pc EXCEPT ![p] = "rmbin"]
       /\ UNCHANGED <<bin, clock, map, cmd, crud, cmds, pf, kills, want>>

\* The end of processEditCommand; the names are then loaded again, and now
\* with the prefunds.
RemoveBin(p) ==
    /\ pc[p] = "rmbin"
    /\ bin' = None
    /\ map' = [map EXCEPT ![p] = NoNames]
    /\ pf' = [pf EXCEPT ![p] = TRUE]
    /\ want' = Wanted(cmd[p])
    /\ pc' = [pc EXCEPT ![p] = "dates"]
    /\ UNCHANGED <<file, date, clock, lck, cmd, crud, cmds, kills>>

End(p) ==
    /\ pc[p] = "ready"
    /\ pc' = [pc EXCEPT ![p] = "done"]
    /\ UNCHANGED <<file, bin, date, clock, lck, map, cmd, crud, cmds, pf, kills, want>>

Kill(p) ==
    /\ kills < MaxKills
    /\ pc[p] \notin {"off", "done"}
    /\ pc' = [pc EXCEPT ![p] = "done"]
    /\ kills' = kills + 1
    /\ UNCHANGED <<file, bin, date, clock, lck, map, cmd, crud, cmds, pf, want>>

Next ==
    \/ Tick
    \/ \E p \in Procs :
        \/ Start(p) \/ Dates(p) \/ ReadBin(p) \/ ReadRegular(p) \/ ReadCustom(p)
        \/ CutBin(p) \/ FillBin(p)
        \/ \E c \in Commands : processEditCommand(p, c)
        \/ CutText(p) \/ PutText(p) \/ RemoveBin(p)
        \/ End(p) \/ Kill(p)

Spec == Init /\ [][Next]_vars

----------------------------------------------------------------------------
\* Every file, cache and map is a database or one of the marks for none.
TypeOK ==
    /\ \A f \in Files : file[f] \in Maps \cup {Torn}
    /\ bin \in Maps \cup {Torn, None}
    /\ date \in [Files \cup {"bin"} -> 0 .. MaxClock]
    /\ lck \subseteq Files
    /\ \A p \in Procs : map[p] \in Maps
    /\ \A f \in Files : file[f] # Torn =>
           \A a \in DOMAIN file[f] : file[f][a].cus = (f = "custom") /\ ~file[f][a].pre

\* processEditCommand: when no command is at work, the files hold what the
\* commands done so far say: each one has taken effect, and no other name has
\* changed or gone.
NamesAsWanted ==
    (\A p \in Procs : pc[p] \notin {"cuttext", "puttext", "rmbin"})
        => /\ \A f \in Files : file[f] # Torn
           /\ View(file) = want

\* loadNames: a tool that has loaded the names has those of the files, whether
\* they came from the text or from the cache.
LoadsAreFresh ==
    (\A p \in Procs : pc[p] \notin {"cuttext", "puttext", "rmbin"})
        => \A p \in Procs : pc[p] = "ready" => map[p] = want

\* loadNames: a cache that the next tool will use, since it is newer than the
\* text files, and that nobody is writing, holds their names.
CacheIsFresh ==
    (\A p \in Procs : pc[p] \notin {"cuttext", "puttext", "rmbin", "fillbin"})
        => (BinIsNewer => bin = want)
=============================================================================
