------------------------------ MODULE Manifest ------------------------------
(***************************************************************************)
(* The manifest of pinned chunks and its binary copy.  manifest.txt lists  *)
(* one chunk per line, newest first; tmp/pins.bin holds the same records   *)
(* and is read instead of the text when its modification time, in whole    *)
(* seconds, is later.                                                      *)
(*                                                                         *)
(* The scraper (--pin) pins each chunk it has written: pinlib_pinChunk     *)
(* writes pins.bin, visitToPin then writes manifest.txt by reading it and  *)
(* writing it anew with one more line.  Every other tool reads; pinMan     *)
(* --init replaces manifest.txt by the published one and reads it.         *)
(*                                                                         *)
(* A record carries the name of its chunk in one of two forms: pinChunk    *)
(* enters the full path it was given ("full"), a line of the manifest has  *)
(* the bare range of blocks ("short"), and names are compared as they are. *)
(***************************************************************************)
EXTENDS Integers, Sequences, FiniteSets

CONSTANTS Scraper, Readers, Initer,
          Procs,        \* the processes of this instance
          Published,    \* the published manifest has chunks 1..Published
          Local,        \* the manifest has 1..Local to begin with
          K,            \* bound: the last chunk the scraper writes
          MaxTime,      \* bound: seconds that pass
          MaxKills,     \* bound
          PinFails,     \* the pinning service may fail
          Concurrent,   \* a tool may start while another one runs
          Torn          \* a kill may fall between truncating and writing

ManifestConstants ==
    /\ Procs \subseteq {Scraper, Initer} \cup Readers
    /\ Scraper \notin Readers \cup {Initer} /\ Initer \notin Readers
    /\ K \in Nat \ {0} /\ Local \in Nat /\ Published \in Local..K
    /\ MaxTime \in Nat \ {0} /\ MaxKills \in Nat
    /\ PinFails \in BOOLEAN /\ Concurrent \in BOOLEAN /\ Torn \in BOOLEAN

VARIABLES
    text, textTime,   \* manifest.txt: its lines and when it was written
    bin, binTime,     \* pins.bin; time 0 when there is none
    clock,
    pinned,           \* external: what the pinning service holds
    cur,              \* the chunk the scraper writes next
    pc, pins,         \* pins: the array of pins in memory, per process
    item,             \* pinRecord of visitToPin
    buffer,           \* what is about to be written to manifest.txt
    got,              \* the chunks of the manifest --init has downloaded
    kills

vars == <<text, textTime, bin, binTime, clock, pinned, cur, pc, pins, item,
          buffer, got, kills>>
textVars == <<text, textTime>>
binVars == <<bin, binTime>>
scrapeVars == <<pinned, cur, item>>

Record == [c : 1..K, name : {"short", "full"}, index : BOOLEAN, bloom : BOOLEAN]

Line(c) == [c |-> c, name |-> "short", index |-> TRUE, bloom |-> TRUE]
LinesTo(n) == [i \in 1..n |-> Line(n + 1 - i)]
NewRecord(c) == [c |-> c, name |-> "full", index |-> FALSE, bloom |-> FALSE]
Set(s) == {s[i] : i \in DOMAIN s}

Init ==
    /\ text = LinesTo(Local) /\ textTime = 1
    /\ bin = {} /\ binTime = 0 /\ clock = 1
    /\ pinned = (1..Published) \X {"index", "bloom"}
    /\ cur = Local + 1
    /\ pc = [p \in Procs |-> "idle"] /\ pins = [p \in Procs |-> {}]
    /\ item = NewRecord(1) /\ buffer = <<>> /\ got = {}
    /\ kills = 0

At(p, label) == p \in Procs /\ pc[p] = label
Goto(p, label) == pc' = [pc EXCEPT ![p] = label]
MayStart(p) == pc[p] = "idle" /\ (Concurrent \/ \A q \in Procs : pc[q] = "idle")

Tick ==
    /\ clock < MaxTime /\ clock' = clock + 1
    /\ UNCHANGED <<textVars, binVars, scrapeVars, pc, pins, buffer, got, kills>>

\* The scraper calls visitToPin for the chunk it has just written; the other
\* tools begin with pinlib_readManifest.
Start(p) ==
    /\ MayStart(p)
    /\ p = Scraper => cur <= K
    /\ Goto(p, "read")
    /\ UNCHANGED <<textVars, binVars, clock, scrapeVars, pins, buffer, got, kills>>

ReadDatesNotEarlier(p) ==
    /\ At(p, "read")
    /\ Goto(p, IF pins[p] # {} THEN "loaded"
               ELSE IF binTime >= textTime THEN "readBin" ELSE "readText")
    /\ UNCHANGED <<textVars, binVars, clock, scrapeVars, pins, buffer, got, kills>>

ReadDates(p) ==
    /\ At(p, "read")
    /\ Goto(p, IF pins[p] # {} THEN "loaded"
               ELSE IF binTime > textTime THEN "readBin" ELSE "readText")
    /\ UNCHANGED <<textVars, binVars, clock, scrapeVars, pins, buffer, got, kills>>

ReadBin(p) ==
    /\ At(p, "readBin")
    /\ pins' = [pins EXCEPT ![p] = bin]
    /\ Goto(p, "loaded")
    /\ UNCHANGED <<textVars, binVars, clock, scrapeVars, buffer, got, kills>>

ReadText(p) ==
    /\ At(p, "readText")
    /\ pins' = [pins EXCEPT ![p] = Set(text)]
    /\ Goto(p, "save")
    /\ UNCHANGED <<textVars, binVars, clock, scrapeVars, buffer, got, kills>>

updateManifest(list) == bin' = list /\ binTime' = clock

Save(p) ==
    /\ At(p, "save")
    /\ updateManifest(pins[p])
    /\ Goto(p, "loaded")
    /\ UNCHANGED <<textVars, clock, scrapeVars, pins, buffer, got, kills>>

\* A reader is done with its pins when it ends.
ReaderEnds(p) ==
    /\ p \in Readers /\ At(p, "loaded")
    /\ pins' = [pins EXCEPT ![p] = {}]
    /\ Goto(p, "idle")
    /\ UNCHANGED <<textVars, binVars, clock, scrapeVars, buffer, got, kills>>

\* pinlib_findChunk, by the full path.
FindChunk ==
    /\ At(Scraper, "loaded")
    /\ LET found == {r \in pins[Scraper] : r.c = cur /\ r.name = "full"} IN
       IF found # {}
       THEN item' \in found /\ Goto(Scraper, "line")
       ELSE item' = NewRecord(cur) /\ Goto(Scraper, "pinIndex")
    /\ UNCHANGED <<textVars, binVars, clock, pinned, cur, pins, buffer, got, kills>>

PinIndex ==
    /\ At(Scraper, "pinIndex")
    /\ \/ /\ pinned' = pinned \cup {<<cur, "index">>}
          /\ item' = [item EXCEPT !.index = TRUE]
          /\ Goto(Scraper, "pinBloom")
       \/ /\ PinFails
          /\ Goto(Scraper, "line") /\ UNCHANGED <<pinned, item>>
    /\ UNCHANGED <<textVars, binVars, clock, cur, pins, buffer, got, kills>>

PinBloom ==
    /\ At(Scraper, "pinBloom")
    /\ \/ /\ pinned' = pinned \cup {<<cur, "bloom">>}
          /\ item' = [item EXCEPT !.bloom = TRUE]
          /\ Goto(Scraper, "push")
       \/ /\ PinFails
          /\ Goto(Scraper, "line") /\ UNCHANGED <<pinned, item>>
    /\ UNCHANGED <<textVars, binVars, clock, cur, pins, buffer, got, kills>>

PushPin ==
    /\ At(Scraper, "push")
    /\ pins' = [pins EXCEPT ![Scraper] = @ \cup {item}]
    /\ updateManifest(pins'[Scraper])
    /\ Goto(Scraper, "line")
    /\ UNCHANGED <<textVars, clock, scrapeVars, buffer, got, kills>>

\* visitToPin does not ask whether the chunk was pinned: what it could not pin
\* gets a line with empty hashes.
WriteLine ==
    /\ At(Scraper, "line")
    /\ buffer' = <<[item EXCEPT !.name = "short"]>> \o text
    /\ Goto(Scraper, "truncate")
    /\ UNCHANGED <<textVars, binVars, clock, scrapeVars, pins, got, kills>>

\* pinlib_downloadManifest: curl may return nothing.
Download ==
    /\ At(Initer, "loaded") /\ got = {}
    /\ \E n \in {0, Published} :
          buffer' = LinesTo(n) /\ got' = {{Line(c) : c \in 1..n}}
    /\ Goto(Initer, "truncate")
    /\ UNCHANGED <<textVars, binVars, clock, scrapeVars, pins, kills>>

\* stringToAsciiFile opens the file for writing, then writes.  That it cannot have the
\* lock, which a kill inside of it leaves behind, is left out: README, section 7.
Truncate(p) ==
    /\ At(p, "truncate")
    /\ text' = <<>> /\ textTime' = clock
    /\ Goto(p, "put")
    /\ UNCHANGED <<binVars, clock, scrapeVars, pins, buffer, got, kills>>

\* "she wants a fresh read": --init clears its pins and reads again.
Put(p) ==
    /\ At(p, "put")
    /\ text' = buffer /\ textTime' = clock /\ buffer' = <<>>
    /\ IF p = Scraper
       THEN Goto(p, "taken") /\ UNCHANGED pins
       ELSE Goto(p, "read") /\ pins' = [pins EXCEPT ![p] = {}]
    /\ UNCHANGED <<binVars, clock, scrapeVars, got, kills>>

\* The chunk is taken off the stage: it will not be written again.  The pass
\* goes on, or it ends and its array of pins with it.
ChunkTaken ==
    /\ At(Scraper, "taken")
    /\ cur' = cur + 1
    /\ \E left \in {pins[Scraper], {}} : pins' = [pins EXCEPT ![Scraper] = left]
    /\ Goto(Scraper, "idle")
    /\ UNCHANGED <<textVars, binVars, clock, pinned, item, buffer, got, kills>>

\* --init goes on to fetch what its pins name (module Unchain) and ends.
IniterEnds ==
    /\ At(Initer, "loaded") /\ got # {}
    /\ Goto(Initer, "idle") /\ pins' = [pins EXCEPT ![Initer] = {}] /\ got' = {}
    /\ UNCHANGED <<textVars, binVars, clock, scrapeVars, buffer, kills>>

\* The scraper is killed and started again; its chunk is still on the stage.
Kill ==
    /\ Scraper \in Procs /\ pc[Scraper] # "idle" /\ kills < MaxKills
    /\ Torn \/ pc[Scraper] # "put"
    /\ kills' = kills + 1
    /\ Goto(Scraper, "idle") /\ pins' = [pins EXCEPT ![Scraper] = {}] /\ buffer' = <<>>
    /\ UNCHANGED <<textVars, binVars, clock, scrapeVars, got>>

Next ==
    \/ Tick \/ Kill
    \/ \E p \in Procs : Start(p) \/ ReadDates(p) \/ ReadBin(p) \/ ReadText(p)
                          \/ Save(p) \/ ReaderEnds(p) \/ Truncate(p) \/ Put(p)
    \/ FindChunk \/ PinIndex \/ PinBloom \/ PushPin \/ WriteLine \/ ChunkTaken
    \/ Download \/ IniterEnds

Spec == Init /\ [][Next]_vars

-----------------------------------------------------------------------------
AllIdle == \A p \in Procs : pc[p] = "idle"

\* What a tool that starts now would find by the name in the manifest.
FoundByName == {r.c : r \in {s \in (IF binTime > textTime THEN bin ELSE Set(text)) :
                               s.name = "short"}}

\* Every variable has its type.
TypeOK ==
    /\ text \in Seq(Record) /\ textTime \in 1..MaxTime
    /\ bin \subseteq Record /\ binTime \in 0..MaxTime /\ clock \in 1..MaxTime
    /\ pinned \subseteq (1..K) \X {"index", "bloom"} /\ cur \in 1..(K + 1)
    /\ pins \in [Procs -> SUBSET Record] /\ item \in Record
    /\ buffer \in Seq(Record) /\ kills \in 0..MaxKills

\* Whatever fails or is killed, a hash in the manifest, in its binary copy or in
\* a process's memory is the hash of something the pinning service holds.
PinsAreReal ==
    \A r \in Set(text) \cup bin \cup UNION {pins[p] : p \in Procs} :
      /\ r.index => <<r.c, "index">> \in pinned
      /\ r.bloom => <<r.c, "bloom">> \in pinned

\* "a manifest that contains every previously pinned bloom filter and index
\* chunk": every chunk that the scraper is done with has its line.
Recorded ==
    (\A p \in Procs : pc[p] # "put") =>
      \A c \in 1..(cur - 1) : \E r \in Set(text) : r.c = c

\* Both, whatever fails, is killed or reads at the same time.
ManifestKept == PinsAreReal /\ Recorded

\* "until we write both files": whichever of the two files a tool that starts
\* now reads, it finds every chunk of the manifest under its name.
Findable == AllIdle => {r.c : r \in Set(text)} \subseteq FoundByName

\* "If already pinned, no reason to pin it again": a chunk whose line has both
\* hashes is not sent to the pinning service a second time.
\* The code does not keep this: README, section 5.
NeverPinsAgain ==
    [][At(Scraper, "loaded") /\ pc'[Scraper] = "pinIndex" =>
         ~\E r \in Set(text) : r.c = cur /\ r.index /\ r.bloom]_vars

\* "Could not pin ... Quitting...": no chunk is entered that was not pinned.
\* The code does not keep this: README, section 5.
AllPinned == \A r \in Set(text) : r.index /\ r.bloom

\* "she wants a fresh read": --init goes through the manifest it has downloaded.
FreshRead == At(Initer, "loaded") /\ got # {} => pins[Initer] \in got
=============================================================================
