--------------------------- MODULE Manifest_proofs ---------------------------
(***************************************************************************)
(* manifest.txt and its binary copy: what a manifest says is pinned is,    *)
(* nothing is lost, and every chunk is found by its name.                  *)
(***************************************************************************)
EXTENDS Manifest, TLAPS

-----------------------------------------------------------------------------
(* Types *)

Working == {"pinIndex", "pinBloom", "push", "line"}
Reading == {"idle", "read", "readBin", "readText", "save", "loaded"}
Labels == Reading \cup Working \cup {"truncate", "put", "taken"}

\* Only the scraper pins, and no reader writes manifest.txt.
PcInv ==
    /\ pc \in [Procs -> Labels]
    /\ \A p \in Procs : p # Scraper => pc[p] \in Reading \cup {"truncate", "put"}
    /\ \A p \in Procs : p \in Readers => pc[p] \in Reading
    /\ Scraper \in Procs /\ pc[Scraper] # "idle" => cur <= K
    /\ Scraper \in Procs /\ pc[Scraper] \in Working => item.c = cur

ManifestTypes == TypeOK /\ PcInv

\* A line is a record of a chunk whose parts are both pinned; the lines of a published
\* manifest.
LEMMA LineFacts ==
    ASSUME ManifestConstants
    PROVE  /\ \A c \in 1..K : Line(c) \in Record /\ NewRecord(c) \in Record
           /\ \A n \in 0..K : /\ LinesTo(n) \in Seq(Record)
                              /\ Set(LinesTo(n)) = {Line(c) : c \in 1..n}
<1>1. \A c \in 1..K : Line(c) \in Record /\ NewRecord(c) \in Record
  BY DEF Line, NewRecord, Record
<1>2. ASSUME NEW n \in 0..K
      PROVE  LinesTo(n) \in Seq(Record) /\ Set(LinesTo(n)) = {Line(c) : c \in 1..n}
  <2>1. K \in Nat /\ n \in Nat
    BY DEF ManifestConstants
  <2>2. \A i \in 1..n : n + 1 - i \in 1..K /\ n + 1 - i \in 1..n /\ n + 1 - (n + 1 - i) = i
    BY <2>1
  <2>3. \A i \in 1..n : Line(n + 1 - i) \in Record
    BY <1>1, <2>2
  <2>4. LinesTo(n) \in Seq(Record) /\ DOMAIN LinesTo(n) = 1..n
           /\ \A i \in 1..n : LinesTo(n)[i] = Line(n + 1 - i)
    BY <2>1, <2>3 DEF LinesTo
  <2>5. \A c \in 1..n : LinesTo(n)[n + 1 - c] = Line(c) /\ n + 1 - c \in 1..n
    BY <2>2, <2>4
  <2>6. Set(LinesTo(n)) \subseteq {Line(c) : c \in 1..n}
    BY <2>2, <2>4 DEF Set
  <2>7. {Line(c) : c \in 1..n} \subseteq Set(LinesTo(n))
    BY <2>4, <2>5 DEF Set
  <2>8. QED
    BY <2>4, <2>6, <2>7
<1>3. QED
  BY <1>1, <1>2

\* visitToPin puts its line before the others.
LEMMA FrontLine ==
    ASSUME NEW r \in Record, NEW s \in Seq(Record)
    PROVE  <<r>> \o s \in Seq(Record) /\ Set(<<r>> \o s) = {r} \cup Set(s)
<1> DEFINE t == <<r>> \o s
<1>1. /\ t \in Seq(Record) /\ Len(t) = Len(s) + 1 /\ Len(s) \in Nat /\ t[1] = r
      /\ DOMAIN t = 1..Len(s) + 1 /\ DOMAIN s = 1..Len(s)
      /\ \A i \in 1..Len(s) : t[i + 1] = s[i]
  OBVIOUS
<1> HIDE DEF t
<1>2. \A i \in DOMAIN t : i = 1 \/ (i - 1 \in DOMAIN s /\ t[i] = s[i - 1])
  <2> SUFFICES ASSUME NEW i \in DOMAIN t, i # 1 PROVE i - 1 \in DOMAIN s /\ t[i] = s[i - 1]
    OBVIOUS
  <2>1. i - 1 \in 1..Len(s) /\ (i - 1) + 1 = i
    BY <1>1
  <2>2. QED
    BY <1>1, <2>1
<1>3. \A i \in DOMAIN s : i + 1 \in DOMAIN t /\ t[i + 1] = s[i]
  BY <1>1
<1>4. 1 \in DOMAIN t
  BY <1>1
<1>5. Set(t) = {r} \cup Set(s)
  BY <1>1, <1>2, <1>3, <1>4 DEF Set
<1>6. QED
  BY <1>1, <1>5 DEF t

LEMMA SetOfSeq ==
    ASSUME NEW s \in Seq(Record) PROVE Set(s) \subseteq Record
  BY DEF Set

LEMMA NoLines == Set(<<>>) = {} /\ <<>> \in Seq(Record)
  BY DEF Set

LEMMA ManifestTypesInit == ASSUME ManifestConstants, Init PROVE ManifestTypes
<1> USE DEF ManifestConstants, Init
<1>1. NewRecord(1) \in Record /\ LinesTo(Local) \in Seq(Record) /\ <<>> \in Seq(Record)
  BY LineFacts, NoLines
<1>2. TypeOK
  BY <1>1 DEF TypeOK
<1>3. PcInv
  BY DEF PcInv, Labels, Reading, Working
<1>4. QED
  BY <1>2, <1>3 DEF ManifestTypes

LEMMA ManifestTypesStep ==
    ASSUME ManifestConstants, ManifestTypes, [Next]_vars
    PROVE  ManifestTypes'
<1> USE DEF ManifestTypes
<1>1. CASE Tick
  <2>1. TypeOK'
    BY <1>1 DEF ManifestConstants, TypeOK, PcInv, Tick, textVars, binVars, scrapeVars
  <2>2. PcInv'
    BY <1>1 DEF TypeOK, PcInv, Labels, Reading, Working, Tick, textVars, binVars, scrapeVars
  <2>3. QED
    BY <2>1, <2>2
<1>2. CASE Kill
  <2>1. TypeOK'
    BY <1>2, NoLines DEF ManifestConstants, TypeOK, PcInv, Kill, Goto, textVars, binVars, scrapeVars
  <2>2. PcInv'
    BY <1>2 DEF TypeOK, PcInv, Labels, Reading, Working, Kill, Goto, textVars, binVars, scrapeVars
  <2>3. QED
    BY <2>1, <2>2
<1>3. CASE \E p \in Procs : Start(p)
  <2>1. TypeOK'
    BY <1>3 DEF ManifestConstants, TypeOK, PcInv, Start, MayStart, Goto, textVars, binVars, scrapeVars
  <2>2. PcInv'
    BY <1>3 DEF TypeOK, PcInv, Labels, Reading, Working, Start, MayStart, Goto, textVars, binVars, scrapeVars, ManifestConstants
  <2>3. QED
    BY <2>1, <2>2
<1>4. CASE \E p \in Procs : ReadDates(p)
  <2>1. TypeOK'
    BY <1>4 DEF ManifestConstants, TypeOK, PcInv, ReadDates, At, Goto, textVars, binVars, scrapeVars
  <2>2. PcInv'
    BY <1>4 DEF TypeOK, PcInv, Labels, Reading, Working, ReadDates, At, Goto, textVars, binVars, scrapeVars
  <2>3. QED
    BY <2>1, <2>2
<1>5. CASE \E p \in Procs : ReadBin(p)
  <2>1. TypeOK'
    BY <1>5 DEF ManifestConstants, TypeOK, PcInv, ReadBin, At, Goto, textVars, binVars, scrapeVars
  <2>2. PcInv'
    BY <1>5 DEF TypeOK, PcInv, Labels, Reading, Working, ReadBin, At, Goto, textVars, binVars, scrapeVars
  <2>3. QED
    BY <2>1, <2>2
<1>6. CASE \E p \in Procs : ReadText(p)
  <2>1. TypeOK'
    BY <1>6, SetOfSeq DEF ManifestConstants, TypeOK, PcInv, ReadText, At, Goto, textVars, binVars, scrapeVars
  <2>2. PcInv'
    BY <1>6 DEF TypeOK, PcInv, Labels, Reading, Working, ReadText, At, Goto, textVars, binVars, scrapeVars
  <2>3. QED
    BY <2>1, <2>2
<1>7. CASE \E p \in Procs : Save(p)
  <2>1. TypeOK'
    BY <1>7 DEF ManifestConstants, TypeOK, PcInv, Save, At, Goto, updateManifest, textVars, binVars, scrapeVars
  <2>2. PcInv'
    BY <1>7 DEF TypeOK, PcInv, Labels, Reading, Working, Save, At, Goto, updateManifest, textVars, binVars, scrapeVars
  <2>3. QED
    BY <2>1, <2>2
<1>8. CASE \E p \in Procs : ReaderEnds(p)
  <2>1. TypeOK'
    BY <1>8 DEF ManifestConstants, TypeOK, PcInv, ReaderEnds, At, Goto, textVars, binVars, scrapeVars
  <2>2. PcInv'
    BY <1>8 DEF TypeOK, PcInv, Labels, Reading, Working, ReaderEnds, At, Goto, textVars, binVars, scrapeVars, ManifestConstants
  <2>3. QED
    BY <2>1, <2>2
<1>9. CASE \E p \in Procs : Truncate(p)
  <2>1. TypeOK'
    BY <1>9, NoLines DEF ManifestConstants, TypeOK, PcInv, Truncate, At, Goto, textVars, binVars, scrapeVars
  <2>2. PcInv'
    BY <1>9 DEF TypeOK, PcInv, Labels, Reading, Working, Truncate, At, Goto, textVars, binVars, scrapeVars
  <2>3. QED
    BY <2>1, <2>2
<1>10. CASE \E p \in Procs : Put(p)
  <2>1. TypeOK'
    BY <1>10, NoLines DEF ManifestConstants, TypeOK, PcInv, Put, At, Goto, textVars, binVars, scrapeVars
  <2>2. PcInv'
    BY <1>10, ZenonT(60) DEF TypeOK, PcInv, Labels, Reading, Working, Put, At, Goto, textVars, binVars, scrapeVars
  <2>3. QED
    BY <2>1, <2>2
<1>11. CASE FindChunk
  <2> DEFINE found == {r \in pins[Scraper] : r.c = cur /\ r.name = "full"}
  <2>1. /\ At(Scraper, "loaded") /\ item' \in found \cup {NewRecord(cur)}
        /\ \E l \in {"line", "pinIndex"} : pc' = [pc EXCEPT ![Scraper] = l]
        /\ UNCHANGED <<text, textTime, bin, binTime, clock, pinned, cur, pins, buffer, kills>>
    BY <1>11 DEF FindChunk, Goto, textVars, binVars
  <2>2. item' \in Record /\ item'.c = cur
    <3>1. cur \in 1..K
      BY <2>1 DEF PcInv, At, TypeOK, ManifestConstants
    <3>2. NewRecord(cur) \in Record /\ NewRecord(cur).c = cur
      BY <3>1, LineFacts DEF NewRecord
    <3>3. \A r \in found : r \in Record /\ r.c = cur
      BY <2>1 DEF At, TypeOK
    <3> HIDE DEF found
    <3>4. QED
      BY <2>1, <3>2, <3>3
  <2> HIDE DEF found
  <2>3. TypeOK'
    BY <2>1, <2>2 DEF TypeOK
  <2>4. PcInv'
    <3>1. PICK l \in {"line", "pinIndex"} : pc' = [pc EXCEPT ![Scraper] = l]
      BY <2>1
    <3>2. /\ pc'[Scraper] = l /\ \A p \in Procs : p # Scraper => pc'[p] = pc[p]
          /\ pc' \in [Procs -> Labels]
      BY <2>1, <3>1 DEF PcInv, At, Labels, Working
    <3>3. Scraper \notin Readers /\ cur <= K
      BY <2>1 DEF PcInv, At, ManifestConstants
    <3>4. QED
      BY <2>1, <2>2, <3>2, <3>3 DEF PcInv
  <2>5. QED
    BY <2>3, <2>4
<1>12. CASE PinIndex
  <2>1. /\ At(Scraper, "pinIndex") /\ item' \in {item, [item EXCEPT !.index = TRUE]}
        /\ pinned' \in {pinned, pinned \cup {<<cur, "index">>}}
        /\ UNCHANGED <<text, textTime, bin, binTime, clock, cur, pins, buffer, kills>>
    BY <1>12 DEF PinIndex, textVars, binVars
  <2>2. item' \in Record /\ item'.c = item.c
    BY <2>1 DEF TypeOK, Record
  <2>3. cur \in 1..K
    BY <2>1 DEF PcInv, At, TypeOK, ManifestConstants
  <2>4. TypeOK'
    BY <2>1, <2>2, <2>3 DEF TypeOK
  <2>5. PcInv'
    BY <1>12, <2>1, <2>2 DEF PcInv, PinIndex, At, Goto, Labels, Reading, Working
  <2>6. QED
    BY <2>4, <2>5
<1>13. CASE PinBloom
  <2>1. /\ At(Scraper, "pinBloom") /\ item' \in {item, [item EXCEPT !.bloom = TRUE]}
        /\ pinned' \in {pinned, pinned \cup {<<cur, "bloom">>}}
        /\ UNCHANGED <<text, textTime, bin, binTime, clock, cur, pins, buffer, kills>>
    BY <1>13 DEF PinBloom, textVars, binVars
  <2>2. item' \in Record /\ item'.c = item.c
    BY <2>1 DEF TypeOK, Record
  <2>3. cur \in 1..K
    BY <2>1 DEF PcInv, At, TypeOK, ManifestConstants
  <2>4. TypeOK'
    BY <2>1, <2>2, <2>3 DEF TypeOK
  <2>5. PcInv'
    BY <1>13, <2>1, <2>2 DEF PcInv, PinBloom, At, Goto, Labels, Reading, Working
  <2>6. QED
    BY <2>4, <2>5
<1>14. CASE PushPin
  <2>1. TypeOK'
    BY <1>14 DEF ManifestConstants, TypeOK, PcInv, PushPin, At, Goto, updateManifest, textVars, binVars, scrapeVars, Record, Working
  <2>2. PcInv'
    BY <1>14 DEF TypeOK, PcInv, Labels, Reading, Working, PushPin, At, Goto, updateManifest, textVars, binVars, scrapeVars
  <2>3. QED
    BY <2>1, <2>2
<1>15. CASE WriteLine
  <2>1. TypeOK'
    BY <1>15, FrontLine DEF ManifestConstants, TypeOK, PcInv, WriteLine, At, Goto, textVars, binVars, scrapeVars, Record, Working
  <2>2. PcInv'
    BY <1>15 DEF TypeOK, PcInv, Labels, Reading, Working, WriteLine, At, Goto, textVars, binVars, scrapeVars
  <2>3. QED
    BY <2>1, <2>2
<1>16. CASE ChunkTaken
  <2>1. TypeOK'
    BY <1>16 DEF ManifestConstants, TypeOK, PcInv, ChunkTaken, At, Goto, textVars, binVars, scrapeVars, Record, Working
  <2>2. PcInv'
    BY <1>16 DEF TypeOK, PcInv, Labels, Reading, Working, ChunkTaken, At, Goto, textVars, binVars, scrapeVars
  <2>3. QED
    BY <2>1, <2>2
<1>17. CASE Download
  <2>1. TypeOK'
    BY <1>17, LineFacts DEF ManifestConstants, TypeOK, PcInv, Download, At, Goto, textVars, binVars, scrapeVars
  <2>2. PcInv'
    BY <1>17 DEF TypeOK, PcInv, Labels, Reading, Working, Download, At, Goto, textVars, binVars, scrapeVars, ManifestConstants
  <2>3. QED
    BY <2>1, <2>2
<1>18. CASE IniterEnds
  <2>1. TypeOK'
    BY <1>18 DEF ManifestConstants, TypeOK, PcInv, IniterEnds, At, Goto, textVars, binVars, scrapeVars
  <2>2. PcInv'
    BY <1>18 DEF TypeOK, PcInv, Labels, Reading, Working, IniterEnds, At, Goto, textVars, binVars, scrapeVars, ManifestConstants
  <2>3. QED
    BY <2>1, <2>2
<1>19. CASE UNCHANGED vars
  BY <1>19 DEF vars, TypeOK, PcInv
<1>20. QED
  BY <1>1, <1>2, <1>3, <1>4, <1>5, <1>6, <1>7, <1>8, <1>9, <1>10, <1>11, <1>12,
     <1>13, <1>14, <1>15, <1>16, <1>17, <1>18, <1>19 DEF Next

\* A record says of a chunk only what is true.
Real(r) == /\ r.index => <<r.c, "index">> \in pinned
           /\ r.bloom => <<r.c, "bloom">> \in pinned

\* Also while it is on its way to a file.
RealInv ==
    /\ (1..Published) \X {"index", "bloom"} \subseteq pinned
    /\ \A r \in Set(text) : Real(r)
    /\ \A r \in Set(buffer) : Real(r)
    /\ \A r \in bin : Real(r)
    /\ Real(item)
    /\ \A p \in Procs : \A r \in pins[p] : Real(r)

LEMMA PublishedIsReal ==
    ASSUME ManifestConstants, NEW n \in 0..Published,
           (1..Published) \X {"index", "bloom"} \subseteq pinned
    PROVE  n \in 0..K /\ \A r \in Set(LinesTo(n)) : Real(r)
<1>1. n \in 0..K /\ \A c \in 1..n : c \in 1..Published
  BY DEF ManifestConstants
<1>2. \A c \in 1..n : <<c, "index">> \in pinned /\ <<c, "bloom">> \in pinned
  BY <1>1
<1>3. \A c \in 1..n : Line(c).c = c
  BY DEF Line
<1>4. Set(LinesTo(n)) = {Line(c) : c \in 1..n}
  BY <1>1, LineFacts
<1>5. \A c \in 1..n : Real(Line(c))
  BY <1>2, <1>3 DEF Real
<1>6. QED
  BY <1>1, <1>4, <1>5

LEMMA RealInit == ASSUME ManifestConstants, Init PROVE RealInv
<1>1. Local \in 0..Published
  BY DEF ManifestConstants
<1>2. (1..Published) \X {"index", "bloom"} \subseteq pinned
  BY DEF Init
<1>3. \A r \in Set(text) : Real(r)
  BY <1>1, <1>2, PublishedIsReal DEF Init
<1>4. Real(item)
  BY DEF Init, NewRecord, Real
<1>5. QED
  BY <1>2, <1>3, <1>4, NoLines DEF RealInv, Init

LEMMA RealStep ==
    ASSUME ManifestConstants, ManifestTypes, RealInv, [Next]_vars
    PROVE  RealInv'
<1> USE DEF ManifestTypes
<1>1. CASE Tick
  BY <1>1, NoLines DEF TypeOK, RealInv, Real, Tick, textVars, binVars, scrapeVars
<1>2. CASE Kill
  BY <1>2, NoLines DEF TypeOK, RealInv, Real, Kill, Goto, textVars, binVars, scrapeVars
<1>3. CASE \E p \in Procs : Start(p)
  BY <1>3, NoLines DEF TypeOK, RealInv, Real, Start, MayStart, Goto, textVars, binVars, scrapeVars
<1>4. CASE \E p \in Procs : ReadDates(p)
  BY <1>4, NoLines DEF TypeOK, RealInv, Real, ReadDates, At, Goto, textVars, binVars, scrapeVars
<1>5. CASE \E p \in Procs : ReadBin(p)
  BY <1>5, NoLines DEF TypeOK, RealInv, Real, ReadBin, At, Goto, textVars, binVars, scrapeVars
<1>6. CASE \E p \in Procs : ReadText(p)
  BY <1>6, NoLines DEF TypeOK, RealInv, Real, ReadText, At, Goto, textVars, binVars, scrapeVars
<1>7. CASE \E p \in Procs : Save(p)
  BY <1>7, NoLines DEF TypeOK, RealInv, Real, Save, At, Goto, updateManifest, textVars, binVars, scrapeVars
<1>8. CASE \E p \in Procs : ReaderEnds(p)
  BY <1>8, NoLines DEF TypeOK, RealInv, Real, ReaderEnds, At, Goto, textVars, binVars, scrapeVars
<1>9. CASE \E p \in Procs : Truncate(p)
  BY <1>9, NoLines DEF TypeOK, RealInv, Real, Truncate, At, Goto, textVars, binVars, scrapeVars
<1>10. CASE \E p \in Procs : Put(p)
  BY <1>10, NoLines DEF TypeOK, RealInv, Real, Put, At, Goto, textVars, binVars, scrapeVars
<1>11. CASE FindChunk
  <2>1. /\ At(Scraper, "loaded") /\ item' \in pins[Scraper] \cup {NewRecord(cur)}
        /\ UNCHANGED <<text, bin, pinned, pins, buffer>>
    BY <1>11 DEF FindChunk, textVars, binVars
  <2>2. Real(NewRecord(cur)) /\ \A r \in pins[Scraper] : Real(r)
    BY <2>1 DEF NewRecord, Real, RealInv, At
  <2>3. Real(item')
    BY <2>1, <2>2
  <2>4. QED
    BY <2>1, <2>3 DEF RealInv, Real
<1>12. CASE PinIndex
  <2>1. /\ At(Scraper, "pinIndex") /\ UNCHANGED <<text, bin, pins, buffer>>
        /\ \/ item' = item /\ pinned' = pinned
           \/ item' = [item EXCEPT !.index = TRUE] /\ pinned' = pinned \cup {<<cur, "index">>}
    BY <1>12 DEF PinIndex, textVars, binVars
  <2>2. pinned \subseteq pinned'
    BY <2>1
  <2>3. item \in Record /\ item.c = cur /\ Real(item)
    BY <2>1 DEF TypeOK, PcInv, At, Working, RealInv
  <2>4. Real(item)'
    BY <2>1, <2>3 DEF Real, Record
  <2>5. QED
    BY <2>1, <2>2, <2>4 DEF RealInv, Real
<1>13. CASE PinBloom
  <2>1. /\ At(Scraper, "pinBloom") /\ UNCHANGED <<text, bin, pins, buffer>>
        /\ \/ item' = item /\ pinned' = pinned
           \/ item' = [item EXCEPT !.bloom = TRUE] /\ pinned' = pinned \cup {<<cur, "bloom">>}
    BY <1>13 DEF PinBloom, textVars, binVars
  <2>2. pinned \subseteq pinned'
    BY <2>1
  <2>3. item \in Record /\ item.c = cur /\ Real(item)
    BY <2>1 DEF TypeOK, PcInv, At, Working, RealInv
  <2>4. Real(item)'
    BY <2>1, <2>3 DEF Real, Record
  <2>5. QED
    BY <2>1, <2>2, <2>4 DEF RealInv, Real
<1>14. CASE PushPin
  BY <1>14, NoLines, ZenonT(60) DEF TypeOK, RealInv, Real, PushPin, At, Goto, updateManifest, textVars, binVars, scrapeVars
<1>15. CASE WriteLine
  <2> DEFINE r == [item EXCEPT !.name = "short"]
  <2>1. buffer' = <<r>> \o text /\ UNCHANGED <<text, bin, pins, pinned, item>>
    BY <1>15 DEF WriteLine, At, Goto, textVars, binVars, scrapeVars
  <2>2. r \in Record /\ Real(r)
    BY DEF TypeOK, Record, RealInv, Real
  <2> HIDE DEF r
  <2>3. Set(buffer') = {r} \cup Set(text)
    BY <2>1, <2>2, FrontLine DEF TypeOK
  <2>4. QED
    BY <2>1, <2>2, <2>3 DEF RealInv, Real
<1>16. CASE ChunkTaken
  BY <1>16, NoLines DEF TypeOK, RealInv, Real, ChunkTaken, At, Goto, textVars, binVars, scrapeVars
<1>17. CASE Download
  <2>1. PICK n \in {0, Published} : buffer' = LinesTo(n)
    BY <1>17 DEF Download
  <2>2. n \in 0..Published /\ UNCHANGED <<text, bin, pins, pinned, item>>
    BY <1>17 DEF ManifestConstants, Download, At, Goto, textVars, binVars, scrapeVars
  <2>3. \A r \in Set(buffer') : Real(r)
    BY <2>1, <2>2, PublishedIsReal DEF RealInv
  <2>4. QED
    BY <2>2, <2>3 DEF RealInv, Real
<1>18. CASE IniterEnds
  BY <1>18, NoLines DEF TypeOK, RealInv, Real, IniterEnds, At, Goto, textVars, binVars, scrapeVars
<1>19. CASE UNCHANGED vars
  BY <1>19 DEF vars, RealInv, Real
<1>20. QED
  BY <1>1, <1>2, <1>3, <1>4, <1>5, <1>6, <1>7, <1>8, <1>9, <1>10, <1>11, <1>12,
     <1>13, <1>14, <1>15, <1>16, <1>17, <1>18, <1>19 DEF Next

\* Whatever fails, is killed or runs at the same time, a hash in manifest.txt, in
\* pins.bin or in a tool's memory is the hash of something that the pinning service
\* holds (pinlib_pinChunk enters it only when the upload has returned it).
THEOREM PinnedHashesAreReal ==
    ASSUME ManifestConstants
    PROVE  Spec => [](TypeOK /\ PinsAreReal)
<1>1. RealInv => PinsAreReal
  <2> SUFFICES ASSUME RealInv PROVE PinsAreReal
    OBVIOUS
  <2>1. \A r \in Set(text) \cup bin \cup UNION {pins[p] : p \in Procs} : Real(r)
    BY DEF RealInv
  <2>2. QED
    BY <2>1 DEF PinsAreReal, Real
<1>2. Init => ManifestTypes /\ RealInv
  BY ManifestTypesInit, RealInit
<1>3. ManifestTypes /\ RealInv /\ [Next]_vars => ManifestTypes' /\ RealInv'
  BY ManifestTypesStep, RealStep
<1>4. QED
  BY <1>1, <1>2, <1>3, PTL DEF Spec, ManifestTypes

HasLines(s, n) == \A c \in 1..n : \E r \in Set(s) : r.c = c

\* Where the scraper is, if this instance has one.
ScraperAt == IF Scraper \in Procs THEN pc[Scraper] ELSE "idle"

\* The lines are in manifest.txt, or in what is about to be written to it.
LineInv ==
    /\ ScraperAt # "put" => HasLines(text, cur - 1)
    /\ ScraperAt \in {"truncate", "put"} => HasLines(buffer, cur)
    /\ ScraperAt = "taken" => HasLines(text, cur)

\* Another process, or a step of the scraper that leaves manifest.txt alone.
LEMMA SameLines ==
    ASSUME LineInv, UNCHANGED <<text, cur>>, ScraperAt # "put",
           \/ UNCHANGED <<ScraperAt, buffer>>
           \/ ScraperAt' \notin {"truncate", "put", "taken"}
    PROVE  LineInv'
  BY DEF LineInv, HasLines

LEMMA LineInit == ASSUME ManifestConstants, Init PROVE LineInv
<1>1. Local \in 0..K /\ Local \in Nat /\ (Local + 1) - 1 = Local
  BY DEF ManifestConstants
<1>2. Set(text) = {Line(c) : c \in 1..Local} /\ cur - 1 = Local
  BY <1>1, LineFacts DEF Init
<1>3. \A c \in 1..Local : Line(c).c = c
  BY DEF Line
<1>4. HasLines(text, cur - 1)
  BY <1>2, <1>3 DEF HasLines
<1>5. ScraperAt = "idle"
  BY DEF ScraperAt, Init
<1>6. QED
  BY <1>4, <1>5 DEF LineInv

LEMMA LineStep ==
    ASSUME ManifestConstants, Initer \notin Procs, ~ Torn, ManifestTypes, LineInv, [Next]_vars
    PROVE  LineInv'
<1> USE DEF ManifestTypes
<1>a. /\ pc \in [Procs -> Labels] /\ cur \in 1..K + 1 /\ K \in Nat
      /\ \A p \in Procs : p # Scraper => pc[p] \in Reading
  BY DEF ManifestConstants, TypeOK, PcInv
<1>1. CASE Tick
  BY <1>1 DEF LineInv, ScraperAt, HasLines, Tick, textVars, binVars, scrapeVars
<1>2. CASE Kill
  <2>1. ScraperAt # "put" /\ ScraperAt' = "idle" /\ UNCHANGED <<text, cur>>
    BY <1>2, <1>a DEF ScraperAt, Kill, Goto, textVars, binVars, scrapeVars
  <2>2. QED
    BY <2>1, SameLines
<1>3. CASE \E p \in Procs : Start(p)
  <2>1. PICK p \in Procs : Start(p)
    BY <1>3
  <2>2. UNCHANGED <<text, cur, buffer>>
    BY <2>1 DEF Start, MayStart, Goto, textVars, binVars, scrapeVars
  <2>3. \/ ScraperAt' = ScraperAt
        \/ ScraperAt \notin {"truncate", "put", "taken"} /\ ScraperAt' \notin {"truncate", "put", "taken"}
    BY <1>a, <2>1 DEF ScraperAt, Start, MayStart, Goto, textVars, binVars, scrapeVars
  <2>4. QED
    BY <2>2, <2>3 DEF LineInv, HasLines
<1>4. CASE \E p \in Procs : ReadDates(p)
  <2>1. PICK p \in Procs : ReadDates(p)
    BY <1>4
  <2>2. UNCHANGED <<text, cur, buffer>>
    BY <2>1 DEF ReadDates, At, Goto, textVars, binVars, scrapeVars
  <2>3. \/ ScraperAt' = ScraperAt
        \/ ScraperAt \notin {"truncate", "put", "taken"} /\ ScraperAt' \notin {"truncate", "put", "taken"}
    BY <1>a, <2>1 DEF ScraperAt, ReadDates, At, Goto, textVars, binVars, scrapeVars
  <2>4. QED
    BY <2>2, <2>3 DEF LineInv, HasLines
<1>5. CASE \E p \in Procs : ReadBin(p)
  <2>1. PICK p \in Procs : ReadBin(p)
    BY <1>5
  <2>2. UNCHANGED <<text, cur, buffer>>
    BY <2>1 DEF ReadBin, At, Goto, textVars, binVars, scrapeVars
  <2>3. \/ ScraperAt' = ScraperAt
        \/ ScraperAt \notin {"truncate", "put", "taken"} /\ ScraperAt' \notin {"truncate", "put", "taken"}
    BY <1>a, <2>1 DEF ScraperAt, ReadBin, At, Goto, textVars, binVars, scrapeVars
  <2>4. QED
    BY <2>2, <2>3 DEF LineInv, HasLines
<1>6. CASE \E p \in Procs : ReadText(p)
  <2>1. PICK p \in Procs : ReadText(p)
    BY <1>6
  <2>2. UNCHANGED <<text, cur, buffer>>
    BY <2>1 DEF ReadText, At, Goto, textVars, binVars, scrapeVars
  <2>3. \/ ScraperAt' = ScraperAt
        \/ ScraperAt \notin {"truncate", "put", "taken"} /\ ScraperAt' \notin {"truncate", "put", "taken"}
    BY <1>a, <2>1 DEF ScraperAt, ReadText, At, Goto, textVars, binVars, scrapeVars
  <2>4. QED
    BY <2>2, <2>3 DEF LineInv, HasLines
<1>7. CASE \E p \in Procs : Save(p)
  <2>1. PICK p \in Procs : Save(p)
    BY <1>7
  <2>2. UNCHANGED <<text, cur, buffer>>
    BY <2>1 DEF Save, At, Goto, updateManifest, textVars, binVars, scrapeVars
  <2>3. \/ ScraperAt' = ScraperAt
        \/ ScraperAt \notin {"truncate", "put", "taken"} /\ ScraperAt' \notin {"truncate", "put", "taken"}
    BY <1>a, <2>1 DEF ScraperAt, Save, At, Goto, updateManifest, textVars, binVars, scrapeVars
  <2>4. QED
    BY <2>2, <2>3 DEF LineInv, HasLines
<1>8. CASE \E p \in Procs : ReaderEnds(p)
  <2>1. PICK p \in Procs : ReaderEnds(p)
    BY <1>8
  <2>2. UNCHANGED <<text, cur, buffer>>
    BY <2>1 DEF ReaderEnds, At, Goto, textVars, binVars, scrapeVars
  <2>3. \/ ScraperAt' = ScraperAt
        \/ ScraperAt \notin {"truncate", "put", "taken"} /\ ScraperAt' \notin {"truncate", "put", "taken"}
    BY <1>a, <2>1 DEF ScraperAt, ReaderEnds, At, Goto, textVars, binVars, scrapeVars
  <2>4. QED
    BY <2>2, <2>3 DEF LineInv, HasLines
<1>9. CASE \E p \in Procs : Truncate(p)
  <2>1. PICK p \in Procs : Truncate(p)
    BY <1>9
  <2>2. p = Scraper
    BY <1>a, <2>1 DEF Truncate, At, Reading
  <2>3. /\ ScraperAt = "truncate" /\ ScraperAt' = "put" /\ cur' = cur
        /\ buffer' = buffer
    BY <1>a, <2>1, <2>2 DEF ScraperAt, Truncate, At, Goto, textVars, binVars, scrapeVars
  <2>4. QED
    BY <2>3 DEF LineInv, HasLines
<1>10. CASE \E p \in Procs : Put(p)
  <2>1. PICK p \in Procs : Put(p)
    BY <1>10
  <2>2. p = Scraper
    BY <1>a, <2>1 DEF Put, At, Reading
  <2>3. /\ ScraperAt = "put" /\ ScraperAt' = "taken" /\ cur' = cur
        /\ text' = buffer
    BY <1>a, <2>1, <2>2 DEF ScraperAt, Put, At, Goto, textVars, binVars, scrapeVars
  <2>4. HasLines(text', cur) /\ 1..cur - 1 \subseteq 1..cur
    BY <1>a, <2>3 DEF LineInv
  <2>5. QED
    BY <2>3, <2>4 DEF LineInv, HasLines
<1>11. CASE FindChunk
  <2>1. ScraperAt \notin {"put"} /\ ScraperAt' \notin {"truncate", "put", "taken"} /\ UNCHANGED <<text, cur>>
    BY <1>11, <1>a DEF ScraperAt, FindChunk, At, Goto, textVars, binVars, scrapeVars
  <2>2. QED
    BY <2>1, SameLines
<1>12. CASE PinIndex
  <2>1. ScraperAt \notin {"put"} /\ ScraperAt' \notin {"truncate", "put", "taken"} /\ UNCHANGED <<text, cur>>
    BY <1>12, <1>a DEF ScraperAt, PinIndex, At, Goto, textVars, binVars, scrapeVars
  <2>2. QED
    BY <2>1, SameLines
<1>13. CASE PinBloom
  <2>1. ScraperAt \notin {"put"} /\ ScraperAt' \notin {"truncate", "put", "taken"} /\ UNCHANGED <<text, cur>>
    BY <1>13, <1>a DEF ScraperAt, PinBloom, At, Goto, textVars, binVars, scrapeVars
  <2>2. QED
    BY <2>1, SameLines
<1>14. CASE PushPin
  <2>1. ScraperAt \notin {"put"} /\ ScraperAt' \notin {"truncate", "put", "taken"} /\ UNCHANGED <<text, cur>>
    BY <1>14, <1>a DEF ScraperAt, PushPin, At, Goto, updateManifest, textVars, binVars, scrapeVars
  <2>2. QED
    BY <2>1, SameLines
<1>15. CASE WriteLine
  <2> DEFINE r == [item EXCEPT !.name = "short"]
  <2>1. /\ ScraperAt = "line" /\ ScraperAt' = "truncate" /\ UNCHANGED <<text, cur>>
        /\ buffer' = <<r>> \o text
    BY <1>15, <1>a DEF ScraperAt, WriteLine, At, Goto, textVars, binVars, scrapeVars
  <2>2. r \in Record /\ r.c = cur /\ text \in Seq(Record)
    BY <1>15 DEF WriteLine, At, TypeOK, Record, PcInv, Working
  <2> HIDE DEF r
  <2>3. Set(buffer') = {r} \cup Set(text)
    BY <2>1, <2>2, FrontLine
  <2>4. \A c \in 1..cur : c = cur \/ c \in 1..cur - 1
    BY <1>a
  <2>5. HasLines(buffer', cur)
    BY <2>1, <2>2, <2>3, <2>4 DEF LineInv, HasLines
  <2>6. QED
    BY <2>1, <2>5 DEF LineInv, HasLines
<1>16. CASE ChunkTaken
  <2>1. /\ ScraperAt = "taken" /\ ScraperAt' = "idle" /\ text' = text
        /\ cur' = cur + 1 /\ cur' - 1 = cur
    BY <1>16, <1>a DEF ScraperAt, ChunkTaken, At, Goto, textVars, binVars, scrapeVars
  <2>2. QED
    BY <2>1 DEF LineInv, HasLines
<1>17. CASE Download
  BY <1>17 DEF Download, At
<1>18. CASE IniterEnds
  BY <1>18 DEF IniterEnds, At
<1>19. CASE UNCHANGED vars
  BY <1>19 DEF vars, LineInv, ScraperAt, HasLines
<1>20. QED
  BY <1>1, <1>2, <1>3, <1>4, <1>5, <1>6, <1>7, <1>8, <1>9, <1>10, <1>11, <1>12,
     <1>13, <1>14, <1>15, <1>16, <1>17, <1>18, <1>19 DEF Next

\* The manifest is kept: as long as no --init replaces it and no kill falls between
\* truncating and writing it, every chunk that the scraper is done with has its line,
\* also when pinning fails, the scraper is killed anywhere else and starts again, and
\* tools read at the same time (visitToPin, which rewrites the whole of manifest.txt).
THEOREM ManifestIsKept ==
    ASSUME ManifestConstants, Initer \notin Procs, ~ Torn
    PROVE  Spec => []ManifestKept
<1>1. ManifestTypes /\ LineInv => Recorded
  <2> SUFFICES ASSUME ManifestTypes, LineInv, \A p \in Procs : pc[p] # "put"
               PROVE  \A c \in 1..(cur - 1) : \E r \in Set(text) : r.c = c
    BY DEF Recorded
  <2>1. ScraperAt # "put"
    BY DEF ScraperAt
  <2>2. QED
    BY <2>1 DEF LineInv, HasLines
<1>2. Init => ManifestTypes /\ LineInv
  BY ManifestTypesInit, LineInit
<1>3. ManifestTypes /\ LineInv /\ [Next]_vars => ManifestTypes' /\ LineInv'
  BY ManifestTypesStep, LineStep
<1>4. Spec => []Recorded
  BY <1>1, <1>2, <1>3, PTL DEF Spec
<1>5. QED
  BY <1>4, PinnedHashesAreReal, PTL DEF ManifestKept

-----------------------------------------------------------------------------
(* The manifest, one tool after the other *)

OneAtATime == \A p, q \in Procs : pc[p] # "idle" /\ pc[q] # "idle" => p = q

\* The lines of manifest.txt have the names that they are looked for by.
ShortNames ==
    /\ \A r \in Set(text) : r.name = "short"
    /\ \A r \in Set(buffer) : r.name = "short"

\* A later pins.bin has what the text has, but for the scraper, which writes it first.
NewerBin ==
    /\ textTime <= clock /\ binTime <= clock
    /\ binTime > textTime =>
          \/ \A r \in Set(text) : \E s \in bin : s.name = "short" /\ s.c = r.c
          \/ Scraper \in Procs /\ pc[Scraper] \in {"line", "truncate"}
    /\ \A p \in Procs : pc[p] \in {"put", "taken"} => binTime <= textTime
    /\ \A p \in Procs : pc[p] = "save" => pins[p] = Set(text)

\* What --init has downloaded is in its buffer, then in the text, then in its pins.
GotInv ==
    got # {} =>
        /\ Initer \in Procs
        /\ pc[Initer] \notin {"idle", "readBin"}
        /\ pc[Initer] \in {"truncate", "put"} => Set(buffer) \in got
        /\ pc[Initer] \in {"read", "readText"} =>
              Set(text) \in got /\ binTime <= textTime /\ pins[Initer] = {}
        /\ pc[Initer] \in {"save", "loaded"} => pins[Initer] \in got

TurnInv == OneAtATime /\ ShortNames /\ NewerBin /\ GotInv

LEMMA TurnInit == ASSUME ManifestConstants, Init PROVE TurnInv
<1>1. Set(text) = {Line(c) : c \in 1..Local} /\ Set(buffer) = {}
  BY LineFacts, NoLines DEF Init, ManifestConstants
<1>2. \A c \in 1..Local : Line(c).name = "short"
  BY DEF Line
<1>3. ShortNames
  BY <1>1, <1>2 DEF ShortNames
<1>4. QED
  BY <1>3 DEF TurnInv, OneAtATime, NewerBin, GotInv, Init

LEMMA TurnStep ==
    ASSUME ManifestConstants, ~ Concurrent, MaxKills = 0, ManifestTypes, TurnInv, [Next]_vars
    PROVE  TurnInv'
<1> USE DEF ManifestTypes, TurnInv
<1>a. /\ pc \in [Procs -> Labels] /\ pins \in [Procs -> SUBSET Record]
      /\ textTime \in Nat /\ binTime \in Nat /\ clock \in Nat
      /\ \A p \in Procs : p # Scraper => pc[p] \in Reading \cup {"truncate", "put"}
      /\ \A p \in Procs : p \in Readers => pc[p] \in Reading
      /\ Scraper # Initer /\ Scraper \notin Readers /\ Initer \notin Readers
      /\ Procs \subseteq {Scraper, Initer} \cup Readers
  BY DEF ManifestConstants, TypeOK, PcInv
<1>1. CASE Tick
  <2>1. OneAtATime'
    BY <1>1, <1>a DEF OneAtATime, Tick, textVars, binVars, scrapeVars
  <2>2. ShortNames'
    BY <1>1, <1>a DEF ShortNames, Tick, textVars, binVars, scrapeVars
  <2>3. NewerBin'
    BY <1>1, <1>a DEF NewerBin, OneAtATime, Reading, Tick, textVars, binVars, scrapeVars
  <2>4. GotInv'
    BY <1>1, <1>a DEF GotInv, OneAtATime, NewerBin, Reading, Tick, textVars, binVars, scrapeVars
  <2>5. QED
    BY <2>1, <2>2, <2>3, <2>4
<1>2. CASE Kill
  BY <1>2 DEF Kill, TypeOK
<1>3. CASE \E p \in Procs : Start(p)
  <2>p. PICK p \in Procs : Start(p)
    BY <1>3
  <2>1. OneAtATime'
    BY <2>p, <1>a, NoLines DEF OneAtATime, Start, MayStart, Goto, textVars, binVars, scrapeVars
  <2>2. ShortNames'
    BY <2>p, <1>a, NoLines DEF ShortNames, Start, MayStart, Goto, textVars, binVars, scrapeVars
  <2>3. NewerBin'
    BY <2>p, <1>a, NoLines DEF NewerBin, OneAtATime, Reading, Start, MayStart, Goto, textVars, binVars, scrapeVars
  <2>4. GotInv'
    BY <2>p, <1>a, NoLines DEF GotInv, OneAtATime, NewerBin, Reading, Start, MayStart, Goto, textVars, binVars, scrapeVars
  <2>5. QED
    BY <2>1, <2>2, <2>3, <2>4
<1>4. CASE \E p \in Procs : ReadDates(p)
  <2>p. PICK p \in Procs : ReadDates(p)
    BY <1>4
  <2>1. OneAtATime'
    BY <2>p, <1>a, NoLines DEF OneAtATime, ReadDates, At, Goto, textVars, binVars, scrapeVars
  <2>2. ShortNames'
    BY <2>p, <1>a, NoLines DEF ShortNames, ReadDates, At, Goto, textVars, binVars, scrapeVars
  <2>3. NewerBin'
    BY <2>p, <1>a, NoLines DEF NewerBin, OneAtATime, Reading, ReadDates, At, Goto, textVars, binVars, scrapeVars
  <2>4. GotInv'
    BY <2>p, <1>a, NoLines DEF GotInv, OneAtATime, NewerBin, Reading, ReadDates, At, Goto, textVars, binVars, scrapeVars
  <2>5. QED
    BY <2>1, <2>2, <2>3, <2>4
<1>5. CASE \E p \in Procs : ReadBin(p)
  <2>p. PICK p \in Procs : ReadBin(p)
    BY <1>5
  <2>1. OneAtATime'
    BY <2>p, <1>a, NoLines DEF OneAtATime, ReadBin, At, Goto, textVars, binVars, scrapeVars
  <2>2. ShortNames'
    BY <2>p, <1>a, NoLines DEF ShortNames, ReadBin, At, Goto, textVars, binVars, scrapeVars
  <2>3. NewerBin'
    BY <2>p, <1>a, NoLines DEF NewerBin, OneAtATime, Reading, ReadBin, At, Goto, textVars, binVars, scrapeVars
  <2>4. GotInv'
    BY <2>p, <1>a, NoLines DEF GotInv, OneAtATime, NewerBin, Reading, ReadBin, At, Goto, textVars, binVars, scrapeVars
  <2>5. QED
    BY <2>1, <2>2, <2>3, <2>4
<1>6. CASE \E p \in Procs : ReadText(p)
  <2>p. PICK p \in Procs : ReadText(p)
    BY <1>6
  <2>1. OneAtATime'
    BY <2>p, <1>a, NoLines DEF OneAtATime, ReadText, At, Goto, textVars, binVars, scrapeVars
  <2>2. ShortNames'
    BY <2>p, <1>a, NoLines DEF ShortNames, ReadText, At, Goto, textVars, binVars, scrapeVars
  <2>3. NewerBin'
    BY <2>p, <1>a, NoLines DEF NewerBin, OneAtATime, Reading, ReadText, At, Goto, textVars, binVars, scrapeVars
  <2>4. GotInv'
    BY <2>p, <1>a, NoLines DEF GotInv, OneAtATime, NewerBin, Reading, ReadText, At, Goto, textVars, binVars, scrapeVars
  <2>5. QED
    BY <2>1, <2>2, <2>3, <2>4
<1>7. CASE \E p \in Procs : Save(p)
  <2>p. PICK p \in Procs : Save(p)
    BY <1>7
  <2>1. OneAtATime'
    BY <2>p, <1>a, NoLines DEF OneAtATime, Save, At, Goto, updateManifest, textVars, binVars, scrapeVars
  <2>2. ShortNames'
    BY <2>p, <1>a, NoLines DEF ShortNames, Save, At, Goto, updateManifest, textVars, binVars, scrapeVars
  <2>3. NewerBin'
    BY <2>p, <1>a, NoLines DEF NewerBin, ShortNames, OneAtATime, Reading, Save, At, Goto, updateManifest, textVars, binVars, scrapeVars
  <2>4. GotInv'
    BY <2>p, <1>a, NoLines DEF GotInv, OneAtATime, NewerBin, Reading, Save, At, Goto, updateManifest, textVars, binVars, scrapeVars
  <2>5. QED
    BY <2>1, <2>2, <2>3, <2>4
<1>8. CASE \E p \in Procs : ReaderEnds(p)
  <2>p. PICK p \in Procs : ReaderEnds(p)
    BY <1>8
  <2>1. OneAtATime'
    BY <2>p, <1>a, NoLines DEF OneAtATime, ReaderEnds, At, Goto, textVars, binVars, scrapeVars
  <2>2. ShortNames'
    BY <2>p, <1>a, NoLines DEF ShortNames, ReaderEnds, At, Goto, textVars, binVars, scrapeVars
  <2>3. NewerBin'
    BY <2>p, <1>a, NoLines DEF NewerBin, OneAtATime, Reading, ReaderEnds, At, Goto, textVars, binVars, scrapeVars
  <2>4. GotInv'
    BY <2>p, <1>a, NoLines DEF GotInv, OneAtATime, NewerBin, Reading, ReaderEnds, At, Goto, textVars, binVars, scrapeVars
  <2>5. QED
    BY <2>1, <2>2, <2>3, <2>4
<1>9. CASE \E p \in Procs : Truncate(p)
  <2>p. PICK p \in Procs : Truncate(p)
    BY <1>9
  <2>1. OneAtATime'
    BY <2>p, <1>a, NoLines DEF OneAtATime, Truncate, At, Goto, textVars, binVars, scrapeVars
  <2>2. ShortNames'
    BY <2>p, <1>a, NoLines DEF ShortNames, Truncate, At, Goto, textVars, binVars, scrapeVars
  <2>3. NewerBin'
    BY <2>p, <1>a, NoLines DEF NewerBin, OneAtATime, Reading, Truncate, At, Goto, textVars, binVars, scrapeVars
  <2>4. GotInv'
    BY <2>p, <1>a, NoLines DEF GotInv, OneAtATime, NewerBin, Reading, Truncate, At, Goto, textVars, binVars, scrapeVars
  <2>5. QED
    BY <2>1, <2>2, <2>3, <2>4
<1>10. CASE \E p \in Procs : Put(p)
  <2>p. PICK p \in Procs : Put(p)
    BY <1>10
  <2>1. OneAtATime'
    BY <2>p, <1>a, NoLines DEF OneAtATime, Put, At, Goto, textVars, binVars, scrapeVars
  <2>2. ShortNames'
    BY <2>p, <1>a, NoLines DEF ShortNames, Put, At, Goto, textVars, binVars, scrapeVars
  <2>3. NewerBin'
    BY <2>p, <1>a, NoLines DEF NewerBin, OneAtATime, Reading, Put, At, Goto, textVars, binVars, scrapeVars
  <2>4. GotInv'
    BY <2>p, <1>a, NoLines DEF GotInv, OneAtATime, NewerBin, Reading, Put, At, Goto, textVars, binVars, scrapeVars
  <2>5. QED
    BY <2>1, <2>2, <2>3, <2>4
<1>11. CASE FindChunk
  <2>1. OneAtATime'
    BY <1>11, <1>a DEF OneAtATime, FindChunk, At, Goto, textVars, binVars, scrapeVars
  <2>2. ShortNames'
    BY <1>11, <1>a DEF ShortNames, FindChunk, At, Goto, textVars, binVars, scrapeVars
  <2>3. NewerBin'
    BY <1>11, <1>a DEF NewerBin, OneAtATime, Reading, FindChunk, At, Goto, textVars, binVars, scrapeVars
  <2>4. GotInv'
    BY <1>11, <1>a DEF GotInv, OneAtATime, NewerBin, Reading, FindChunk, At, Goto, textVars, binVars, scrapeVars
  <2>5. QED
    BY <2>1, <2>2, <2>3, <2>4
<1>12. CASE PinIndex
  <2>1. OneAtATime'
    BY <1>12, <1>a DEF OneAtATime, PinIndex, At, Goto, textVars, binVars, scrapeVars
  <2>2. ShortNames'
    BY <1>12, <1>a DEF ShortNames, PinIndex, At, Goto, textVars, binVars, scrapeVars
  <2>3. NewerBin'
    BY <1>12, <1>a DEF NewerBin, OneAtATime, Reading, PinIndex, At, Goto, textVars, binVars, scrapeVars
  <2>4. GotInv'
    BY <1>12, <1>a DEF GotInv, OneAtATime, NewerBin, Reading, PinIndex, At, Goto, textVars, binVars, scrapeVars
  <2>5. QED
    BY <2>1, <2>2, <2>3, <2>4
<1>13. CASE PinBloom
  <2>1. OneAtATime'
    BY <1>13, <1>a DEF OneAtATime, PinBloom, At, Goto, textVars, binVars, scrapeVars
  <2>2. ShortNames'
    BY <1>13, <1>a DEF ShortNames, PinBloom, At, Goto, textVars, binVars, scrapeVars
  <2>3. NewerBin'
    BY <1>13, <1>a DEF NewerBin, OneAtATime, Reading, PinBloom, At, Goto, textVars, binVars, scrapeVars
  <2>4. GotInv'
    BY <1>13, <1>a DEF GotInv, OneAtATime, NewerBin, Reading, PinBloom, At, Goto, textVars, binVars, scrapeVars
  <2>5. QED
    BY <2>1, <2>2, <2>3, <2>4
<1>14. CASE PushPin
  <2>1. OneAtATime'
    BY <1>14, <1>a DEF OneAtATime, PushPin, At, Goto, updateManifest, textVars, binVars, scrapeVars
  <2>2. ShortNames'
    BY <1>14, <1>a DEF ShortNames, PushPin, At, Goto, updateManifest, textVars, binVars, scrapeVars
  <2>3. NewerBin'
    BY <1>14, <1>a DEF NewerBin, OneAtATime, Reading, PushPin, At, Goto, updateManifest, textVars, binVars, scrapeVars
  <2>4. GotInv'
    BY <1>14, <1>a DEF GotInv, OneAtATime, NewerBin, Reading, PushPin, At, Goto, updateManifest, textVars, binVars, scrapeVars
  <2>5. QED
    BY <2>1, <2>2, <2>3, <2>4
<1>15. CASE WriteLine
  <2> DEFINE r == [item EXCEPT !.name = "short"]
  <2>a. r \in Record /\ r.name = "short" /\ text \in Seq(Record)
    BY DEF TypeOK, Record
  <2>b. buffer' = <<r>> \o text
    BY <1>15 DEF WriteLine
  <2> HIDE DEF r
  <2>c. Set(buffer') = {r} \cup Set(text)
    BY <2>a, <2>b, FrontLine
  <2>1. OneAtATime'
    BY <1>15, <1>a, <2>a, <2>c DEF OneAtATime, WriteLine, At, Goto, textVars, binVars, scrapeVars
  <2>2. ShortNames'
    BY <1>15, <1>a, <2>a, <2>c DEF ShortNames, WriteLine, At, Goto, textVars, binVars, scrapeVars
  <2>3. NewerBin'
    BY <1>15, <1>a, <2>a, <2>c DEF NewerBin, OneAtATime, Reading, WriteLine, At, Goto, textVars, binVars, scrapeVars
  <2>4. GotInv'
    BY <1>15, <1>a, <2>a, <2>c DEF GotInv, OneAtATime, NewerBin, Reading, WriteLine, At, Goto, textVars, binVars, scrapeVars
  <2>5. QED
    BY <2>1, <2>2, <2>3, <2>4
<1>16. CASE ChunkTaken
  <2>1. OneAtATime'
    BY <1>16, <1>a DEF OneAtATime, ChunkTaken, At, Goto, textVars, binVars, scrapeVars
  <2>2. ShortNames'
    BY <1>16, <1>a DEF ShortNames, ChunkTaken, At, Goto, textVars, binVars, scrapeVars
  <2>3. NewerBin'
    BY <1>16, <1>a DEF NewerBin, OneAtATime, Reading, ChunkTaken, At, Goto, textVars, binVars, scrapeVars
  <2>4. GotInv'
    BY <1>16, <1>a DEF GotInv, OneAtATime, NewerBin, Reading, ChunkTaken, At, Goto, textVars, binVars, scrapeVars
  <2>5. QED
    BY <2>1, <2>2, <2>3, <2>4
<1>17. CASE Download
  <2>a. PICK n \in {0, Published} : buffer' = LinesTo(n) /\ got' = {{Line(c) : c \in 1..n}}
    BY <1>17 DEF Download
  <2>b. n \in 0..K
    BY DEF ManifestConstants
  <2>c. Set(buffer') = {Line(c) : c \in 1..n}
    BY <2>a, <2>b, LineFacts
  <2>d. \A c \in 1..n : Line(c).name = "short"
    BY DEF Line
  <2>1. OneAtATime'
    BY <1>17, <1>a DEF OneAtATime, Download, At, Goto, textVars, binVars, scrapeVars
  <2>2. ShortNames'
    BY <1>17, <1>a, <2>c, <2>d DEF ShortNames, Download, At, Goto, textVars, binVars, scrapeVars
  <2>3. NewerBin'
    BY <1>17, <1>a DEF NewerBin, OneAtATime, Reading, Download, At, Goto, textVars, binVars, scrapeVars
  <2>4. GotInv'
    BY <1>17, <1>a, <2>a, <2>c DEF GotInv, OneAtATime, NewerBin, Reading, Download, At, Goto, textVars, binVars, scrapeVars
  <2>5. QED
    BY <2>1, <2>2, <2>3, <2>4
<1>18. CASE IniterEnds
  <2>1. OneAtATime'
    BY <1>18, <1>a DEF OneAtATime, IniterEnds, At, Goto, textVars, binVars, scrapeVars
  <2>2. ShortNames'
    BY <1>18, <1>a DEF ShortNames, IniterEnds, At, Goto, textVars, binVars, scrapeVars
  <2>3. NewerBin'
    BY <1>18, <1>a DEF NewerBin, OneAtATime, Reading, IniterEnds, At, Goto, textVars, binVars, scrapeVars
  <2>4. GotInv'
    BY <1>18, <1>a DEF GotInv, OneAtATime, NewerBin, Reading, IniterEnds, At, Goto, textVars, binVars, scrapeVars
  <2>5. QED
    BY <2>1, <2>2, <2>3, <2>4
<1>19. CASE UNCHANGED vars
  BY <1>19 DEF vars, OneAtATime, ShortNames, NewerBin, GotInv
<1>20. QED
  BY <1>1, <1>2, <1>3, <1>4, <1>5, <1>6, <1>7, <1>8, <1>9, <1>10, <1>11, <1>12,
     <1>13, <1>14, <1>15, <1>16, <1>17, <1>18, <1>19 DEF Next

\* One tool after the other: whichever of the two files a tool reads, it finds every
\* chunk of the manifest under its name, and --init goes through the manifest that it
\* has downloaded and not through an older pins.bin (pinlib_readManifest, which compares
\* modification times of whole seconds).
THEOREM ChunksAreFound ==
    ASSUME ManifestConstants, ~ Concurrent, MaxKills = 0
    PROVE  Spec => [](Findable /\ FreshRead)
<1>1. ManifestTypes /\ TurnInv => Findable /\ FreshRead
  <2> SUFFICES ASSUME ManifestTypes, TurnInv PROVE Findable /\ FreshRead
    OBVIOUS
  <2> USE DEF TurnInv
  <2>1. ASSUME AllIdle, NEW r \in Set(text) PROVE r.c \in FoundByName
    <3>1. ~ (Scraper \in Procs /\ pc[Scraper] \in {"line", "truncate"})
      BY <2>1 DEF AllIdle
    <3>2. CASE binTime > textTime
      <4>1. PICK s \in bin : s.name = "short" /\ s.c = r.c
        BY <3>1, <3>2 DEF NewerBin
      <4>2. QED
        BY <3>2, <4>1 DEF FoundByName
    <3>3. CASE ~ (binTime > textTime)
      BY <2>1, <3>3 DEF FoundByName, ShortNames
    <3>4. QED
      BY <3>2, <3>3
  <2>2. Findable
    BY <2>1 DEF Findable
  <2>3. FreshRead
    BY DEF FreshRead, GotInv, At
  <2>4. QED
    BY <2>2, <2>3
<1>2. Init => ManifestTypes /\ TurnInv
  BY ManifestTypesInit, TurnInit
<1>3. ManifestTypes /\ TurnInv /\ [Next]_vars => ManifestTypes' /\ TurnInv'
  BY ManifestTypesStep, TurnStep
<1>4. QED
  BY <1>1, <1>2, <1>3, PTL DEF Spec
=============================================================================
