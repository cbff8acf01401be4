------------------------------- MODULE Prices -------------------------------
(***************************************************************************)
(* The price database: loadPriceData reads it, asks the exchange for at    *)
(* most Window more, and writes it anew; getQuotes shows every Every-th     *)
(* quote, and wei_2_Dollars finds the quote of a moment by counting.       *)
(*                                                                         *)
(* Time is counted in periods of five minutes from 2015-06-01, where a     *)
(* midnight is a multiple of Day; a quote is the period it is from.  The   *)
(* file is truncated when it is opened, and its last quotes are written    *)
(* when it is closed: until then they read as Zero.  The database that is  *)
(* shipped as a .gz is left out: the model starts without any.             *)
(***************************************************************************)
EXTENDS Integers, Sequences, FiniteSets

CONSTANTS Procs,
          Freshens,    \* which values of --freshen are given
          Listed,      \* the periods that the exchange has quotes of
          LastPeriod,  \* bound: the clock stops here
          Window, Day, Every,
          Btc,         \* the pair contains "BTC"
          MaxFails, MaxKills,   \* bounds
          NoFile, Hollow

PriceConstants ==
    /\ LastPeriod \in Nat /\ Listed \subseteq 0..LastPeriod
    /\ {Window, Day, Every} \subseteq Nat \ {0} /\ Day % Every = 0
    /\ MaxFails \in Nat /\ MaxKills \in Nat /\ Btc \in BOOLEAN

VARIABLES now, file, proc, fails, kills

vars == <<now, file, proc, fails, kills>>

Zero == -1
Start2015 == -1     \* lastRead before anything was read: the beginning of 2015...
Start2009 == -100   \* ... or, for pairs with BTC, of 2009

NeverRead == IF Btc THEN Start2009 ELSE Start2015

\* The periods of S, the earliest first.
InOrder(S) ==
    [i \in 1..Cardinality(S) |-> CHOOSE t \in S : Cardinality({u \in S : u < t}) = i - 1]

Init ==
    /\ now \in 0..LastPeriod
    /\ file = NoFile
    /\ proc = [p \in Procs |-> [pc |-> "idle", freshen |-> FALSE, last |-> NeverRead,
                                quotes |-> <<>>]]
    /\ fails = 0 /\ kills = 0

At(p, label) == proc[p].pc = label
Goto(p, label) == proc' = [proc EXCEPT ![p].pc = label]
Stored(p) == [last |-> proc[p].last, quotes |-> proc[p].quotes]

-----------------------------------------------------------------------------
Begin(p) ==
    /\ proc[p].pc \in {"idle", "done"}
    /\ \E f \in Freshens :
          proc' = [proc EXCEPT ![p] = [pc |-> "load", freshen |-> f,
                                       last |-> NeverRead, quotes |-> <<>>]]
    /\ UNCHANGED <<now, file, fails, kills>>

\* Without a file the prices are always fetched.  Reading an empty one leaves
\* lastRead as it was; its number of quotes is uninitialized: none, or a crash.
Load(p) ==
    /\ At(p, "load")
    /\ LET got == IF file \in {NoFile, Hollow} THEN [last |-> NeverRead, quotes |-> <<>>]
                  ELSE file
           f == proc[p].freshen \/ file = NoFile
       IN  \/ proc' = [proc EXCEPT ![p] = [pc |-> IF f THEN "fetch" ELSE "done", freshen |-> f,
                                           last |-> got.last, quotes |-> got.quotes]]
           \/ file = Hollow /\ Goto(p, "idle")
    /\ UNCHANGED <<now, file, fails, kills>>

NextRead(last) == IF last = Start2015 THEN 0 ELSE last + 1

\* What the exchange returns for a range; it may begin with the period before.
Response(start, early) ==
    LET end == IF start + Window < now THEN start + Window ELSE now
    IN  {t \in Listed : start - early <= t /\ t <= end}

AddToArray(p, t) == t > proc[p].last

\* The first quote is one of midnight.
AtMidnight(t) == t % Day = 0

Fetch(p) ==
    /\ At(p, "fetch")
    /\ \E early \in {0, 1} :
          LET response == Response(NextRead(proc[p].last), early)
              begun(t) == \/ proc[p].quotes # <<>>
                          \/ \E m \in response : m <= t /\ AtMidnight(m)
              added == InOrder({t \in response : AddToArray(p, t) /\ begun(t)})
          IN  IF added = <<>> THEN Goto(p, "done")
              ELSE proc' = [proc EXCEPT ![p].quotes = @ \o added,
                                        ![p].last = added[Len(added)],
                                        ![p].pc = "open"]
    /\ UNCHANGED <<now, file, fails, kills>>

FetchFails(p) ==
    /\ At(p, "fetch") /\ fails < MaxFails
    /\ fails' = fails + 1
    /\ Goto(p, "idle")
    /\ UNCHANGED <<now, file, kills>>

Open(p) ==
    /\ At(p, "open")
    /\ file' = Hollow
    /\ Goto(p, "write")
    /\ UNCHANGED <<now, fails, kills>>

Write(p) ==
    /\ At(p, "write")
    /\ file' = [Stored(p) EXCEPT !.quotes[Len(proc[p].quotes)] = Zero]
    /\ Goto(p, "close")
    /\ UNCHANGED <<now, fails, kills>>

Close(p) ==
    /\ At(p, "close")
    /\ file' = Stored(p)
    /\ Goto(p, "done")
    /\ UNCHANGED <<now, fails, kills>>

Kill(p) ==
    /\ kills < MaxKills
    /\ proc[p].pc \notin {"idle", "done"}
    /\ Goto(p, "idle")
    /\ kills' = kills + 1
    /\ UNCHANGED <<now, file, fails>>

Tick ==
    /\ now < LastPeriod
    /\ now' = now + 1
    /\ UNCHANGED <<file, proc, fails, kills>>

Advance(p) == Begin(p) \/ Load(p) \/ Fetch(p) \/ Open(p) \/ Write(p) \/ Close(p)

Next == (\E p \in Procs : Advance(p) \/ FetchFails(p) \/ Kill(p)) \/ Tick

Spec == Init /\ [][Next]_vars

FairSpec == Spec /\ \A p \in Procs : WF_vars(Advance(p))

-----------------------------------------------------------------------------
\* The quote that wei_2_Dollars takes for a moment: since the first one there is
\* one for every period.
IndexOffByOne(quotes, ts) ==
    LET i == IF ts < quotes[1] THEN 0 ELSE ts - quotes[1] + 1
    IN  1 + IF i < Len(quotes) - 1 THEN i ELSE Len(quotes) - 1

IndexFromTimeStamp(quotes, ts) ==
    LET i == IF ts < quotes[1] THEN 0 ELSE ts - quotes[1]
    IN  1 + IF i < Len(quotes) - 1 THEN i ELSE Len(quotes) - 1

Quotes(p) == IF At(p, "done") THEN proc[p].quotes ELSE <<>>

\* The quotes that getQuotes shows.
Shown(p) == {Quotes(p)[i] : i \in {j \in 1..Len(Quotes(p)) : (j - 1) % Every = 0}}

-----------------------------------------------------------------------------
\* Types; the beginning of the file says up to where its quotes go.
TypeOK ==
    /\ now \in 0..LastPeriod
    /\ \A p \in Procs : proc[p].pc \in {"idle", "load", "fetch", "open", "write", "close", "done"}
    /\ \/ file \in {NoFile, Hollow}
       \/ /\ file.quotes \in Seq(Listed \cup {Zero}) /\ file.quotes # <<>>
          /\ file.quotes[Len(file.quotes)] \in {file.last, Zero}

\* No quote is in the database twice or out of order, whoever writes it
\* (addToArray: "so as to not inadvertantly add records we already have").
NeverTwice ==
    file \notin {NoFile, Hollow} =>
        \A i, j \in DOMAIN file.quotes :
            i < j /\ Zero \notin {file.quotes[i], file.quotes[j]} => file.quotes[i] < file.quotes[j]

\* A moment between the first and the last quote is priced by its own quote
\* (indexFromTimeStamp, which counts instead of searching).
PricedRight ==
    \A p \in Procs : LET q == Quotes(p) IN q # <<>> =>
        \A t \in Listed : q[1] <= t /\ t <= proc[p].last =>
            q[IndexFromTimeStamp(q, t)] = t

\* getQuotes shows quotes that are whole steps apart and include the midnights
\* (the first entry is at midnight "so we hit midnight").
OnTheMark == \A p \in Procs : \A t \in Shown(p) : t % Every = 0

\* There is always a quote to take: wei_2_Dollars does not go on without prices.
\* The code does not keep this: README, section 5.
NeverEmpty == \A p \in Procs : At(p, "done") => proc[p].quotes # <<>>

\* Running the command again and again brings every quote of the exchange into
\* the database, from its first midnight on.
UpToDate ==
    \A t \in Listed : (\E m \in Listed : m <= t /\ AtMidnight(m)) =>
        (t <= now ~> file \notin {NoFile, Hollow}
                     /\ t \in {file.quotes[i] : i \in DOMAIN file.quotes})
=============================================================================
