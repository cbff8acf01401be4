---------------------------- MODULE AcctScrape2 ----------------------------
(***************************************************************************)
(* acctScrape2, the prototype of the index search in Go: Execute hands the *)
(* chunks to goroutines, no more than maxTasks at a time, and prints what  *)
(* they find as it arrives.  A chunk stands for what is found in it.       *)
(***************************************************************************)
EXTENDS Naturals, Sequences, FiniteSets

CONSTANTS N,          \* the chunks of the data directory are 1 .. N
          MaxTasks,   \* viper.GetInt("max"): zero if the configuration has none
          Bad         \* chunks that cannot be opened or have no magic number

AcctScrape2Constants == N \in Nat \ {0} /\ MaxTasks \in Nat /\ Bad \subseteq 1 .. N

VARIABLES
    pc,       \* of Execute: "files", "drain", "wait", "done", or "dead" after log.Fatal
    info,     \* the next chunk to hand out
    count,    \* goroutines whose result has not been taken
    left,     \* results still to be taken by the second loop
    tasks,    \* goroutines that are searching
    wg,       \* goroutines that wg.Wait waits for
    channel,  \* resultChannel, as long as there are files
    out       \* what is printed

vars == <<pc, info, count, left, tasks, wg, channel, out>>

Init ==
    /\ pc = "files" /\ info = 1 /\ count = 0 /\ left = 0
    /\ tasks = {} /\ wg = {} /\ channel = <<>> /\ out = <<>>

\* A chunk is handed to a goroutine, at once if there are few of them ...
Launch ==
    /\ pc = "files" /\ info <= N
    /\ count < MaxTasks
    /\ count' = count + 1
    /\ tasks' = tasks \cup {info} /\ wg' = wg \cup {info}
    /\ info' = info + 1
    /\ UNCHANGED <<pc, left, channel, out>>

\* ... or after one result has been taken and printed.
TakeAndLaunch ==
    /\ pc = "files" /\ info <= N
    /\ count >= MaxTasks
    /\ channel # <<>>
    /\ out' = Append(out, Head(channel)) /\ channel' = Tail(channel)
    /\ tasks' = tasks \cup {info} /\ wg' = wg \cup {info}
    /\ info' = info + 1
    /\ UNCHANGED <<pc, count, left>>

AllHandedOut ==
    /\ pc = "files" /\ info > N
    /\ pc' = "drain" /\ left' = count
    /\ UNCHANGED <<info, count, tasks, wg, channel, out>>

Take ==
    /\ pc = "drain" /\ left > 0
    /\ channel # <<>>
    /\ out' = Append(out, Head(channel)) /\ channel' = Tail(channel)
    /\ left' = left - 1
    /\ UNCHANGED <<pc, info, count, tasks, wg>>

\* A plausible slip: no wait for the goroutines.
FinishEarly ==
    /\ pc = "drain"
    /\ pc' = "done"
    /\ out' = out \o channel /\ channel' = <<>>
    /\ UNCHANGED <<info, count, left, tasks, wg>>

\* wg.Wait, close, and what is still in the channel.
Finish ==
    /\ pc = "drain" /\ left = 0
    /\ wg = {}
    /\ pc' = "done"
    /\ out' = out \o channel /\ channel' = <<>>
    /\ UNCHANGED <<info, count, left, tasks, wg>>

\* parseFile: the result is sent, then the deferred calls run.
Send(f) ==
    /\ f \in tasks \ Bad /\ pc \notin {"done", "dead"}
    /\ Len(channel) < N
    /\ channel' = Append(channel, f)
    /\ tasks' = tasks \ {f}
    /\ UNCHANGED <<pc, info, count, left, wg, out>>

WgDone(f) ==
    /\ f \in wg \ tasks /\ pc \notin {"done", "dead"}
    /\ wg' = wg \ {f}
    /\ UNCHANGED <<pc, info, count, left, tasks, channel, out>>

\* log.Fatal of a goroutine ends the program.
Fatal(f) ==
    /\ f \in tasks \cap Bad /\ pc \notin {"done", "dead"}
    /\ pc' = "dead"
    /\ UNCHANGED <<info, count, left, tasks, wg, channel, out>>

Execute == Launch \/ TakeAndLaunch \/ AllHandedOut \/ Take \/ Finish
Goroutine(f) == Send(f) \/ WgDone(f) \/ Fatal(f)

Next == Execute \/ \E f \in 1 .. N : Goroutine(f)

Spec == Init /\ [][Next]_vars

\* Go schedules every goroutine that can run.
FairSpec == Spec /\ WF_vars(Execute) /\ \A f \in 1 .. N : WF_vars(Goroutine(f))

----------------------------------------------------------------------------
\* The counters count what they are meant to, and no more goroutines are at
\* work than allowed.
TypeOK ==
    /\ info \in 1 .. N + 1
    /\ tasks \subseteq wg /\ wg \subseteq 1 .. N
    /\ pc = "files" => count = Cardinality(tasks) + Len(channel)
    /\ pc = "drain" => left = Cardinality(tasks) + Len(channel)
    /\ Cardinality(tasks) <= MaxTasks

\* Execute: what is found in a chunk is printed once; at the end that of all.
PrintedOnce ==
    /\ \A i, j \in DOMAIN out : out[i] = out[j] => i = j
    /\ pc = "done" => {out[i] : i \in DOMAIN out} = 1 .. N

\* Execute: the search comes to an end, with an answer or with an error.
Ends == <>(pc \in {"done", "dead"})
=============================================================================
