----------------------------- MODULE Websockets -----------------------------
(***************************************************************************)
(* flame's commands and its websockets.  A request runs a tool as a child  *)
(* process; a goroutine reads the child's stderr and hands progress lines  *)
(* to the connection pool, which passes each to every connection.  All     *)
(* channels are unbuffered: a send and its receive are one step.           *)
(***************************************************************************)
EXTENDS Integers, Sequences

CONSTANTS Conns,       \* websocket connections
          Jobs,        \* commands: requests of the API, passes of the scrapers
          MaxLines,    \* bound: lines a child writes to stderr
          PipeSize,    \* lines that the pipe holds
          Faults       \* what may happen: "break", "cancel", "fail"

WebsocketsConstants ==
    /\ MaxLines \in Nat /\ PipeSize \in Nat \ {0}
    /\ Faults \subseteq {"break", "cancel", "fail"}

VARIABLES
    connections,   \* pool.connections
    todo,          \* what is left of the range over them; {}: the pool selects
    sent,          \* how many messages the pool has taken: the last is number sent
    writer,        \* where the goroutine of each connection is
    closed,        \* connections whose send channel is closed
    broken,        \* connections that cannot be written to
    held,          \* the message each goroutine has received last
    since, got,    \* history: sent when it registered; the messages written to it
    job,           \* where each command is
    lines, pipe,   \* lines the child has written, and those in the pipe
    reader         \* where the goroutine on its stderr is

poolVars == <<connections, todo, sent>>
connVars == <<writer, closed, broken, held, since, got>>
jobVars == <<job, lines, pipe, reader>>
vars == <<poolVars, connVars, jobVars>>

Init ==
    /\ connections = {} /\ todo = {} /\ sent = 0
    /\ writer = [c \in Conns |-> "none"]
    /\ closed = {} /\ broken = {}
    /\ held = [c \in Conns |-> 0]
    /\ since = [c \in Conns |-> 0]
    /\ got = [c \in Conns |-> <<>>]
    /\ job = [j \in Jobs |-> "none"]
    /\ lines = [j \in Jobs |-> 0]
    /\ pipe = [j \in Jobs |-> 0]
    /\ reader = [j \in Jobs |-> "scan"]

Selecting == todo = {}
WriterAt(c, label) == writer' = [writer EXCEPT ![c] = label]
JobAt(j, label) == job' = [job EXCEPT ![j] = label]

-----------------------------------------------------------------------------
(* HandleWebsockets, and pool.run *)

Connect(c) ==
    /\ writer[c] = "none"
    /\ WriterAt(c, "register")
    /\ UNCHANGED <<poolVars, closed, broken, held, since, got, jobVars>>

Register(c) ==
    /\ Selecting /\ writer[c] = "register"
    /\ connections' = connections \cup {c}
    /\ since' = [since EXCEPT ![c] = sent]
    /\ WriterAt(c, "start")
    /\ UNCHANGED <<todo, sent, closed, broken, held, got, jobVars>>

\* Mutant: the goroutine is started by the pool, when it is back at its select.
GoWriteFromPool(c) ==
    /\ Selecting /\ writer[c] = "start"
    /\ WriterAt(c, "receive")
    /\ UNCHANGED <<poolVars, closed, broken, held, since, got, jobVars>>

GoWrite(c) ==
    /\ writer[c] = "start"
    /\ WriterAt(c, "receive")
    /\ UNCHANGED <<poolVars, closed, broken, held, since, got, jobVars>>

\* Mutant: the channel is closed, the connection stays in the map.
UnregisterOnly(c) ==
    /\ Selecting /\ writer[c] = "unregister"
    /\ closed' = closed \cup {c}
    /\ WriterAt(c, "receive")
    /\ UNCHANGED <<poolVars, broken, held, since, got, jobVars>>

\* closeAndDelete
Unregister(c) ==
    /\ Selecting /\ writer[c] = "unregister"
    /\ connections' = connections \ {c}
    /\ closed' = closed \cup {c}
    /\ WriterAt(c, "receive")
    /\ UNCHANGED <<todo, sent, broken, held, since, got, jobVars>>

\* The pool takes a message; it is for every connection of that moment.
Broadcast ==
    /\ Selecting
    /\ sent' = sent + 1
    /\ todo' = connections
    /\ UNCHANGED connections

\* connection.send <- message
Send(c) ==
    /\ c \in todo
    /\ writer[c] = "receive" /\ c \notin closed
    /\ todo' = todo \ {c}
    /\ held' = [held EXCEPT ![c] = sent]
    /\ WriterAt(c, "write")
    /\ UNCHANGED <<connections, sent, closed, broken, since, got, jobVars>>

-----------------------------------------------------------------------------
(* Connection.write *)

WriteJSON(c) ==
    /\ writer[c] = "write" /\ c \notin broken
    /\ got' = [got EXCEPT ![c] = Append(@, held[c])]
    /\ WriterAt(c, "receive")
    /\ UNCHANGED <<poolVars, closed, broken, held, since, jobVars>>

WriteFails(c) ==
    /\ writer[c] = "write" /\ c \in broken
    /\ WriterAt(c, "unregister")
    /\ UNCHANGED <<poolVars, closed, broken, held, since, got, jobVars>>

WriterEnds(c) ==
    /\ writer[c] = "receive" /\ c \in closed
    /\ WriterAt(c, "ended")
    /\ UNCHANGED <<poolVars, closed, broken, held, since, got, jobVars>>

\* The other end goes away; nobody reads from the connection.
Break(c) ==
    /\ "break" \in Faults
    /\ writer[c] # "none"
    /\ broken' = broken \cup {c}
    /\ UNCHANGED <<poolVars, writer, closed, held, since, got, jobVars>>

-----------------------------------------------------------------------------
(* CallOneExtra, and the same in RunIndexScraper and RunMonitorScraper *)

StartJob(j) ==
    /\ job[j] = "none"
    /\ JobAt(j, "running")
    /\ UNCHANGED <<poolVars, connVars, lines, pipe, reader>>

\* A child that finds the pipe full waits.
ChildWrites(j) ==
    /\ job[j] = "running"
    /\ lines[j] < MaxLines /\ pipe[j] < PipeSize
    /\ lines' = [lines EXCEPT ![j] = @ + 1]
    /\ pipe' = [pipe EXCEPT ![j] = @ + 1]
    /\ UNCHANGED <<poolVars, connVars, job, reader>>

\* cmd.Output closes the pipe: what the scanner has not read yet may be lost.
ChildEnds(j, status) ==
    /\ job[j] = "running"
    /\ \E n \in 0 .. pipe[j] : pipe' = [pipe EXCEPT ![j] = n]
    /\ JobAt(j, status)
    /\ UNCHANGED <<poolVars, connVars, lines, reader>>

ChildDone(j) == lines[j] = MaxLines /\ ChildEnds(j, "ok")

\* It fails, or is killed because the client closed its connection.
ChildFails(j) == Faults \cap {"fail", "cancel"} # {} /\ ChildEnds(j, "error")

\* ScanForProgress: a line, with <PROG> or not.
ScanLine(j) ==
    /\ reader[j] = "scan" /\ pipe[j] > 0
    /\ pipe' = [pipe EXCEPT ![j] = @ - 1]
    /\ \E next \in {"scan", "broadcast"} : reader' = [reader EXCEPT ![j] = next]
    /\ UNCHANGED <<poolVars, connVars, job, lines>>

BroadcastProgress(j) ==
    /\ reader[j] = "broadcast"
    /\ Broadcast
    /\ reader' = [reader EXCEPT ![j] = "scan"]
    /\ UNCHANGED <<connVars, job, lines, pipe>>

BroadcastError(j) ==
    /\ job[j] = "error"
    /\ Broadcast
    /\ JobAt(j, "answered")
    /\ UNCHANGED <<connVars, lines, pipe, reader>>

Answer(j) ==
    /\ job[j] = "ok"
    /\ JobAt(j, "answered")
    /\ UNCHANGED <<poolVars, connVars, lines, pipe, reader>>

-----------------------------------------------------------------------------
\* The goroutine of a connection, on its own and where it meets the pool.
Write(c) == GoWrite(c) \/ WriteJSON(c) \/ WriteFails(c) \/ WriterEnds(c)
MeetPool(c) == Register(c) \/ Unregister(c)

Child(j) == ChildWrites(j) \/ ChildDone(j)

Next ==
    \/ \E c \in Conns : Connect(c) \/ MeetPool(c) \/ Send(c) \/ Write(c) \/ Break(c)
    \/ \E j \in Jobs :
          \/ StartJob(j) \/ Child(j) \/ ChildFails(j) \/ ScanLine(j)
          \/ BroadcastProgress(j) \/ BroadcastError(j) \/ Answer(j)

Spec == Init /\ [][Next]_vars

\* Goroutines and children are scheduled; of the channels that are ready, select
\* leaves none out for ever.
FairSpec ==
    /\ Spec
    /\ \A c \in Conns : WF_vars(Write(c)) /\ WF_vars(Send(c)) /\ SF_vars(MeetPool(c))
    /\ \A j \in Jobs :
          /\ WF_vars(Child(j)) /\ WF_vars(ScanLine(j)) /\ WF_vars(Answer(j))
          /\ SF_vars(BroadcastProgress(j)) /\ SF_vars(BroadcastError(j))

-----------------------------------------------------------------------------
(* Properties *)

TypeOK ==
    /\ connections \subseteq Conns /\ todo \subseteq Conns
    /\ sent \in Nat
    /\ writer \in [Conns -> {"none", "register", "start", "receive", "write", "unregister", "ended"}]
    /\ closed \subseteq Conns /\ broken \subseteq Conns
    /\ held \in [Conns -> Nat] /\ since \in [Conns -> Nat]
    /\ job \in [Jobs -> {"none", "running", "ok", "error", "answered"}]
    /\ lines \in [Jobs -> 0 .. MaxLines] /\ pipe \in [Jobs -> 0 .. PipeSize]
    /\ reader \in [Jobs -> {"scan", "broadcast"}]

\* A send on a closed channel would bring the server down: the pool closes the channel
\* of a connection only when no message is on its way to it, now or later.
NeverSendsOnClosed == closed \cap (todo \cup connections) = {}

\* A connection is shown every message from its registration on, once and in order,
\* though nothing but the channels orders the goroutines.
InOrder ==
    \A c \in Conns : got[c] = [i \in 1 .. Len(got[c]) |-> since[c] + i]

\* As long as no connection breaks every command ends, however much progress it
\* reports and whoever listens: its child waits on the pipe, the pipe on the reader,
\* the reader on the pool and the pool on the connections.
Answered == [](broken = {}) => \A j \in Jobs : (job[j] = "running") ~> (job[j] = "answered")

\* "Error while sending message, dropping connection": a connection that cannot be
\* written to is dropped.
\* The code does not keep this: README, section 5.
DropsBroken == \A c \in Conns : (writer[c] = "unregister") ~> (c \notin connections)
=============================================================================
