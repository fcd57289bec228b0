---------------------------- MODULE Connections ----------------------------
(* The server process between the sockets and the worker pool: TcpServer,    *)
(* TcpConnection, Channel and EPollPoller on the event loops, the callbacks  *)
(* of ser.cpp, and the workers, which answer through the connection's loop.  *)
EXTENDS EventLoops, WorkerPool

CONSTANTS Conns,        \* connections clients may open
          Base,         \* the loop of the main thread
          MaxConn,      \* server.max_connections
          NetSeeds      \* instances: I/O loops, clients, workers, lines per client, events

NoConn == "no connection"
Accept == <<"loop", "accept">>  \* the channel of the listening socket

ASSUME ConnectionsAssumption ==
    /\ Base \in Loops /\ Others = Workers /\ MaxConn \in Nat \ {0}
    /\ NoConn \notin Conns /\ IsFiniteSet(Conns)

ASSUME NetSeedsAssumption ==
    \A s \in NetSeeds :
        /\ s.io \in Seq(Loops) /\ s.clients \subseteq Conns /\ s.workers \subseteq Workers
        /\ s.requests \in Nat

VARIABLES conn,      \* the connections
          plan,      \* the instance of this behaviour, a member of NetSeeds
          nextIo,    \* next_
          reading,   \* per loop: the connection whose input buffer is being parsed
          connCount, \* connCount of main
          aborted,   \* an assertion of the library failed
          leaving,   \* I/O loops that were told to quit
          terminated \* an exception left its thread: std::terminate ended the process

serverVars == <<conn, plan, nextIo, reading, connCount, aborted, leaving, terminated>>
netVars == <<loopVars, poolVars, serverVars>>

(* peer: what the other end did, "reset" until the error was read; events:   *)
(* what the channel is interested in; registered: in channels_ of the poller *)
(* (with no events it is there as kDeleted); listed: in connections_;        *)
(* inbox, lines: lines in the socket and in the input buffer; asked, took:   *)
(* history, the requests read (the lines that are not empty) and the         *)
(* messages sendInLoop accepted; out, got: pieces of messages in the output  *)
(* buffer and written to the socket.                                         *)
NewConn == [state |-> "none", home |-> NoLoop, peer |-> "away", events |-> {}, registered |-> FALSE,
            listed |-> FALSE, counted |-> FALSE, inbox |-> 0, lines |-> 0, sent |-> 0,
            asked |-> 0, took |-> <<>>, out |-> <<>>, got |-> <<>>]

States == {"none", "Connecting", "Connected", "Disconnecting", "Disconnected"}

NetTypeOK ==
    /\ LoopsTypeOK /\ PoolTypeOK
    /\ \A c \in Conns :
          /\ conn[c].state \in States /\ conn[c].events \subseteq {"in", "out"}
          /\ conn[c].asked <= plan.requests
          /\ conn[c].state # "none" => conn[c].home \in Loops
    /\ reading \in [Loops -> Conns \cup {NoConn}]
    /\ connCount \in Nat /\ nextIo \in Nat

NetInit(seeds) ==
    /\ plan \in seeds
    /\ LoopsInit /\ PoolInit
    /\ conn = [c \in Conns |-> NewConn] /\ nextIo = 1
    /\ reading = [l \in Loops |-> NoConn]
    /\ connCount = 0 /\ aborted = FALSE /\ leaving = {} /\ terminated = FALSE

io == plan.io
Offered(what) == what \in plan.offered
IoLoops == IF io = <<>> THEN {Base} ELSE {io[i] : i \in 1 .. Len(io)}
RunningLoops == {Base} \cup IoLoops
Asserts(condition) == aborted' = (aborted \/ ~condition)
SameServer == UNCHANGED <<plan, nextIo, leaving, terminated>>

-----------------------------------------------------------------------------
(* Sending                                                                   *)

Pieces(m) == <<<<m, 1>>, <<m, 2>>>>

Wrote(k, m, n) ==
    LET rest == SubSeq(Pieces(m), n + 1, 2)
    IN [k EXCEPT !.got = @ \o SubSeq(Pieces(m), 1, n), !.out = @ \o rest, !.took = Append(@, m),
                 !.events = IF rest = <<>> THEN @ ELSE @ \cup {"out"}]

SendInLoopAtOnce(k, m) == IF k.state = "Disconnected" THEN {k} ELSE {Wrote(k, m, n) : n \in 0 .. 2}

(* sendInLoop: written directly only when nothing is waiting; what the       *)
(* socket does not take is buffered.  EPIPE and ECONNRESET drop the message. *)
SendInLoop(k, m) ==
    LET direct == "out" \notin k.events /\ k.out = <<>>
    IN IF k.state = "Disconnected" THEN {k}
       ELSE {Wrote(k, m, n) : n \in IF direct THEN 0 .. 2 ELSE {0}}
            \cup (IF direct /\ k.peer # "open" THEN {k} ELSE {})

(* send on the connection's own thread.                                      *)
Send(k, m) == IF k.state = "Connected" THEN SendInLoop(k, m) ELSE {k}

(* handleWrite: the socket takes one piece or more.                          *)
HandleWrite(l, c) ==
    /\ Handling(l, <<c, "out">>) /\ QueueNothing
    /\ <<c, "in">> \notin active[l] /\ reading[l] = NoConn
    /\ LET k == conn[c]
       IN IF "out" \notin k.events \/ (k.peer # "open" /\ k.out # <<>>)
          THEN UNCHANGED conn
          ELSE \E n \in 1 .. Len(k.out) :
                  conn' = [conn EXCEPT ![c].got = @ \o SubSeq(k.out, 1, n),
                                       ![c].out = SubSeq(k.out, n + 1, Len(k.out)),
                                       ![c].events = IF n = Len(k.out) THEN @ \ {"out"} ELSE @]
    /\ UNCHANGED <<poolVars, reading, connCount, aborted>> /\ SameServer

-----------------------------------------------------------------------------
(* The life of a connection                                                  *)

(* connectEstablished and the connection callback: over the limit the        *)
(* connection is closed again and gets no context.                           *)
Establish(l, c, k) ==
    LET up == [k EXCEPT !.state = "Connected", !.events = {"in"}, !.registered = TRUE]
    IN /\ Asserts(k.state = "Connecting")
       /\ IF connCount < MaxConn
          THEN /\ connCount' = connCount + 1
               /\ conn' = [conn EXCEPT ![c] = [up EXCEPT !.counted = TRUE]]
               /\ QueueNothing
          ELSE /\ conn' = [conn EXCEPT ![c] = [up EXCEPT !.state = "Disconnecting"]]
               /\ QueueInLoop(l, <<"forceClose", c>>, l)
               /\ UNCHANGED connCount

DownUncounted(k) == connCount' = IF connCount > 0 THEN connCount - 1 ELSE 0

(* The connection callback when the connection is down.                      *)
Down(k) == connCount' = IF k.counted THEN connCount - 1 ELSE connCount

Closed(k) == [k EXCEPT !.state = "Disconnected", !.events = {}, !.registered = FALSE, !.counted = FALSE]

(* handleClose: callbacks, the removal posted to the server's loop, and the  *)
(* channel taken from the poller at once.                                    *)
HandleClose(l, c) ==
    /\ Asserts(conn[c].state \in {"Connected", "Disconnecting"})
    /\ Down(conn[c])
    /\ conn' = [conn EXCEPT ![c] = Closed(@)]
    /\ QueueInLoop(Base, <<"remove", c>>, l)

ForceCloseAgain(l, c) == HandleClose(l, c)

ForceCloseInLoop(l, c) ==
    IF conn[c].state \in {"Connected", "Disconnecting"} THEN HandleClose(l, c)
    ELSE UNCHANGED <<conn, connCount, aborted, pending, eventfd>>

Listening == at[Base] # "start"
Backlog == {c \in Conns : conn[c].state = "none" /\ conn[c].peer # "away"}

(* Acceptor::handleRead and newConnection: connections go round the loops.   *)
HandleAccept ==
    /\ Handling(Base, Accept) /\ reading[Base] = NoConn
    /\ \E c \in Backlog :
          LET home == IF io = <<>> THEN Base ELSE io[nextIo]
              k == [conn[c] EXCEPT !.state = "Connecting", !.home = home, !.listed = TRUE]
          IN IF home = Base
             THEN Establish(Base, c, k)
             ELSE /\ conn' = [conn EXCEPT ![c] = k]
                  /\ QueueInLoop(home, <<"established", c>>, Base)
                  /\ UNCHANGED <<connCount, aborted>>
    /\ nextIo' = IF nextIo >= Len(io) THEN 1 ELSE nextIo + 1
    /\ UNCHANGED <<poolVars, plan, leaving, terminated, reading>>

(* No descriptor is left: the connection is accepted with the idle one and   *)
(* closed; the client has to come again.                                     *)
AcceptFails ==
    /\ Offered("no descriptors")
    /\ Handling(Base, Accept) /\ reading[Base] = NoConn /\ QueueNothing
    /\ \E c \in Backlog : conn' = [conn EXCEPT ![c] = NewConn]
    /\ UNCHANGED <<poolVars, reading, connCount, aborted>> /\ SameServer

(* handleRead, which Channel calls before handleWrite.                       *)
HandleRead(l, c) ==
    /\ Handling(l, <<c, "in">>) /\ reading[l] = NoConn
    /\ LET k == conn[c]
       IN \/ /\ k.inbox > 0 /\ k.peer # "reset"
             /\ conn' = [conn EXCEPT ![c].lines = @ + k.inbox, ![c].inbox = 0]
             /\ reading' = [reading EXCEPT ![l] = c]
             /\ QueueNothing /\ UNCHANGED <<connCount, aborted>>
          \/ /\ k.peer = "reset" \/ (k.peer # "open" /\ k.inbox = 0)
             /\ HandleClose(l, c) /\ UNCHANGED reading
          \/ /\ k.peer = "reset"
             /\ conn' = [conn EXCEPT ![c].peer = "gone", ![c].inbox = 0]
             /\ QueueNothing /\ UNCHANGED <<reading, connCount, aborted>>
    /\ UNCHANGED poolVars /\ SameServer

Answer(c, k, m) == \E j \in Send(k, m) : conn' = [conn EXCEPT ![c] = j]

HandleLineSilently(l) ==
    /\ reading[l] # NoConn /\ conn[reading[l]].lines > 0
    /\ LET c == reading[l]
           k == [conn[c] EXCEPT !.lines = @ - 1, !.asked = @ + 1]
       IN \/ TryPut(<<c, k.asked>>) /\ conn' = [conn EXCEPT ![c] = k]
          \/ (Refuses \/ Offered("bad lines")) /\ conn' = [conn EXCEPT ![c] = k] /\ UNCHANGED poolVars
    /\ UNCHANGED <<loopVars, reading, connCount, aborted>> /\ SameServer

(* messageCallback, a request: queued for a worker, or answered with         *)
(* SERVER_BUSY, or rejected on the spot (size, rate limits, JSON).           *)
HandleLine(l) ==
    /\ reading[l] # NoConn /\ conn[reading[l]].lines > 0
    /\ LET c == reading[l]
           k == [conn[c] EXCEPT !.lines = @ - 1, !.asked = @ + 1]
       IN \/ TryPut(<<c, k.asked>>) /\ conn' = [conn EXCEPT ![c] = k]
          \/ (Refuses \/ Offered("bad lines")) /\ Answer(c, k, k.asked) /\ UNCHANGED poolVars
    /\ UNCHANGED <<loopVars, reading, connCount, aborted>> /\ SameServer

(* The same callback drops an empty line without an answer.                  *)
EmptyLine(l) ==
    /\ Offered("bad lines") /\ reading[l] # NoConn /\ conn[reading[l]].lines > 0
    /\ conn' = [conn EXCEPT ![reading[l]].lines = @ - 1]
    /\ UNCHANGED <<loopVars, poolVars, reading, connCount, aborted>> /\ SameServer

Terminate ==
    /\ Offered("uncaught") /\ terminated' = TRUE
    /\ UNCHANGED <<loopVars, poolVars, conn, plan, nextIo, reading, connCount, aborted, leaving>>

(* Json::LogicError in the callback: well-formed JSON that is neither object *)
(* nor null, or a gateway field that is an array or an object.  Nothing on   *)
(* the I/O thread catches it.                                                *)
LineThrows(l) == reading[l] # NoConn /\ conn[reading[l]].lines > 0 /\ Terminate

(* No complete line is left; an incomplete one over max_request_bytes is     *)
(* answered with an error (message 0), and the connection is closed.         *)
EndOfLines(l) ==
    /\ reading[l] # NoConn /\ conn[reading[l]].lines = 0
    /\ LET c == reading[l]
       IN \/ UNCHANGED conn /\ QueueNothing
          \/ /\ Offered("huge lines") /\ conn[c].state \in {"Connected", "Disconnecting"}
             /\ \E j \in Send(conn[c], 0) : conn' = [conn EXCEPT ![c] = [j EXCEPT !.state = "Disconnecting"]]
             /\ QueueInLoop(l, <<"forceClose", c>>, l)
    /\ reading' = [reading EXCEPT ![l] = NoConn]
    /\ UNCHANGED <<at, active, batch, quit, waking, poolVars, connCount, aborted>> /\ SameServer

-----------------------------------------------------------------------------
(* Functors                                                                  *)

Functor(l, kind) == at[l] = "functors" /\ batch[l] # <<>> /\ Head(batch[l])[1] = kind

RunEstablished(l) ==
    /\ Functor(l, "established") /\ Running(l)
    /\ LET c == Head(batch[l])[2] IN Establish(l, c, conn[c])
    /\ UNCHANGED <<poolVars, reading>> /\ SameServer

RunForceClose(l) ==
    /\ Functor(l, "forceClose") /\ Running(l)
    /\ ForceCloseInLoop(l, Head(batch[l])[2])
    /\ UNCHANGED <<poolVars, reading>> /\ SameServer

RunSend(l) ==
    /\ Functor(l, "send") /\ Running(l) /\ QueueNothing
    /\ LET f == Head(batch[l])
       IN \E j \in SendInLoop(conn[f[2]], f[3]) : conn' = [conn EXCEPT ![f[2]] = j]
    /\ UNCHANGED <<poolVars, reading, connCount, aborted>> /\ SameServer

(* removeConnectionInLoop: out of the map; the last reference of the server  *)
(* goes back to the connection's own loop.                                   *)
RunRemove(l) ==
    /\ Functor(l, "remove") /\ Running(l)
    /\ LET c == Head(batch[l])[2]
       IN /\ Asserts(conn[c].listed)
          /\ conn' = [conn EXCEPT ![c].listed = FALSE]
          /\ QueueInLoop(conn[c].home, <<"release", c>>, l)
    /\ UNCHANGED <<poolVars, reading, connCount>> /\ SameServer

RunRelease(l) ==
    /\ Functor(l, "release") /\ Running(l) /\ QueueNothing
    /\ UNCHANGED <<poolVars, conn, reading, connCount, aborted>> /\ SameServer

(* connectDestroyed, from the destructor of the server.                      *)
RunDestroyed(l) ==
    /\ Functor(l, "destroyed") /\ Running(l) /\ QueueNothing
    /\ LET c == Head(batch[l])[2]
       IN IF conn[c].state = "Connected"
          THEN Down(conn[c]) /\ conn' = [conn EXCEPT ![c] = Closed(@)]
          ELSE UNCHANGED <<conn, connCount>>
    /\ UNCHANGED <<poolVars, reading, aborted>> /\ SameServer

-----------------------------------------------------------------------------
(* Loops, workers, clients                                                   *)

Readable(l) == {<<c, "in">> : c \in {d \in Conns : conn[d].home = l /\ conn[d].registered /\ "in" \in conn[d].events
                                                   /\ (conn[d].inbox > 0 \/ conn[d].peer # "open")}}
Writable(l) == {<<c, "out">> : c \in {d \in Conns : conn[d].home = l /\ conn[d].registered /\ "out" \in conn[d].events}}
Acceptable(l) == IF l = Base /\ Listening /\ Backlog # {} THEN {Accept} ELSE {}

PollChannels(l) ==
    /\ \E w \in SUBSET Writable(l) :
          LET ready == Readable(l) \cup w \cup Acceptable(l)
          IN Poll(l, ready) /\ (ready # {} \/ eventfd[l])
    /\ UNCHANGED <<poolVars, serverVars>>

LoopItself(l) ==
    /\ \/ StartLooping(l)
       \/ PollTimeout(l) /\ ~eventfd[l] /\ Readable(l) = {} /\ Acceptable(l) = {}
       \/ HandleWakeup(l) /\ reading[l] = NoConn
       \/ TakeFunctors(l) /\ reading[l] = NoConn
       \/ FinishIteration(l)
    /\ UNCHANGED <<poolVars, serverVars>>

LoopStep(l) ==
    /\ ~terminated
    /\ \/ LoopItself(l) \/ PollChannels(l)
       \/ l = Base /\ (HandleAccept \/ AcceptFails)
       \/ \E c \in Conns : HandleRead(l, c) \/ HandleWrite(l, c)
       \/ HandleLine(l) \/ EmptyLine(l) \/ LineThrows(l) \/ EndOfLines(l)
       \/ RunEstablished(l) \/ RunForceClose(l) \/ RunSend(l) \/ RunRemove(l) \/ RunRelease(l) \/ RunDestroyed(l)

TakeTask(w) == waking[w] = NoLoop /\ Take(w) /\ UNCHANGED <<loopVars, serverVars>>

(* The task ends with sendJson: nothing is sent unless the connection is     *)
(* connected, else the message is queued in the connection's loop.           *)
FinishTask(w) ==
    /\ hand[w] # NoTask /\ waking[w] = NoLoop
    /\ LET c == hand[w][1]
       IN IF conn[c].state = "Connected"
          THEN Push(w, conn[c].home, <<"send", c, hand[w][2]>>) /\ UNCHANGED poolVars
          ELSE Finish(w) /\ UNCHANGED loopVars
    /\ UNCHANGED serverVars

WriteEventfd(w) == WakeUp(w) /\ Finish(w) /\ UNCHANGED serverVars

(* The metrics after the handler, outside its try block, read the type of    *)
(* the request as an int and throw when it does not fit.                     *)
TaskThrows(w) == hand[w] # NoTask /\ waking[w] = NoLoop /\ Terminate

WorkerStep(w) == ~terminated /\ (TakeTask(w) \/ FinishTask(w) \/ TaskThrows(w) \/ WriteEventfd(w))

ClientStep(c) ==
    /\ LET k == conn[c]
       IN \/ k.peer = "away" /\ conn' = [conn EXCEPT ![c].peer = "open"]
          \/ /\ k.peer = "open" /\ k.sent < plan.requests
             /\ conn' = [conn EXCEPT ![c].inbox = @ + 1, ![c].sent = @ + 1]
          \/ Offered("close") /\ k.peer = "open" /\ conn' = [conn EXCEPT ![c].peer = "closed"]
          \/ Offered("reset") /\ k.peer = "open" /\ conn' = [conn EXCEPT ![c].peer = "reset"]
    /\ UNCHANGED <<loopVars, poolVars, reading, connCount, aborted>> /\ SameServer

(* A signal: a job of the scheduler calls quit() of the main loop; when that *)
(* has ended, the destructors destroy the connections, end the I/O loops one *)
(* after the other and, last, the worker pool.                               *)
Signal == Offered("signal") /\ ~quit[Base] /\ Quit(Base) /\ UNCHANGED <<poolVars, serverVars>>

DestroyConnection(c) ==
    /\ at[Base] = "out" /\ conn[c].listed
    /\ conn' = [conn EXCEPT ![c].listed = FALSE]
    /\ QueueInLoop(conn[c].home, <<"destroyed", c>>, Base)
    /\ UNCHANGED <<at, active, batch, quit, waking, poolVars, reading, connCount, aborted>> /\ SameServer

QuitIo(l) ==
    /\ at[Base] = "out" /\ l \in IoLoops \ (leaving \cup {Base}) /\ \A c \in Conns : ~conn[c].listed
    /\ \A j \in leaving : at[j] = "out"
    /\ Quit(l) /\ leaving' = leaving \cup {l}
    /\ UNCHANGED <<poolVars, conn, plan, nextIo, reading, connCount, aborted, terminated>>

StopWorkers ==
    /\ at[Base] = "out" /\ \A l \in IoLoops : at[l] = "out"
    /\ StopPool /\ UNCHANGED <<loopVars, serverVars>>

NetNext ==
    \/ \E l \in RunningLoops : LoopStep(l)
    \/ \E w \in plan.workers : WorkerStep(w)
    \/ \E c \in plan.clients : ClientStep(c) \/ (~terminated /\ DestroyConnection(c))
    \/ ~terminated /\ (Signal \/ StopWorkers \/ \E l \in Loops : QuitIo(l))

(* Threads run: every loop and every worker goes on when it can.             *)
NetFairness ==
    /\ \A l \in Loops : WF_netVars(l \in RunningLoops /\ LoopStep(l))
    /\ \A w \in Workers : WF_netVars(w \in plan.workers /\ WorkerStep(w))

NetSpec == NetInit(NetSeeds) /\ [][NetNext]_netVars /\ NetFairness

-----------------------------------------------------------------------------
(* What was written to a socket and what waits in the output buffer are the  *)
(* messages sendInLoop accepted, whole and in that order, whatever part of   *)
(* each the socket took at once and whichever threads sent them; and among   *)
(* these every request is answered at most once, and none before it came.    *)
OutputInOrder ==
    \A c \in Conns :
        LET k == conn[c]
        IN /\ k.got \o k.out = [i \in 1 .. 2 * Len(k.took) |-> <<k.took[(i + 1) \div 2], 2 - (i % 2)>>]
           /\ \A i, j \in 1 .. Len(k.took) : k.took[i] = k.took[j] /\ k.took[i] # 0 => i = j
           /\ \A i \in 1 .. Len(k.took) : k.took[i] <= k.asked

(* connCount is the number of connections that are up and counted, on        *)
(* however many loops they come and go: refused ones never count, closed     *)
(* ones are given back once, and the limit of the configuration holds.       *)
ConnectionsCounted ==
    /\ connCount = Cardinality({c \in Conns : conn[c].counted})
    /\ connCount <= MaxConn
    /\ \A c \in Conns : conn[c].counted => conn[c].state \in {"Connected", "Disconnecting"}

(* References that keep a connection object alive.                           *)
Mentions(q, c) == \E i \in 1 .. Len(q) : q[i][2] = c
Alive(c) ==
    \/ conn[c].listed
    \/ \E l \in Loops : Mentions(pending[l], c) \/ Mentions(batch[l], c) \/ reading[l] = c
    \/ \E i \in 1 .. Len(tasks) : tasks[i][1] = c
    \/ \E w \in Workers : hand[w] # NoTask /\ hand[w][1] = c

(* While the server runs, no assertion of the library fails, a connection    *)
(* object goes only when it is disconnected and out of the poller, and a     *)
(* poller never holds the channel of an object that is gone.                 *)
NetAssertions ==
    /\ ~aborted
    /\ at[Base] # "out" =>
          \A c \in Conns : conn[c].state # "none" /\ ~Alive(c) =>
              conn[c].state = "Disconnected" /\ ~conn[c].registered

(* Every request (a line that is not empty) that the server read is answered *)
(* in time on its connection, or the connection goes down, or the server is  *)
(* shutting down, or an exception nobody caught has ended the process.       *)
RequestsAnswered ==
    \A c \in Conns :
        conn[c].asked > Len(conn[c].took) ~>
            \/ conn[c].asked <= Len(conn[c].took)
            \/ conn[c].state # "Connected"
            \/ quit[Base] \/ at[Base] = "out" \/ terminated
=============================================================================
