----------------------------- MODULE ServerLoop -----------------------------
(***************************************************************************)
(* The one thread of the server: Server::run and, inside it, the poll of   *)
(* EventLoop, the accept of Listener, the connection table and its cache   *)
(* (ConnectionManager), the reads and writes of Connection and the loop of *)
(* RequestProcessor.  Around it are what can happen at any moment: clients *)
(* that connect, send, receive and go away, a connection that falls silent *)
(* for longer than kConnectionTimeout, and the signal handler.             *)
(*                                                                         *)
(* Requests and replies are counted, not looked at: what a command does is *)
(* the subject of other modules, and so are bytes.  What counts here is    *)
(* that a request may not be there as a whole, that the parser may throw   *)
(* on it, and that a command may.  A Connection object is named by its file *)
(* descriptor, which is also its place in _connections.  Two objects never *)
(* share one while a pointer to the first is still used: addConnection     *)
(* makes the loop fetch its pointers anew.                                 *)
(***************************************************************************)
EXTENDS Integers, FiniteSets

CONSTANTS
  MaxFD,        \* descriptors the process may have open for connections
  MaxClients,   \* bound on the clients that are connected or waiting
  MaxRequests,  \* kMaxRequestsPerConnection: requests answered in one pass (100)
  ReadSize,     \* requests that one read of kReadBufferSize bytes may complete
  RcvRoom,      \* pieces of input a socket holds, requests in part or several
  SndRoom,      \* replies a socket holds
  MaxErrors,    \* bound: replies in a buffer above which no further error is counted
  MaxFaulty,    \* bound on the clients at a time that have left or sent what is rejected
  Signals       \* may SIGINT or SIGTERM arrive?

ASSUME ServerAssumption ==
  /\ {MaxFD, MaxClients, MaxRequests, ReadSize, RcvRoom, SndRoom, MaxErrors}
       \subseteq Nat \ {0}
  /\ MaxFaulty \in Nat
  /\ Signals \in BOOLEAN

VARIABLES
  pc,          \* where Server::run is
  running,     \* _running of Server and of EventLoop, cleared together
  conn,        \* _connections: the Connection at each descriptor, or NoConn
  cache,       \* _activeConnectionsCache
  cacheValid,  \* _cacheValid
  interest,    \* the events each descriptor is registered for with epoll
  events,      \* what epoll_wait returned and the loop has not handled yet
  accepting,   \* is the listener's event among these?
  todo,        \* the connections the pass of Server::run still has before it
  backlog,     \* clients waiting to be accepted
  sock         \* the socket of each connection, and the peer at its other end

loopVars == <<pc, running, cache, cacheValid, events, accepting, todo>>
vars == <<loopVars, conn, interest, backlog, sock>>

FDs == 1..MaxFD

Alive == pc \notin {"down", "exited"}

\* The fields of a Connection.  _want_read and _want_write are never equal
\* once the connection has been added.  The input buffer starts with in requests
\* the parser takes; behind them may be a part of one, which is not counted, or
\* one that is rejected: parseRequest throws on it, and consumes nothing.  The
\* output buffer holds out replies; stale says that nothing was read or written
\* for the timeout.
Connection ==
  [want : {"read", "write"}, closed : BOOLEAN, in : 0..ReadSize,
   rejected : BOOLEAN, out : Nat, stale : BOOLEAN]

NoConn == [want |-> "none"]
NewConn == [want |-> "read", closed |-> FALSE, in |-> 0, rejected |-> FALSE, out |-> 0,
            stale |-> FALSE]

\* The peer is "open"; has "closed" its end; has "reset" the connection, which
\* the next call on the socket reports; or the connection is "broken": a write
\* raises SIGPIPE.
Socket ==
  [peer : {"open", "closed", "reset", "broken"}, rcv : 0..RcvRoom, snd : 0..SndRoom]

NoSocket == [peer |-> "none"]
NewSocket == [peer |-> "open", rcv |-> 0, snd |-> 0]

Open == {fd \in FDs : conn[fd] # NoConn}
Unused == FDs \ Open

\* Bound: not more clients do what ends well for nobody.
Faulty == {fd \in Open : sock[fd].peer # "open" \/ conn[fd].rejected}
OneMoreFaulty == Cardinality(Faulty) < MaxFaulty

Lowest(S) == CHOOSE fd \in S : \A other \in S : fd <= other
Least(a, b) == IF a <= b THEN a ELSE b

Init ==
  /\ pc = "poll"
  /\ running = TRUE
  /\ conn = [fd \in FDs |-> NoConn]
  /\ cache = {}
  /\ cacheValid = FALSE
  /\ interest = [fd \in FDs |-> {}]
  /\ events = [fd \in FDs |-> {}]
  /\ accepting = FALSE
  /\ todo = {}
  /\ backlog = 0
  /\ sock = [fd \in FDs |-> NoSocket]

-----------------------------------------------------------------------------
(* ConnectionManager                                                       *)

\* getActiveConnections: the cache, rebuilt if something was added or removed.
Active == IF cacheValid THEN cache ELSE {fd \in Open : ~ conn[fd].closed}

\* Mutation of Forget: the cache stays valid.
ForgetKeepsCache(gone) ==
  /\ conn' = [fd \in FDs |-> IF fd \in gone THEN NoConn ELSE conn[fd]]
  /\ sock' = [fd \in FDs |-> IF fd \in gone THEN NoSocket ELSE sock[fd]]
  /\ interest' = [fd \in FDs |-> IF fd \in gone THEN {} ELSE interest[fd]]
  /\ UNCHANGED cacheValid

\* Closing the descriptor also takes it out of epoll.  It is closed a second
\* time by ~Connection, when nothing can have been opened in between.
Forget(gone) ==
  /\ conn' = [fd \in FDs |-> IF fd \in gone THEN NoConn ELSE conn[fd]]
  /\ sock' = [fd \in FDs |-> IF fd \in gone THEN NoSocket ELSE sock[fd]]
  /\ interest' = [fd \in FDs |-> IF fd \in gone THEN {} ELSE interest[fd]]
  /\ cacheValid' = (cacheValid /\ gone = {})

-----------------------------------------------------------------------------
(* EventLoop::poll                                                         *)

\* Every active connection is registered for what it wants.
Poll ==
  /\ pc = "poll"
  /\ running
  /\ cache' = Active
  /\ cacheValid' = TRUE
  /\ interest' = [fd \in FDs |->
       IF fd \in Active \cap Open /\ ~ conn[fd].closed
       THEN {"error", conn[fd].want} ELSE interest[fd]]
  /\ pc' = "wait"
  /\ UNCHANGED <<running, conn, events, accepting, todo, backlog, sock>>

\* After stop the poll returns at once; the pass over the connections follows.
PollStopped ==
  /\ pc = "poll"
  /\ ~ running
  /\ pc' = "events"
  /\ UNCHANGED <<running, cache, cacheValid, events, accepting, todo>>
  /\ UNCHANGED <<conn, interest, backlog, sock>>

\* What epoll has to say about a descriptor; errors need no registration for
\* them, but the descriptor must be registered.
Ready(fd) ==
  LET s == sock[fd]
      happened == (IF s.rcv > 0 \/ s.peer # "open" THEN {"read"} ELSE {})
                  \cup (IF s.snd < SndRoom \/ s.peer # "open" THEN {"write"} ELSE {})
                  \cup (IF s.peer \in {"reset", "broken"} THEN {"error"} ELSE {})
  IN IF interest[fd] = {} THEN {} ELSE interest[fd] \cap happened

\* epoll_wait returns what is ready, or nothing after 100 ms.  kMaxEvents (128)
\* is above the number of descriptors here.
Wait ==
  /\ pc = "wait"
  /\ events' = [fd \in FDs |-> Ready(fd)]
  /\ accepting' = (backlog > 0)
  /\ pc' = "events"
  /\ UNCHANGED <<running, cache, cacheValid, todo, conn, interest, backlog, sock>>

\* Mutation of Accept: the cache stays valid.
AcceptKeepsCache ==
  /\ pc = "events"
  /\ accepting
  /\ Unused # {}
  /\ LET fd == Lowest(Unused)
     IN /\ conn' = [conn EXCEPT ![fd] = NewConn]
        /\ sock' = [sock EXCEPT ![fd] = NewSocket]
  /\ backlog' = backlog - 1
  /\ accepting' = FALSE
  /\ UNCHANGED <<pc, running, cache, cacheValid, events, todo, interest>>

\* Listener::onAccept with addConnection: one client for each event, at the
\* lowest descriptor that is free.
Accept ==
  /\ pc = "events"
  /\ accepting
  /\ Unused # {}
  /\ LET fd == Lowest(Unused)
     IN /\ conn' = [conn EXCEPT ![fd] = NewConn]
        /\ sock' = [sock EXCEPT ![fd] = NewSocket]
  /\ cacheValid' = FALSE
  /\ backlog' = backlog - 1
  /\ accepting' = FALSE
  /\ UNCHANGED <<pc, running, cache, events, todo, interest>>

\* Without a descriptor accept fails, and onAccept throws.  Nothing catches it
\* before main, which returns.
AcceptThrows ==
  /\ pc = "events"
  /\ accepting
  /\ Unused = {}
  /\ pc' = "down"
  /\ UNCHANGED <<running, cache, cacheValid, events, accepting, todo>>
  /\ UNCHANGED <<conn, interest, backlog, sock>>

-----------------------------------------------------------------------------
(* Connection: h is a connection with its socket, [c |-> ..., s |-> ...]    *)

\* n pieces of input come in, complete some requests and may bring in one that is
\* rejected.
Arrived(h, n, requests, rejected) ==
  [c |-> [h.c EXCEPT !.in = @ + requests, !.rejected = rejected, !.stale = FALSE],
   s |-> [h.s EXCEPT !.rcv = @ - n]]

\* The read finds the end of the input, or an error, which is reported once.
Ended(h) ==
  [c |-> [h.c EXCEPT !.closed = TRUE],
   s |-> [h.s EXCEPT !.peer = IF @ = "reset" THEN "broken" ELSE @]]

\* handleRead.  What has arrived is read before an error is reported.  A piece
\* may complete any number of requests up to ReadSize.  Nothing is read behind a
\* request that is rejected (OneReadAtATime).
ReadFrom(h) ==
  IF h.s.rcv > 0
  THEN {Arrived(h, n, requests, rejected) :
          n \in 1..h.s.rcv, requests \in 0..ReadSize,
          rejected \in {b \in BOOLEAN : b => OneMoreFaulty}}
  ELSE IF h.s.peer = "open" THEN {h} ELSE {Ended(h)}

\* Mutation of WriteTo: any write is followed by reading.
WriteToPartly(h) ==
  LET n == Least(h.c.out, SndRoom - h.s.snd)
  IN CASE h.c.out > 0 /\ h.s.peer = "reset" ->
            [c |-> [h.c EXCEPT !.closed = TRUE], s |-> [h.s EXCEPT !.peer = "broken"]]
       [] n > 0 /\ h.s.peer \in {"open", "closed"} ->
            [c |-> [h.c EXCEPT !.out = @ - n, !.stale = FALSE, !.want = "read"],
             s |-> [h.s EXCEPT !.snd = @ + n]]
       [] OTHER -> h

\* Mutation of WriteTo: the connection stays in write mode.
WriteToForever(h) ==
  LET n == Least(h.c.out, SndRoom - h.s.snd)
  IN CASE h.c.out > 0 /\ h.s.peer = "reset" ->
            [c |-> [h.c EXCEPT !.closed = TRUE], s |-> [h.s EXCEPT !.peer = "broken"]]
       [] n > 0 /\ h.s.peer \in {"open", "closed"} ->
            [c |-> [h.c EXCEPT !.out = @ - n, !.stale = FALSE],
             s |-> [h.s EXCEPT !.snd = @ + n]]
       [] OTHER -> h

\* handleWrite: as much as fits; reading again once everything is written.
WriteTo(h) ==
  LET n == Least(h.c.out, SndRoom - h.s.snd)
  IN CASE h.c.out > 0 /\ h.s.peer = "reset" ->
            [c |-> [h.c EXCEPT !.closed = TRUE], s |-> [h.s EXCEPT !.peer = "broken"]]
       [] n > 0 /\ h.s.peer \in {"open", "closed"} ->
            [c |-> [h.c EXCEPT !.out = @ - n, !.stale = FALSE,
                               !.want = IF n = h.c.out THEN "read" ELSE @],
             s |-> [h.s EXCEPT !.snd = @ + n]]
       [] OTHER -> h

\* The write that the system answers with SIGPIPE.  main installs handlers for
\* SIGINT and SIGTERM only, so it ends the process.
RaisesSigpipe(h) == h.c.out > 0 /\ h.s.peer = "broken"

\* handleConnectionEvents: reading first, then writing, errors last.
HandleConnection(fd) ==
  /\ pc = "events"
  /\ events[fd] # {}
  /\ events' = [events EXCEPT ![fd] = {}]
  /\ IF fd \notin Open
     THEN UNCHANGED <<pc, conn, sock, interest>>
     ELSE LET h == [c |-> conn[fd], s |-> sock[fd]]
          IN \E read \in IF "read" \in events[fd] THEN ReadFrom(h) ELSE {h} :
          LET wrote == IF "write" \in events[fd] THEN WriteTo(read) ELSE read
              failed == "error" \in events[fd]
          IN IF "write" \in events[fd] /\ RaisesSigpipe(read)
             THEN pc' = "down" /\ UNCHANGED <<conn, sock, interest>>
             ELSE /\ conn' = [conn EXCEPT ![fd] =
                        IF failed THEN [wrote.c EXCEPT !.closed = TRUE] ELSE wrote.c]
                  /\ sock' = [sock EXCEPT ![fd] = wrote.s]
                  /\ interest' = IF failed THEN [interest EXCEPT ![fd] = {}] ELSE interest
                  /\ UNCHANGED pc
  /\ UNCHANGED <<running, cache, cacheValid, accepting, todo, backlog>>

-----------------------------------------------------------------------------
(* Server::run                                                             *)

StartPass ==
  /\ pc = "events"
  /\ ~ accepting /\ \A fd \in FDs : events[fd] = {}
  /\ cache' = Active
  /\ cacheValid' = TRUE
  /\ todo' = Active
  /\ pc' = "pass"
  /\ UNCHANGED <<running, events, accepting, conn, interest, backlog, sock>>

\* n requests have been consumed and answered, and errors more added.
Replied(c, n, errors) == [c EXCEPT !.in = @ - n, !.out = @ + n + errors, !.want = "write"]

\* The parser gets to a rejected request behind all the others, in this pass.
Throws(c) == c.rejected /\ c.in < MaxRequests

\* Mutation of Answered: the connection goes on reading.
AnsweredReading(c) ==
  {[c EXCEPT !.in = @ - n, !.out = @ + n] : n \in {Least(c.in, MaxRequests)}}

\* processRequests: each request is answered, and makes the connection want to
\* write.  A command that throws is answered too, and ends the batch, so any
\* number may be answered.  If the parser throws, an error is queued and nothing
\* is consumed: it will throw again in the next pass.
Answered(c) ==
  IF c.closed \/ (c.in = 0 /\ ~ Throws(c)) THEN {c}
  ELSE {Replied(c, n, 0) : n \in 1..Least(c.in, MaxRequests)}
       \cup (IF Throws(c) THEN {Replied(c, c.in, IF c.out < MaxErrors THEN 1 ELSE 0)} ELSE {})

\* Mutation of IsOver: a connection does not time out.
IsOverClosed(c) == c.closed

IsOver(c) == c.closed \/ c.stale

\* The pass answers requests and cleans up connection by connection.
Serve ==
  /\ pc = "pass"
  /\ todo # {}
  /\ Lowest(todo) \in Open
  /\ LET fd == Lowest(todo)
     IN /\ todo' = todo \ {fd}
        /\ \E c \in Answered(conn[fd]) :
             IF IsOver(c)
             THEN Forget({fd})
             ELSE conn' = [conn EXCEPT ![fd] = c] /\ UNCHANGED <<sock, interest, cacheValid>>
  /\ UNCHANGED <<pc, running, cache, events, accepting, backlog>>

\* A pointer to a connection that is gone.  The behaviour is undefined: the
\* process dies, or what it finds there does no harm.
ServeGone ==
  /\ pc = "pass"
  /\ todo # {}
  /\ Lowest(todo) \notin Open
  /\ todo' = todo \ {Lowest(todo)}
  /\ pc' \in {"pass", "down"}
  /\ UNCHANGED <<running, cache, cacheValid, events, accepting>>
  /\ UNCHANGED <<conn, interest, backlog, sock>>

\* Mutation of EndPass: the loop asks nobody whether to go on.
EndPassGoesOn ==
  /\ pc = "pass"
  /\ todo = {}
  /\ pc' = "poll"
  /\ UNCHANGED <<conn, sock, interest, cacheValid>>
  /\ UNCHANGED <<running, cache, events, accepting, todo, backlog>>

\* After the pass come the expired keys, then the next round.  When the loop is
\* left, ~Server stops everything once more and closes what is still open.
EndPass ==
  /\ pc = "pass"
  /\ todo = {}
  /\ IF running
     THEN pc' = "poll" /\ UNCHANGED <<conn, sock, interest, cacheValid>>
     ELSE pc' = "exited" /\ Forget(Open)
  /\ UNCHANGED <<running, cache, events, accepting, todo, backlog>>

Loop ==
  \/ Poll
  \/ PollStopped
  \/ Wait
  \/ Accept
  \/ AcceptThrows
  \/ \E fd \in FDs : HandleConnection(fd)
  \/ StartPass
  \/ Serve
  \/ ServeGone
  \/ EndPass

\* handleSignal runs Server::stop on top of whatever the thread is doing: with
\* a timeout of 0 s every connection is due, and is deleted.
Signal ==
  /\ Signals /\ Alive
  /\ running
  /\ running' = FALSE
  /\ Forget(Open)
  /\ UNCHANGED <<pc, cache, events, accepting, todo, backlog>>

-----------------------------------------------------------------------------
(* Clients, and time                                                       *)

Connect ==
  /\ Alive
  /\ backlog + Cardinality(Open) < MaxClients
  /\ backlog' = backlog + 1
  /\ UNCHANGED <<loopVars, conn, interest, sock>>

Send(fd) ==
  /\ Alive
  /\ sock[fd].peer = "open"
  /\ sock[fd].rcv < RcvRoom
  /\ sock' = [sock EXCEPT ![fd].rcv = @ + 1]
  /\ UNCHANGED <<loopVars, conn, interest, backlog>>

Receive(fd) ==
  /\ Alive
  /\ sock[fd].peer = "open"
  /\ sock[fd].snd > 0
  /\ sock' = [sock EXCEPT ![fd].snd = @ - 1]
  /\ UNCHANGED <<loopVars, conn, interest, backlog>>

\* A client that has read its replies leaves with a FIN, any other with a RST;
\* one that has left answers what still reaches it with a RST.
Leave(fd) ==
  /\ Alive
  /\ fd \in Faulty \/ OneMoreFaulty
  /\ \/ /\ sock[fd].peer = "open" /\ sock[fd].snd = 0
        /\ sock' = [sock EXCEPT ![fd].peer = "closed"]
     \/ /\ sock[fd].peer = "open"
        /\ sock' = [sock EXCEPT ![fd].peer = "reset"]
     \/ /\ sock[fd].peer = "closed" /\ sock[fd].snd > 0
        /\ sock' = [sock EXCEPT ![fd].peer = "broken"]
  /\ UNCHANGED <<loopVars, conn, interest, backlog>>

\* kConnectionTimeout passes without a successful read or write.
FallSilent(fd) ==
  /\ Alive
  /\ fd \in Open
  /\ ~ conn[fd].stale
  /\ conn' = [conn EXCEPT ![fd].stale = TRUE]
  /\ UNCHANGED <<loopVars, interest, backlog, sock>>

Clients ==
  \/ Connect
  \/ \E fd \in FDs : Send(fd)
  \/ \E fd \in FDs : Receive(fd)
  \/ \E fd \in FDs : Leave(fd)
  \/ \E fd \in FDs : FallSilent(fd)

Next == Loop \/ Signal \/ Clients

\* The thread runs on: nothing in the loop waits longer than the 100 ms of
\* epoll_wait.  Clients are expected to read the replies to what they send.
Fairness == WF_vars(Loop) /\ \A fd \in FDs : WF_vars(Receive(fd))

Spec == Init /\ [][Next]_vars /\ Fairness
-----------------------------------------------------------------------------
(* Properties                                                              *)

\* Input is bounded by what one read completes, whatever the modes go through;
\* a connection has a socket exactly as long as it exists.
TypeOK ==
  /\ pc \in {"poll", "wait", "events", "pass", "exited", "down"}
  /\ {running, cacheValid, accepting} \subseteq BOOLEAN
  /\ conn \in [FDs -> Connection \cup {NoConn}]
  /\ sock \in [FDs -> Socket \cup {NoSocket}]
  /\ \A fd \in FDs : conn[fd] = NoConn <=> sock[fd] = NoSocket
  /\ {interest, events} \subseteq [FDs -> SUBSET {"read", "write", "error"}]
  /\ {cache, todo} \subseteq SUBSET FDs
  /\ backlog \in 0..MaxClients

\* Every pointer the loop is still going to follow leads to a connection: the
\* cache is a vector of raw pointers to objects that are owned elsewhere, and
\* deleted while it is being gone through.
PointersLive ==
  /\ pc = "pass" => todo \subseteq Open
  /\ cacheValid => cache \subseteq Open

\* A client is not read from while requests it sent before are unanswered or
\* replies unsent, in spite of partial writes, full batches and exceptions: what
\* waits in the buffers is from one read.  The one exception is a request the
\* parser rejects: the errors pile up, but then nothing more is read either.
OneReadAtATime ==
  \A fd \in Open :
    /\ ~ conn[fd].rejected => conn[fd].in + conn[fd].out <= ReadSize
    /\ pc \in {"poll", "wait"} /\ conn[fd].want = "read" /\ ~ conn[fd].closed =>
         conn[fd].in = 0 /\ conn[fd].out = 0 /\ ~ conn[fd].rejected

\* A pass leaves out no connection that is open: each gets its turn in every
\* round, however many others are added, closed or removed in it.
EveryoneServed ==
  pc = "pass" /\ todo = cache =>
    \A fd \in Open : conn[fd].closed \/ fd \in todo

\* A full socket is read from again, as long as the client is there and reads its
\* replies: no sequence of partial writes, requests left over and commands that
\* throw leaves the connection in the wrong mode.  After a request the parser
\* rejects there is no such promise.
RequestsAreRead ==
  \A fd \in FDs :
    (fd \in Open /\ sock[fd].rcv = RcvRoom) ~>
      (~ Alive \/ fd \notin Open \/ sock[fd].peer # "open" \/ conn[fd].rejected
       \/ sock[fd].rcv < RcvRoom)

\* A connection that falls silent is removed, or heard of again.
SilentConnectionsGo ==
  \A fd \in FDs :
    (fd \in Open /\ conn[fd].stale) ~>
      (~ Alive \/ fd \notin Open \/ conn[fd].closed \/ ~ conn[fd].stale)

\* A connection that is closed, or times out, gives its descriptor back.
ClosedConnectionsGo ==
  \A fd \in FDs :
    (fd \in Open /\ conn[fd].closed) ~> (~ Alive \/ fd \notin Open)

\* After a signal the loop comes to its end.
ShutdownCompletes == ~ running ~> ~ Alive
=============================================================================
