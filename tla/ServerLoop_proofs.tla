-------------------------- MODULE ServerLoop_proofs --------------------------
(***************************************************************************)
(* Proofs about ServerLoop, for any number of descriptors and clients, any  *)
(* sizes of sockets, reads and batches, and clients that may do anything,   *)
(* requests that are rejected included.                                     *)
(***************************************************************************)
EXTENDS ServerLoop, FiniteSetTheorems, TLAPS

-----------------------------------------------------------------------------
(* The inductive invariant                                                 *)

Bounded ==
  \A fd \in Open : ~ conn[fd].rejected => conn[fd].in + conn[fd].out <= ReadSize

\* A valid cache lacks no connection that is open.
CacheComplete == cacheValid => \A fd \in Open : conn[fd].closed \/ fd \in cache

\* There may be requests in the buffer of a connection from the time it is read
\* from until the pass has come to it, and at no other time in read mode.
Unanswered(fd) == pc \in {"events", "down"} \/ (pc = "pass" /\ fd \in todo)

ReadersDone ==
  \A fd \in Open :
    conn[fd].want = "read" /\ ~ conn[fd].closed =>
      conn[fd].out = 0 /\ ((conn[fd].in = 0 /\ ~ conn[fd].rejected) \/ Unanswered(fd))

\* epoll knows the mode of each connection when it is waited for, and what it
\* has reported is still true when it is handled.
Registered ==
  pc = "wait" =>
    \A fd \in Open : ~ conn[fd].closed => interest[fd] \subseteq {"error", conn[fd].want}

Reported ==
  pc = "events" =>
    \A fd \in Open :
      ~ conn[fd].closed /\ "read" \in events[fd] =>
        conn[fd].want = "read" /\ conn[fd].in = 0 /\ ~ conn[fd].rejected

AllHandled == pc \notin {"events", "down"} => \A fd \in FDs : events[fd] = {}

\* Nothing more arrives on a closed connection that is still listened to.
ClosedEmpty ==
  \A fd \in Open :
    conn[fd].closed /\ ("read" \in interest[fd] \/ "read" \in events[fd]) =>
      sock[fd].rcv = 0 /\ sock[fd].peer # "open"

NotBoth(E) == ~ ("read" \in E /\ "write" \in E)

OneMode == \A fd \in FDs : NotBoth(interest[fd]) /\ NotBoth(events[fd])

Known ==
  \A fd \in FDs :
    /\ fd \notin Open => interest[fd] = {}
    /\ events[fd] \subseteq interest[fd] \/ interest[fd] = {}

TodoCached == pc = "pass" => todo \subseteq cache

SomeoneWaits == accepting => backlog > 0

IInv ==
  /\ TypeOK /\ Bounded /\ ReadersDone /\ Reported /\ AllHandled
  /\ CacheComplete /\ Registered /\ ClosedEmpty /\ OneMode /\ Known
  /\ TodoCached /\ SomeoneWaits /\ EveryoneServed

-----------------------------------------------------------------------------
(* Connections and sockets                                                 *)

LEMMA Objects ==
  /\ NewConn \in Connection /\ NewSocket \in Socket
  /\ \A c \in Connection : c # NoConn
  /\ \A s \in Socket : s # NoSocket
BY ServerAssumption DEF NewConn, Connection, NoConn, NewSocket, Socket, NoSocket

LEMMA OpenObjects ==
  ASSUME TypeOK
  PROVE  /\ Open \subseteq FDs
         /\ \A fd \in Open : conn[fd] \in Connection /\ sock[fd] \in Socket
         /\ \A fd \in FDs \ Open : conn[fd] = NoConn /\ sock[fd] = NoSocket
BY DEF TypeOK, Open

\* Reading brings in no more than ReadSize, and closes what has come to its end.
LEMMA ReadFromDoes ==
  ASSUME NEW c \in Connection, NEW s \in Socket,
         c.in = 0 \/ (s.rcv = 0 /\ s.peer # "open"),
         NEW r \in ReadFrom([c |-> c, s |-> s])
  PROVE  /\ r.c \in Connection /\ r.s \in Socket
         /\ r.c.want = c.want /\ r.c.out = c.out
         /\ c.in = 0 \/ (r.c.in = c.in /\ r.c.rejected = c.rejected)
         /\ c.closed => r.c.closed
         /\ r.c.closed /\ ~ c.closed => r.s.rcv = 0 /\ r.s.peer # "open"
         /\ s.rcv = 0 /\ s.peer # "open" =>
              r.s.rcv = 0 /\ r.s.peer # "open" /\ r.c.in = c.in /\ r.c.rejected = c.rejected
<1>0. PICK h : h = [c |-> c, s |-> s] /\ h.c = c /\ h.s = s /\ r \in ReadFrom(h)
  OBVIOUS
<1>1. CASE s.rcv > 0
  <2>1. PICK n \in 1..s.rcv, i \in 0..ReadSize, b \in BOOLEAN : r = Arrived(h, n, i, b)
    BY <1>0, <1>1 DEF ReadFrom
  <2> DEFINE C == [c EXCEPT !.in = @ + i, !.rejected = b, !.stale = FALSE]
             S == [s EXCEPT !.rcv = @ - n]
  <2>2. c.in = 0 /\ c.in + i \in 0..ReadSize /\ s.rcv - n \in 0..RcvRoom /\ ~ (s.rcv = 0)
    BY <1>1, ServerAssumption DEF Connection, Socket
  <2>3. C \in Connection
    BY <2>2 DEF Connection
  <2>4. S \in Socket
    BY <2>2 DEF Socket
  <2>5. C.want = c.want /\ C.out = c.out /\ C.closed = c.closed
    BY DEF Connection
  <2>6. r = [c |-> C, s |-> S]
    BY <1>0, <2>1 DEF Arrived
  <2> HIDE DEF C, S
  <2> QED
    BY <2>2, <2>3, <2>4, <2>5, <2>6
<1>2. CASE ~ (s.rcv > 0) /\ s.peer = "open"
  <2>1. r = [c |-> c, s |-> s]
    BY <1>0, <1>2 DEF ReadFrom
  <2> QED
    BY <1>2, <2>1
<1>3. CASE ~ (s.rcv > 0) /\ s.peer # "open"
  <2> DEFINE C == [c EXCEPT !.closed = TRUE]
             S == [s EXCEPT !.peer = IF @ = "reset" THEN "broken" ELSE @]
  <2>1. r = [c |-> C, s |-> S]
    BY <1>0, <1>3 DEF ReadFrom, Ended
  <2>2. /\ C \in Connection /\ C.want = c.want /\ C.out = c.out /\ C.in = c.in /\ C.closed
        /\ C.rejected = c.rejected
    BY DEF Connection
  <2>3. S \in Socket /\ S.rcv = s.rcv /\ S.peer # "open" /\ s.rcv = 0
    BY <1>3 DEF Socket
  <2> HIDE DEF C, S
  <2> QED
    BY <1>3, <2>1, <2>2, <2>3
<1> QED
  BY <1>1, <1>2, <1>3

\* Writing takes replies out of the buffer, and goes back to reading when none
\* is left.
LEMMA WriteToDoes ==
  ASSUME NEW c \in Connection, NEW s \in Socket,
         NEW w, w = WriteTo([c |-> c, s |-> s])
  PROVE  /\ w.c \in Connection /\ w.s \in Socket
         /\ w.c.in = c.in /\ w.c.rejected = c.rejected /\ w.c.out <= c.out
         /\ c.closed => w.c.closed
         /\ w.c.closed /\ ~ c.closed => c.out > 0
         /\ w.c.want = c.want \/ w.c.out = 0
         /\ w.s.rcv = s.rcv /\ (s.peer # "open" => w.s.peer # "open")
<1> DEFINE n == Least(c.out, SndRoom - s.snd)
<1>1. n \in Nat /\ n <= c.out /\ n <= SndRoom - s.snd /\ c.out \in Nat
  BY ServerAssumption DEF Least, Socket, Connection
<1> HIDE DEF n
<1>2. CASE c.out > 0 /\ s.peer = "reset"
  <2> DEFINE C == [c EXCEPT !.closed = TRUE]
             S == [s EXCEPT !.peer = "broken"]
  <2>1. w = [c |-> C, s |-> S]
    BY <1>2 DEF WriteTo, n
  <2>2. /\ C \in Connection /\ C.want = c.want /\ C.out = c.out /\ C.in = c.in /\ C.closed
        /\ C.rejected = c.rejected
    BY DEF Connection
  <2>3. S \in Socket /\ S.rcv = s.rcv /\ S.peer # "open"
    BY DEF Socket
  <2> HIDE DEF C, S
  <2> QED
    BY <1>1, <1>2, <2>1, <2>2, <2>3
<1>3. CASE n > 0 /\ s.peer \in {"open", "closed"}
  <2> DEFINE C == [c EXCEPT !.out = @ - n, !.stale = FALSE,
                            !.want = IF n = c.out THEN "read" ELSE @]
             S == [s EXCEPT !.snd = @ + n]
  <2>1. w = [c |-> C, s |-> S]
    BY <1>3 DEF WriteTo, n
  <2>2. c.out - n \in Nat /\ c.out - n <= c.out /\ s.snd + n \in 0..SndRoom
    BY <1>1, <1>3, ServerAssumption DEF Socket
  <2>3. C \in Connection
    BY <2>2 DEF Connection
  <2>4. C.in = c.in /\ C.out = c.out - n /\ C.closed = c.closed /\ C.rejected = c.rejected
        /\ C.want = IF n = c.out THEN "read" ELSE c.want
    BY DEF Connection
  <2>5. S \in Socket /\ S.rcv = s.rcv /\ S.peer = s.peer
    BY <2>2 DEF Socket
  <2>6. n = c.out => c.out - n = 0
    BY <1>1
  <2> HIDE DEF C, S
  <2> QED
    BY <2>1, <2>2, <2>3, <2>4, <2>5, <2>6
<1>4. CASE ~ (c.out > 0 /\ s.peer = "reset") /\ ~ (n > 0 /\ s.peer \in {"open", "closed"})
  <2>1. w = [c |-> c, s |-> s]
    BY <1>4 DEF WriteTo, n
  <2> QED
    BY <1>1, <2>1
<1> QED
  BY <1>2, <1>3, <1>4

\* A batch turns requests into replies, and into the wish to write.  What is in
\* the buffers grows only if the parser throws.
LEMMA AnsweredDoes ==
  ASSUME NEW c \in Connection, ~ c.rejected => c.in + c.out <= ReadSize,
         NEW a \in Answered(c)
  PROVE  /\ a \in Connection /\ a.rejected = c.rejected
         /\ ~ a.rejected => a.in + a.out <= ReadSize
         /\ a.closed = c.closed /\ a.stale = c.stale
         /\ a.want = "read" /\ ~ c.closed =>
              c.want = "read" /\ a.in = 0 /\ ~ a.rejected /\ a.out = c.out
<1>1. /\ c.in \in 0..ReadSize /\ c.out \in Nat /\ ReadSize \in Nat
      /\ MaxRequests \in Nat /\ MaxRequests > 0
  BY ServerAssumption DEF Connection
<1>2. CASE c.closed \/ (c.in = 0 /\ ~ Throws(c))
  <2>1. a = c
    BY <1>2 DEF Answered
  <2> QED
    BY <1>1, <1>2, <2>1 DEF Throws
<1>3. CASE ~ (c.closed \/ (c.in = 0 /\ ~ Throws(c)))
  <2>1. PICK n \in 0..c.in, e \in {0, 1} : a = Replied(c, n, e) /\ (e = 0 \/ c.rejected)
    <3>1. CASE a \in {Replied(c, n, 0) : n \in 1..Least(c.in, MaxRequests)}
      BY <1>1, <3>1 DEF Least
    <3>2. CASE Throws(c) /\ a = Replied(c, c.in, IF c.out < MaxErrors THEN 1 ELSE 0)
      BY <1>1, <3>2 DEF Throws
    <3> QED
      BY <1>3, <3>1, <3>2 DEF Answered
  <2> DEFINE C == [c EXCEPT !.in = @ - n, !.out = @ + n + e, !.want = "write"]
  <2>2. a = C
    BY <2>1 DEF Replied
  <2>3. /\ c.in - n \in 0..ReadSize /\ c.out + n + e \in Nat
        /\ e = 0 => (c.in - n) + (c.out + n + e) = c.in + c.out
    BY <1>1
  <2>4. C \in Connection
    BY <2>3 DEF Connection
  <2>5. C.in = c.in - n /\ C.out = c.out + n + e /\ C.want = "write"
        /\ C.closed = c.closed /\ C.stale = c.stale /\ C.rejected = c.rejected
    BY DEF Connection
  <2> HIDE DEF C
  <2> QED
    BY <1>1, <2>1, <2>2, <2>3, <2>4, <2>5
<1> QED
  BY <1>2, <1>3

\* Connections that are forgotten leave nothing behind; the others stay.
LEMMA ForgetDoes ==
  ASSUME TypeOK, NEW gone, Forget(gone)
  PROVE  /\ Open' = Open \ gone
         /\ \A fd \in FDs \ gone :
              conn'[fd] = conn[fd] /\ sock'[fd] = sock[fd] /\ interest'[fd] = interest[fd]
         /\ \A fd \in FDs \cap gone :
              conn'[fd] = NoConn /\ sock'[fd] = NoSocket /\ interest'[fd] = {}
         /\ conn' \in [FDs -> Connection \cup {NoConn}]
         /\ sock' \in [FDs -> Socket \cup {NoSocket}]
         /\ \A fd \in FDs : conn'[fd] = NoConn <=> sock'[fd] = NoSocket
         /\ interest' \in [FDs -> SUBSET {"read", "write", "error"}]
         /\ cacheValid' = (cacheValid /\ gone = {})
BY DEF Forget, TypeOK, Open

LEMMA OpenCounted == TypeOK => Cardinality(Open) \in Nat
<1>1. IsFiniteSet(FDs)
  BY ServerAssumption, FS_Interval DEF FDs
<1> QED
  BY <1>1, OpenObjects, FS_Subset, FS_CardinalityType

\* The connection that is next in a pass is one of those that are left.
LEMMA LowestIn ==
  ASSUME NEW S \in SUBSET FDs, S # {}
  PROVE  Lowest(S) \in S
<1>1. S \subseteq Nat
  BY ServerAssumption DEF FDs
<1>2. PICK fd \in S : \A other \in S : ~ (<<other, fd>> \in OpToRel(<, Nat))
  BY <1>1, NatLessThanWellFounded, WFMin
<1>3. \A other \in S : ~ (other < fd)
  BY <1>1, <1>2 DEF OpToRel
<1>4. \A other \in S : fd <= other
  BY <1>1, <1>3
<1> QED
  BY <1>4 DEF Lowest

-----------------------------------------------------------------------------
(* Steps                                                                   *)

\* Each connection that is open is in the cache and gets registered.
LEMMA PollStep ==
  ASSUME IInv, Poll
  PROVE  IInv'
<1>a. /\ conn' = conn /\ Open' = Open /\ Open \subseteq FDs /\ Active \subseteq FDs
      /\ \A fd \in Open : conn[fd] \in Connection /\ conn[fd].want \in {"read", "write"}
  BY OpenObjects DEF IInv, TypeOK, Poll, Open, Active, Connection
<1>b. \A fd \in Open : ~ conn[fd].closed => fd \in Active
  BY DEF IInv, CacheComplete, Active
<1>c. \A fd \in FDs :
        interest'[fd] = IF fd \in Active \cap Open /\ ~ conn[fd].closed
                        THEN {"error", conn[fd].want} ELSE interest[fd]
  BY DEF Poll
<1>d. interest' \in [FDs -> SUBSET {"read", "write", "error"}]
  <2>1. \A fd \in FDs : interest[fd] \in SUBSET {"read", "write", "error"}
    BY DEF IInv, TypeOK
  <2>2. ASSUME NEW fd \in FDs PROVE interest'[fd] \in SUBSET {"read", "write", "error"}
    <3>1. CASE fd \in Active \cap Open /\ ~ conn[fd].closed
      <4>1. interest'[fd] = {"error", conn[fd].want} /\ conn[fd].want \in {"read", "write"}
        BY <1>a, <1>c, <3>1
      <4> QED
        BY <4>1
    <3>2. CASE ~ (fd \in Active \cap Open /\ ~ conn[fd].closed)
      <4>1. interest'[fd] = interest[fd]
        BY <1>c, <3>2
      <4> QED
        BY <2>1, <4>1
    <3> QED
      BY <3>1, <3>2
  <2> QED
    BY <2>2 DEF Poll
<1>e. \A fd \in FDs : events[fd] = {} /\ events'[fd] = {}
  BY DEF IInv, AllHandled, Poll
<1>1. TypeOK'
  BY <1>a, <1>d DEF IInv, TypeOK, Poll
<1>2. Bounded'
  BY DEF IInv, Bounded, Poll, Open, Active
<1>3. ReadersDone'
  BY DEF IInv, ReadersDone, Unanswered, Poll, Open, Active
<1>4. Reported'
  BY DEF IInv, Reported, Poll, Open, Active
<1>5. AllHandled'
  BY DEF IInv, AllHandled, Poll, Open, Active
<1>6. CacheComplete'
  BY DEF IInv, CacheComplete, Poll, Open, Active
<1>7. Registered'
  BY <1>a, <1>b, <1>c DEF Registered
<1>8. ClosedEmpty'
  BY DEF IInv, ClosedEmpty, Poll, Open, Active
<1>9. OneMode'
  <2>1. ASSUME NEW fd \in FDs PROVE NotBoth(interest'[fd])
    <3>1. CASE fd \in Active \cap Open /\ ~ conn[fd].closed
      <4>1. interest'[fd] = {"error", conn[fd].want} /\ conn[fd].want \in {"read", "write"}
        BY <1>a, <1>c, <3>1
      <4> QED
        BY <4>1 DEF NotBoth
    <3>2. CASE ~ (fd \in Active \cap Open /\ ~ conn[fd].closed)
      BY <1>c, <3>2 DEF IInv, OneMode
    <3> QED
      BY <3>1, <3>2
  <2> QED
    BY <1>e, <2>1 DEF OneMode, NotBoth
<1>10. Known'
  BY <1>a, <1>c, <1>e DEF IInv, Known
<1>11. TodoCached'
  BY DEF IInv, TodoCached, Poll, Open, Active
<1>12. SomeoneWaits'
  BY DEF IInv, SomeoneWaits, Poll, Open, Active
<1>13. EveryoneServed'
  BY DEF IInv, EveryoneServed, Poll, Open, Active
<1> QED
  BY <1>1, <1>2, <1>3, <1>4, <1>5, <1>6, <1>7, <1>8, <1>9, <1>10, <1>11, <1>12, <1>13 DEF IInv

LEMMA PollStoppedStep ==
  ASSUME IInv, PollStopped
  PROVE  IInv'
<1>1. TypeOK'
  BY DEF IInv, TypeOK, PollStopped, Open
<1>2. Bounded'
  BY DEF IInv, Bounded, PollStopped, Open
<1>3. ReadersDone'
  BY DEF IInv, ReadersDone, Unanswered, PollStopped, Open
<1>4. Reported'
  BY OpenObjects DEF IInv, Reported, AllHandled, PollStopped, Open
<1>5. AllHandled'
  BY DEF IInv, AllHandled, PollStopped, Open
<1>6. CacheComplete'
  BY DEF IInv, CacheComplete, PollStopped, Open
<1>7. Registered'
  BY DEF IInv, Registered, PollStopped, Open
<1>8. ClosedEmpty'
  BY DEF IInv, ClosedEmpty, PollStopped, Open
<1>9. OneMode'
  BY DEF IInv, OneMode, PollStopped, Open
<1>10. Known'
  BY DEF IInv, Known, PollStopped, Open
<1>11. TodoCached'
  BY DEF IInv, TodoCached, PollStopped, Open
<1>12. SomeoneWaits'
  BY DEF IInv, SomeoneWaits, PollStopped, Open
<1>13. EveryoneServed'
  BY DEF IInv, EveryoneServed, PollStopped, Open
<1> QED
  BY <1>1, <1>2, <1>3, <1>4, <1>5, <1>6, <1>7, <1>8, <1>9, <1>10, <1>11, <1>12, <1>13 DEF IInv

\* What is reported is registered, for the mode a connection is in.
LEMMA WaitStep ==
  ASSUME IInv, Wait
  PROVE  IInv'
<1>a. conn' = conn /\ Open' = Open /\ Open \subseteq FDs /\ interest' = interest
  BY OpenObjects DEF IInv, Wait, Open
<1>b. \A fd \in FDs : events'[fd] \subseteq interest[fd]
  BY DEF Wait, Ready
<1>1. TypeOK'
  BY DEF IInv, TypeOK, Wait, Open, Ready
<1>2. Bounded'
  BY DEF IInv, Bounded, Wait, Open, Ready
<1>3. ReadersDone'
  BY DEF IInv, ReadersDone, Unanswered, Wait, Open, Ready
<1>4. Reported'
  BY <1>a, <1>b DEF IInv, Reported, Registered, ReadersDone, Unanswered, Wait
<1>5. AllHandled'
  BY DEF IInv, AllHandled, Wait, Open, Ready
<1>6. CacheComplete'
  BY DEF IInv, CacheComplete, Wait, Open, Ready
<1>7. Registered'
  BY DEF IInv, Registered, Wait, Open, Ready
<1>8. ClosedEmpty'
  BY DEF IInv, ClosedEmpty, Wait, Open, Ready
<1>9. OneMode'
  BY <1>a, <1>b DEF IInv, OneMode, NotBoth
<1>10. Known'
  BY DEF IInv, Known, Wait, Open, Ready
<1>11. TodoCached'
  BY DEF IInv, TodoCached, Wait, Open, Ready
<1>12. SomeoneWaits'
  BY DEF IInv, SomeoneWaits, Wait, Open, Ready
<1>13. EveryoneServed'
  BY DEF IInv, EveryoneServed, Wait, Open, Ready
<1> QED
  BY <1>1, <1>2, <1>3, <1>4, <1>5, <1>6, <1>7, <1>8, <1>9, <1>10, <1>11, <1>12, <1>13 DEF IInv

LEMMA AcceptThrowsStep ==
  ASSUME IInv, AcceptThrows
  PROVE  IInv'
<1>1. TypeOK'
  BY DEF IInv, TypeOK, AcceptThrows, Open
<1>2. Bounded'
  BY DEF IInv, Bounded, AcceptThrows, Open
<1>3. ReadersDone'
  BY DEF IInv, ReadersDone, Unanswered, AcceptThrows, Open
<1>4. Reported'
  BY DEF IInv, Reported, AcceptThrows, Open
<1>5. AllHandled'
  BY DEF IInv, AllHandled, AcceptThrows, Open
<1>6. CacheComplete'
  BY DEF IInv, CacheComplete, AcceptThrows, Open
<1>7. Registered'
  BY DEF IInv, Registered, AcceptThrows, Open
<1>8. ClosedEmpty'
  BY DEF IInv, ClosedEmpty, AcceptThrows, Open
<1>9. OneMode'
  BY DEF IInv, OneMode, AcceptThrows, Open
<1>10. Known'
  BY DEF IInv, Known, AcceptThrows, Open
<1>11. TodoCached'
  BY DEF IInv, TodoCached, AcceptThrows, Open
<1>12. SomeoneWaits'
  BY DEF IInv, SomeoneWaits, AcceptThrows, Open
<1>13. EveryoneServed'
  BY DEF IInv, EveryoneServed, AcceptThrows, Open
<1> QED
  BY <1>1, <1>2, <1>3, <1>4, <1>5, <1>6, <1>7, <1>8, <1>9, <1>10, <1>11, <1>12, <1>13 DEF IInv

\* A pass begins with every connection that is open.
LEMMA StartPassStep ==
  ASSUME IInv, StartPass
  PROVE  IInv'
<1>a. conn' = conn /\ Open' = Open /\ todo' = Active
  BY DEF StartPass, Open
<1>b. \A fd \in Open : ~ conn[fd].closed => fd \in Active
  BY DEF IInv, CacheComplete, Active
<1>1. TypeOK'
  BY DEF IInv, TypeOK, StartPass, Open, Active
<1>2. Bounded'
  BY DEF IInv, Bounded, StartPass, Open, Active
<1>3. ReadersDone'
  BY <1>a, <1>b DEF IInv, ReadersDone, Unanswered, StartPass
<1>4. Reported'
  BY DEF IInv, Reported, StartPass, Open, Active
<1>5. AllHandled'
  BY DEF IInv, AllHandled, StartPass, Open, Active
<1>6. CacheComplete'
  BY DEF IInv, CacheComplete, StartPass, Open, Active
<1>7. Registered'
  BY DEF IInv, Registered, StartPass, Open, Active
<1>8. ClosedEmpty'
  BY DEF IInv, ClosedEmpty, StartPass, Open, Active
<1>9. OneMode'
  BY DEF IInv, OneMode, StartPass, Open, Active
<1>10. Known'
  BY DEF IInv, Known, StartPass, Open, Active
<1>11. TodoCached'
  BY DEF IInv, TodoCached, StartPass, Open, Active
<1>12. SomeoneWaits'
  BY DEF IInv, SomeoneWaits, StartPass, Open, Active
<1>13. EveryoneServed'
  BY <1>a, <1>b DEF EveryoneServed
<1> QED
  BY <1>1, <1>2, <1>3, <1>4, <1>5, <1>6, <1>7, <1>8, <1>9, <1>10, <1>11, <1>12, <1>13 DEF IInv

\* After the last connection of a pass, none that reads has requests left.
LEMMA EndPassStep ==
  ASSUME IInv, EndPass, running
  PROVE  IInv'
<1>1. TypeOK'
  BY DEF IInv, TypeOK, EndPass, Open
<1>2. Bounded'
  BY DEF IInv, Bounded, EndPass, Open
<1>3. ReadersDone'
  BY DEF IInv, ReadersDone, Unanswered, EndPass, Open
<1>4. Reported'
  BY DEF IInv, Reported, EndPass, Open
<1>5. AllHandled'
  BY DEF IInv, AllHandled, EndPass, Open
<1>6. CacheComplete'
  BY DEF IInv, CacheComplete, EndPass, Open
<1>7. Registered'
  BY DEF IInv, Registered, EndPass, Open
<1>8. ClosedEmpty'
  BY DEF IInv, ClosedEmpty, EndPass, Open
<1>9. OneMode'
  BY DEF IInv, OneMode, EndPass, Open
<1>10. Known'
  BY DEF IInv, Known, EndPass, Open
<1>11. TodoCached'
  BY DEF IInv, TodoCached, EndPass, Open
<1>12. SomeoneWaits'
  BY DEF IInv, SomeoneWaits, EndPass, Open
<1>13. EveryoneServed'
  BY DEF IInv, EveryoneServed, EndPass, Open
<1> QED
  BY <1>1, <1>2, <1>3, <1>4, <1>5, <1>6, <1>7, <1>8, <1>9, <1>10, <1>11, <1>12, <1>13 DEF IInv

LEMMA ServeGoneStep ==
  ASSUME IInv, ServeGone
  PROVE  IInv'
<1>1. TypeOK'
  BY DEF IInv, TypeOK, ServeGone, Open
<1>2. Bounded'
  BY DEF IInv, Bounded, ServeGone, Open
<1>3. ReadersDone'
  BY DEF IInv, ReadersDone, Unanswered, ServeGone, Open
<1>4. Reported'
  BY DEF IInv, Reported, ServeGone, Open
<1>5. AllHandled'
  BY DEF IInv, AllHandled, ServeGone, Open
<1>6. CacheComplete'
  BY DEF IInv, CacheComplete, ServeGone, Open
<1>7. Registered'
  BY DEF IInv, Registered, ServeGone, Open
<1>8. ClosedEmpty'
  BY DEF IInv, ClosedEmpty, ServeGone, Open
<1>9. OneMode'
  BY DEF IInv, OneMode, ServeGone, Open
<1>10. Known'
  BY DEF IInv, Known, ServeGone, Open
<1>11. TodoCached'
  BY DEF IInv, TodoCached, ServeGone, Open
<1>12. SomeoneWaits'
  BY DEF IInv, SomeoneWaits, ServeGone, Open
<1>13. EveryoneServed'
  <2>1. conn' = conn /\ Open' = Open /\ todo \subseteq FDs /\ todo # {} /\ cache' = cache
    BY DEF IInv, TypeOK, ServeGone, Open
  <2>2. Lowest(todo) \in todo /\ todo \subseteq cache /\ todo' = todo \ {Lowest(todo)}
    BY <2>1, LowestIn DEF IInv, TodoCached, ServeGone
  <2> QED
    BY <2>1, <2>2 DEF EveryoneServed
<1> QED
  BY <1>1, <1>2, <1>3, <1>4, <1>5, <1>6, <1>7, <1>8, <1>9, <1>10, <1>11, <1>12, <1>13 DEF IInv

LEMMA ConnectStep ==
  ASSUME IInv, Connect
  PROVE  IInv'
<1>a. backlog \in Nat /\ backlog + 1 \in 0..MaxClients
  BY OpenCounted, ServerAssumption DEF IInv, TypeOK, Connect
<1>1. TypeOK'
  BY <1>a DEF IInv, TypeOK, Connect, loopVars
<1>2. Bounded'
  BY DEF IInv, Bounded, Connect, Open, loopVars
<1>3. ReadersDone'
  BY DEF IInv, ReadersDone, Unanswered, Connect, Open, loopVars
<1>4. Reported'
  BY DEF IInv, Reported, Connect, Open, loopVars
<1>5. AllHandled'
  BY DEF IInv, AllHandled, Connect, Open, loopVars
<1>6. CacheComplete'
  BY DEF IInv, CacheComplete, Connect, Open, loopVars
<1>7. Registered'
  BY DEF IInv, Registered, Connect, Open, loopVars
<1>8. ClosedEmpty'
  BY DEF IInv, ClosedEmpty, Connect, Open, loopVars
<1>9. OneMode'
  BY DEF IInv, OneMode, Connect, Open, loopVars
<1>10. Known'
  BY DEF IInv, Known, Connect, Open, loopVars
<1>11. TodoCached'
  BY DEF IInv, TodoCached, Connect, Open, loopVars
<1>12. SomeoneWaits'
  BY <1>a DEF IInv, SomeoneWaits, Connect, loopVars
<1>13. EveryoneServed'
  BY DEF IInv, EveryoneServed, Connect, Open, loopVars
<1> QED
  BY <1>1, <1>2, <1>3, <1>4, <1>5, <1>6, <1>7, <1>8, <1>9, <1>10, <1>11, <1>12, <1>13 DEF IInv

\* A connection that is new is idle, whatever was reported for its descriptor.
LEMMA AcceptStep ==
  ASSUME IInv, Accept
  PROVE  IInv'
<1> DEFINE new == Lowest(Unused)
<1>a. /\ new \in FDs \ Open /\ Open \subseteq FDs /\ Open' = Open \cup {new}
      /\ conn'[new] = NewConn /\ sock'[new] = NewSocket
      /\ \A fd \in FDs \ {new} : conn'[fd] = conn[fd] /\ sock'[fd] = sock[fd]
  <2>1. new \in FDs \ Open
    BY LowestIn DEF Accept, Unused
  <2>2. conn' = [conn EXCEPT ![new] = NewConn] /\ sock' = [sock EXCEPT ![new] = NewSocket]
    BY DEF Accept
  <2> HIDE DEF new
  <2> QED
    BY <2>1, <2>2, Objects DEF IInv, TypeOK, Open
<1>b. /\ NewConn.in = 0 /\ NewConn.out = 0 /\ ~ NewConn.rejected
      /\ NewConn.want = "read" /\ ~ NewConn.closed
  BY DEF NewConn
<1>c. conn' \in [FDs -> Connection \cup {NoConn}] /\ sock' \in [FDs -> Socket \cup {NoSocket}]
      /\ \A fd \in FDs : conn'[fd] = NoConn <=> sock'[fd] = NoSocket
  <2>1. conn' = [conn EXCEPT ![new] = NewConn] /\ sock' = [sock EXCEPT ![new] = NewSocket]
    BY DEF Accept
  <2> HIDE DEF new
  <2> QED
    BY <1>a, <2>1, Objects DEF IInv, TypeOK
<1>d. interest' = interest /\ events' = events /\ pc' = pc /\ pc = "events" /\ todo' = todo /\ ~ cacheValid'
  BY DEF Accept
<1> HIDE DEF new
<1>1. TypeOK'
  <2>1. backlog' \in 0..MaxClients
    BY ServerAssumption DEF IInv, TypeOK, SomeoneWaits, Accept
  <2>2. /\ pc' \in {"poll", "wait", "events", "pass", "exited", "down"}
        /\ {running', cacheValid', accepting'} \subseteq BOOLEAN
        /\ {interest', events'} \subseteq [FDs -> SUBSET {"read", "write", "error"}]
        /\ {cache', todo'} \subseteq SUBSET FDs
    BY DEF IInv, TypeOK, Accept
  <2> QED
    BY <1>c, <2>1, <2>2 DEF TypeOK
<1>2. Bounded'
  BY <1>a, <1>b, ServerAssumption DEF IInv, Bounded
<1>3. ReadersDone'
  BY <1>a, <1>b, <1>d DEF IInv, ReadersDone, Unanswered
<1>4. Reported'
  BY <1>a, <1>b, <1>d DEF IInv, Reported
<1>5. AllHandled'
  BY DEF IInv, AllHandled, Accept, Open
<1>6. CacheComplete'
  BY <1>d DEF CacheComplete
<1>7. Registered'
  BY <1>d DEF Registered
<1>8. ClosedEmpty'
  BY <1>a, <1>b, <1>d DEF IInv, ClosedEmpty
<1>9. OneMode'
  BY <1>d DEF IInv, OneMode
<1>10. Known'
  BY <1>a, <1>d DEF IInv, Known
<1>11. TodoCached'
  BY <1>d DEF TodoCached
<1>12. SomeoneWaits'
  BY DEF IInv, SomeoneWaits, Accept, Open
<1>13. EveryoneServed'
  BY <1>d DEF EveryoneServed
<1> QED
  BY <1>1, <1>2, <1>3, <1>4, <1>5, <1>6, <1>7, <1>8, <1>9, <1>10, <1>11, <1>12, <1>13 DEF IInv

\* Connections may be forgotten in a pass, after it, or all at any moment.
LEMMA ForgetStep ==
  ASSUME IInv, NEW gone \in SUBSET FDs, Forget(gone),
         UNCHANGED <<cache, events, accepting, backlog>>, running' \in BOOLEAN,
         pc' = pc \/ (pc = "pass" /\ pc' = "exited" /\ gone = Open),
         todo' = todo \/ (\E fd \in gone \cap todo : todo' = todo \ {fd})
  PROVE  IInv'
<1>a. /\ Open' = Open \ gone /\ Open \subseteq FDs
      /\ \A fd \in FDs \ gone :
           conn'[fd] = conn[fd] /\ sock'[fd] = sock[fd] /\ interest'[fd] = interest[fd]
      /\ \A fd \in FDs \cap gone : interest'[fd] = {}
      /\ cacheValid' = (cacheValid /\ gone = {})
  BY ForgetDoes, OpenObjects DEF IInv
<1>b. todo' \subseteq todo /\ \A fd \in Open' : fd \in todo' <=> fd \in todo
  BY <1>a
<1>c. pc' = pc \/ (pc = "pass" /\ pc' = "exited" /\ Open' = {})
  BY <1>a
<1>1. TypeOK'
  <2>1. cacheValid' \in BOOLEAN
    BY <1>a
  <2>2. /\ conn' \in [FDs -> Connection \cup {NoConn}]
        /\ sock' \in [FDs -> Socket \cup {NoSocket}]
        /\ \A fd \in FDs : conn'[fd] = NoConn <=> sock'[fd] = NoSocket
        /\ interest' \in [FDs -> SUBSET {"read", "write", "error"}]
    BY ForgetDoes DEF IInv
  <2>3. /\ pc' \in {"poll", "wait", "events", "pass", "exited", "down"}
        /\ {running', accepting'} \subseteq BOOLEAN
        /\ events' \in [FDs -> SUBSET {"read", "write", "error"}]
        /\ {cache', todo'} \subseteq SUBSET FDs
        /\ backlog' \in 0..MaxClients
    BY <1>b, <1>c DEF IInv, TypeOK
  <2> QED
    BY <2>1, <2>2, <2>3 DEF TypeOK
<1>2. Bounded'
  BY <1>a DEF IInv, Bounded
<1>3. ReadersDone'
  BY <1>a, <1>b, <1>c DEF IInv, ReadersDone, Unanswered
<1>4. Reported'
  BY <1>a, <1>c DEF IInv, Reported
<1>5. AllHandled'
  BY <1>c DEF IInv, AllHandled
<1>6. CacheComplete'
  BY <1>a DEF IInv, CacheComplete
<1>7. Registered'
  BY <1>a, <1>c DEF IInv, Registered
<1>8. ClosedEmpty'
  BY <1>a DEF IInv, ClosedEmpty
<1>9. OneMode'
  BY <1>a DEF IInv, OneMode, NotBoth
<1>10. Known'
  BY <1>a DEF IInv, Known
<1>11. TodoCached'
  BY <1>b, <1>c DEF IInv, TodoCached
<1>12. SomeoneWaits'
  BY DEF IInv, SomeoneWaits
<1>13. EveryoneServed'
  <2>1. SUFFICES ASSUME pc' = "pass", todo' = cache'
               PROVE  \A fd \in Open' : conn'[fd].closed \/ fd \in todo'
    BY DEF EveryoneServed
  <2>2. pc = "pass" /\ todo \subseteq cache /\ cache' = cache
    BY <1>c, <2>1 DEF IInv, TodoCached
  <2>3. todo' = todo
    BY <2>1, <2>2
  <2> QED
    BY <1>a, <2>1, <2>2, <2>3 DEF IInv, EveryoneServed
<1> QED
  BY <1>1, <1>2, <1>3, <1>4, <1>5, <1>6, <1>7, <1>8, <1>9, <1>10, <1>11, <1>12, <1>13 DEF IInv

\* A client may do to its socket what it likes, short of sending after its end.
LEMMA SocketStep ==
  ASSUME IInv, NEW fd \in Open, NEW s \in Socket, sock' = [sock EXCEPT ![fd] = s],
         sock[fd].peer # "open" => s.rcv = sock[fd].rcv /\ s.peer # "open",
         UNCHANGED <<loopVars, conn, interest, backlog>>
  PROVE  IInv'
<1>a. /\ Open' = Open /\ Open \subseteq FDs /\ conn' = conn
      /\ UNCHANGED <<pc, running, cache, cacheValid, events, accepting, todo, interest, backlog>>
      /\ sock'[fd] = s /\ \A other \in FDs \ {fd} : sock'[other] = sock[other]
  BY OpenObjects DEF IInv, TypeOK, Open, loopVars
<1>b. /\ sock' \in [FDs -> Socket \cup {NoSocket}]
      /\ \A other \in FDs : conn'[other] = NoConn <=> sock'[other] = NoSocket
  BY <1>a, Objects, OpenObjects DEF IInv, TypeOK
<1>1. TypeOK'
  BY <1>a, <1>b DEF IInv, TypeOK
<1>2. Bounded'
  BY <1>a DEF IInv, Bounded
<1>3. ReadersDone'
  BY <1>a DEF IInv, ReadersDone, Unanswered
<1>4. Reported'
  BY <1>a DEF IInv, Reported
<1>5. AllHandled'
  BY <1>a DEF IInv, AllHandled
<1>6. CacheComplete'
  BY <1>a DEF IInv, CacheComplete
<1>7. Registered'
  BY <1>a DEF IInv, Registered
<1>8. ClosedEmpty'
  BY <1>a DEF IInv, ClosedEmpty
<1>9. OneMode'
  BY <1>a DEF IInv, OneMode
<1>10. Known'
  BY <1>a DEF IInv, Known
<1>11. TodoCached'
  BY <1>a DEF IInv, TodoCached
<1>12. SomeoneWaits'
  BY <1>a DEF IInv, SomeoneWaits
<1>13. EveryoneServed'
  BY <1>a DEF IInv, EveryoneServed
<1> QED
  BY <1>1, <1>2, <1>3, <1>4, <1>5, <1>6, <1>7, <1>8, <1>9, <1>10, <1>11, <1>12, <1>13 DEF IInv

LEMMA FallSilentStep ==
  ASSUME IInv, NEW fd \in FDs, FallSilent(fd)
  PROVE  IInv'
<1>a. /\ UNCHANGED <<pc, running, cache, cacheValid, events, accepting, todo, interest, backlog, sock>>
      /\ fd \in Open /\ conn[fd] \in Connection /\ Open \subseteq FDs
      /\ conn' = [conn EXCEPT ![fd] = [conn[fd] EXCEPT !.stale = TRUE]]
  BY OpenObjects DEF IInv, FallSilent, loopVars
<1>b. \A c \in Connection :
        /\ [c EXCEPT !.stale = TRUE] \in Connection
        /\ [c EXCEPT !.stale = TRUE].rejected = c.rejected
        /\ [c EXCEPT !.stale = TRUE].in = c.in /\ [c EXCEPT !.stale = TRUE].out = c.out
        /\ [c EXCEPT !.stale = TRUE].want = c.want /\ [c EXCEPT !.stale = TRUE].closed = c.closed
  BY DEF Connection
<1>c. /\ conn' \in [FDs -> Connection \cup {NoConn}]
      /\ \A other \in FDs : conn'[other] = NoConn <=> conn[other] = NoConn
  BY <1>a, <1>b, Objects DEF IInv, TypeOK
<1>d. Open' = Open
  BY <1>c DEF Open
<1>e. \A other \in Open :
        /\ conn'[other].rejected = conn[other].rejected
        /\ conn'[other].in = conn[other].in /\ conn'[other].out = conn[other].out
        /\ conn'[other].want = conn[other].want /\ conn'[other].closed = conn[other].closed
  BY <1>a, <1>b DEF IInv, TypeOK
<1>1. TypeOK'
  BY <1>a, <1>c DEF IInv, TypeOK
<1>2. Bounded'
  BY <1>a, <1>d, <1>e DEF IInv, Bounded
<1>3. ReadersDone'
  BY <1>a, <1>d, <1>e DEF IInv, ReadersDone, Unanswered
<1>4. Reported'
  BY <1>a, <1>d, <1>e DEF IInv, Reported
<1>5. AllHandled'
  BY <1>a, <1>d, <1>e DEF IInv, AllHandled
<1>6. CacheComplete'
  BY <1>a, <1>d, <1>e DEF IInv, CacheComplete
<1>7. Registered'
  BY <1>a, <1>d, <1>e DEF IInv, Registered
<1>8. ClosedEmpty'
  BY <1>a, <1>d, <1>e DEF IInv, ClosedEmpty
<1>9. OneMode'
  BY <1>a, <1>d, <1>e DEF IInv, OneMode
<1>10. Known'
  BY <1>a, <1>d, <1>e DEF IInv, Known
<1>11. TodoCached'
  BY <1>a, <1>d, <1>e DEF IInv, TodoCached
<1>12. SomeoneWaits'
  BY <1>a, <1>d, <1>e DEF IInv, SomeoneWaits
<1>13. EveryoneServed'
  BY <1>a, <1>d, <1>e DEF IInv, EveryoneServed
<1> QED
  BY <1>1, <1>2, <1>3, <1>4, <1>5, <1>6, <1>7, <1>8, <1>9, <1>10, <1>11, <1>12, <1>13 DEF IInv

\* A connection that stays has no requests left, or wants to write.
LEMMA ServeStep ==
  ASSUME IInv, Serve, NEW fd, fd = Lowest(todo), NEW c \in Answered(conn[fd]), ~ IsOver(c),
         conn' = [conn EXCEPT ![fd] = c], UNCHANGED <<sock, interest, cacheValid>>
  PROVE  IInv'
<1>a. /\ UNCHANGED <<pc, running, cache, cacheValid, events, accepting, interest, backlog, sock>>
      /\ pc = "pass" /\ fd \in Open /\ conn[fd] \in Connection /\ Open \subseteq FDs
      /\ conn' = [conn EXCEPT ![fd] = c] /\ todo' = todo \ {fd}
  BY OpenObjects DEF IInv, Serve
<1>b. /\ c \in Connection /\ (~ c.rejected => c.in + c.out <= ReadSize)
      /\ c.closed = conn[fd].closed
      /\ c.want = "read" /\ ~ c.closed =>
           conn[fd].want = "read" /\ c.in = 0 /\ ~ c.rejected /\ c.out = conn[fd].out
  BY <1>a, AnsweredDoes DEF IInv, Bounded
<1>c. /\ conn' \in [FDs -> Connection \cup {NoConn}]
      /\ \A other \in FDs : conn'[other] = NoConn <=> conn[other] = NoConn
      /\ conn'[fd] = c /\ \A other \in FDs \ {fd} : conn'[other] = conn[other]
  BY <1>a, <1>b, Objects DEF IInv, TypeOK
<1>d. Open' = Open
  BY <1>c DEF Open
<1>e. \A other \in Open : conn'[other].closed = conn[other].closed
  BY <1>a, <1>b, <1>c
<1>1. TypeOK'
  BY <1>a, <1>c DEF IInv, TypeOK
<1>2. Bounded'
  BY <1>a, <1>b, <1>c, <1>d DEF IInv, Bounded
<1>3. ReadersDone'
  BY <1>a, <1>b, <1>c, <1>d DEF IInv, ReadersDone, Unanswered
<1>4. Reported'
  BY <1>a DEF Reported
<1>5. AllHandled'
  BY <1>a, <1>d, <1>e DEF IInv, AllHandled
<1>6. CacheComplete'
  BY <1>a, <1>d, <1>e DEF IInv, CacheComplete
<1>7. Registered'
  BY <1>a DEF Registered
<1>8. ClosedEmpty'
  BY <1>a, <1>d, <1>e DEF IInv, ClosedEmpty
<1>9. OneMode'
  BY <1>a, <1>d, <1>e DEF IInv, OneMode
<1>10. Known'
  BY <1>a, <1>d, <1>e DEF IInv, Known
<1>11. TodoCached'
  BY <1>a, <1>d, <1>e DEF IInv, TodoCached
<1>12. SomeoneWaits'
  BY <1>a, <1>d, <1>e DEF IInv, SomeoneWaits
<1>13. EveryoneServed'
  <2>1. fd \in todo /\ todo \subseteq cache
    BY <1>a, LowestIn DEF IInv, TypeOK, TodoCached, Serve
  <2> QED
    BY <1>a, <2>1 DEF EveryoneServed
<1> QED
  BY <1>1, <1>2, <1>3, <1>4, <1>5, <1>6, <1>7, <1>8, <1>9, <1>10, <1>11, <1>12, <1>13 DEF IInv

\* What handling the events of a descriptor makes of its connection: no more
\* than one read, only when the buffers are empty; no end but for a reason.
LEMMA HandledWell ==
  ASSUME NEW c \in Connection, NEW s \in Socket, NEW E, NotBoth(E),
         ~ c.rejected => c.in + c.out <= ReadSize,
         "read" \in E => (c.in = 0 /\ c.out = 0) \/ (s.rcv = 0 /\ s.peer # "open"),
         NEW read \in IF "read" \in E THEN ReadFrom([c |-> c, s |-> s]) ELSE {[c |-> c, s |-> s]},
         NEW wrote, wrote = IF "write" \in E THEN WriteTo(read) ELSE read
  PROVE  /\ wrote.c \in Connection /\ wrote.s \in Socket
         /\ ~ wrote.c.rejected => wrote.c.in + wrote.c.out <= ReadSize
         /\ wrote.c.want = "read" => wrote.c.out = 0 \/ (c.want = "read" /\ wrote.c.out <= c.out)
         /\ c.closed => wrote.c.closed
         /\ wrote.c.closed /\ ~ c.closed =>
              (wrote.s.rcv = 0 /\ wrote.s.peer # "open") \/ ("write" \in E /\ c.out > 0)
         /\ s.rcv = 0 /\ s.peer # "open" => wrote.s.rcv = 0 /\ wrote.s.peer # "open"
<1>0. c.in \in 0..ReadSize /\ c.out \in Nat /\ ReadSize \in Nat
  BY ServerAssumption DEF Connection
<1>1. CASE "read" \in E
  <2>1. wrote \in ReadFrom([c |-> c, s |-> s])
    BY <1>1 DEF NotBoth
  <2> HIDE DEF NotBoth
  <2>2. /\ wrote.c \in Connection /\ wrote.s \in Socket
        /\ wrote.c.want = c.want /\ wrote.c.out = c.out
        /\ c.in = 0 \/ (wrote.c.in = c.in /\ wrote.c.rejected = c.rejected)
        /\ c.closed => wrote.c.closed
        /\ wrote.c.closed /\ ~ c.closed => wrote.s.rcv = 0 /\ wrote.s.peer # "open"
        /\ s.rcv = 0 /\ s.peer # "open" =>
             wrote.s.rcv = 0 /\ wrote.s.peer # "open"
             /\ wrote.c.in = c.in /\ wrote.c.rejected = c.rejected
    BY <1>1, <2>1, ReadFromDoes
  <2>3. wrote.c.in \in 0..ReadSize
    BY <2>2 DEF Connection
  <2>4. ~ wrote.c.rejected => wrote.c.in + wrote.c.out <= ReadSize
    <3>1. CASE wrote.c.in = c.in /\ wrote.c.rejected = c.rejected
      BY <2>2, <3>1
    <3>2. CASE c.in = 0 /\ c.out = 0
      BY <1>0, <2>2, <2>3, <3>2
    <3> QED
      BY <1>1, <2>2, <3>1, <3>2
  <2> QED
    BY <1>0, <2>2, <2>4
<1>2. CASE "read" \notin E /\ "write" \in E
  <2>1. wrote = WriteTo([c |-> c, s |-> s])
    BY <1>2
  <2>2. /\ wrote.c \in Connection /\ wrote.s \in Socket
        /\ wrote.c.in = c.in /\ wrote.c.rejected = c.rejected /\ wrote.c.out <= c.out
        /\ c.closed => wrote.c.closed
        /\ wrote.c.closed /\ ~ c.closed => c.out > 0
        /\ wrote.c.want = c.want \/ wrote.c.out = 0
        /\ wrote.s.rcv = s.rcv /\ (s.peer # "open" => wrote.s.peer # "open")
    BY <2>1, WriteToDoes
  <2>3. wrote.c.out \in Nat
    BY <2>2 DEF Connection
  <2> QED
    BY <1>0, <1>2, <2>2, <2>3
<1>3. CASE "read" \notin E /\ "write" \notin E
  BY <1>0, <1>3
<1> QED
  BY <1>1, <1>2, <1>3

\* Events of a connection that is gone, or that end the process.
LEMMA HandleNothingStep ==
  ASSUME IInv, NEW fd \in FDs, HandleConnection(fd),
         UNCHANGED <<conn, sock, interest>>, pc' \in {"events", "down"}
  PROVE  IInv' /\ Open' = Open
<1>a. /\ UNCHANGED <<running, cache, cacheValid, accepting, todo, backlog>>
      /\ pc = "events" /\ events' \in [FDs -> SUBSET {"read", "write", "error"}]
      /\ events'[fd] = {} /\ \A other \in FDs \ {fd} : events'[other] = events[other]
  <2>1. pc = "events" /\ events' = [events EXCEPT ![fd] = {}]
        /\ UNCHANGED <<running, cache, cacheValid, accepting, todo, backlog>>
    BY DEF HandleConnection
  <2>2. events \in [FDs -> SUBSET {"read", "write", "error"}] /\ fd \in FDs
    BY OpenObjects DEF IInv, TypeOK
  <2> QED
    BY <2>1, <2>2
<1>b. Open' = Open /\ Open \subseteq FDs
  BY OpenObjects DEF IInv, Open
<1>1. TypeOK'
  BY <1>a DEF IInv, TypeOK
<1>2. Bounded'
  BY <1>a, <1>b DEF IInv, Bounded
<1>3. ReadersDone'
  BY <1>a, <1>b DEF IInv, ReadersDone, Unanswered
<1>4. Reported'
  BY <1>a, <1>b DEF IInv, Reported
<1>5. AllHandled'
  BY <1>a, <1>b DEF IInv, AllHandled
<1>6. CacheComplete'
  BY <1>a, <1>b DEF IInv, CacheComplete
<1>7. Registered'
  BY <1>a, <1>b DEF IInv, Registered
<1>8. ClosedEmpty'
  BY <1>a, <1>b DEF IInv, ClosedEmpty
<1>9. OneMode'
  BY <1>a DEF IInv, OneMode, NotBoth
<1>10. Known'
  BY <1>a, <1>b DEF IInv, Known
<1>11. TodoCached'
  BY <1>a, <1>b DEF IInv, TodoCached
<1>12. SomeoneWaits'
  BY <1>a, <1>b DEF IInv, SomeoneWaits
<1>13. EveryoneServed'
  BY <1>a, <1>b DEF IInv, EveryoneServed
<1> QED
  BY <1>1, <1>2, <1>3, <1>4, <1>5, <1>6, <1>7, <1>8, <1>9, <1>10, <1>11, <1>12, <1>13, <1>b DEF IInv

LEMMA ConnectionCloses ==
  ASSUME NEW c \in Connection, NEW c2, c2 = [c EXCEPT !.closed = TRUE]
  PROVE  /\ c2 \in Connection /\ c2.in = c.in /\ c2.out = c.out
         /\ c2.rejected = c.rejected /\ c2.want = c.want /\ c2.closed = TRUE
BY DEF Connection

\* Events that are handled.
LEMMA HandleStep ==
  ASSUME IInv, NEW fd \in Open, HandleConnection(fd), NEW c, NEW s, NEW c2, NEW s2,
         c = conn[fd], s = sock[fd],
         NEW read \in IF "read" \in events[fd]
                      THEN ReadFrom([c |-> c, s |-> s]) ELSE {[c |-> c, s |-> s]},
         NEW wrote,
         wrote = IF "write" \in events[fd] THEN WriteTo(read) ELSE read,
         c2 = IF "error" \in events[fd] THEN [wrote.c EXCEPT !.closed = TRUE] ELSE wrote.c,
         s2 = wrote.s,
         conn' = [conn EXCEPT ![fd] = c2], sock' = [sock EXCEPT ![fd] = s2], pc' = pc,
         interest' = IF "error" \in events[fd] THEN [interest EXCEPT ![fd] = {}] ELSE interest
  PROVE  IInv' /\ Open' = Open
<1>a. /\ UNCHANGED <<running, cache, cacheValid, accepting, todo, backlog>>
      /\ pc = "events" /\ events' \in [FDs -> SUBSET {"read", "write", "error"}]
      /\ events'[fd] = {} /\ \A other \in FDs \ {fd} : events'[other] = events[other]
  <2>1. pc = "events" /\ events' = [events EXCEPT ![fd] = {}]
        /\ UNCHANGED <<running, cache, cacheValid, accepting, todo, backlog>>
    BY DEF HandleConnection
  <2>2. events \in [FDs -> SUBSET {"read", "write", "error"}] /\ fd \in FDs
    BY OpenObjects DEF IInv, TypeOK
  <2> QED
    BY <2>1, <2>2
<1>b. /\ c \in Connection /\ s \in Socket /\ Open \subseteq FDs /\ NotBoth(events[fd])
      /\ ~ c.rejected => c.in + c.out <= ReadSize
  BY OpenObjects DEF IInv, OneMode, Bounded
<1>c. "read" \in events[fd] => (c.in = 0 /\ c.out = 0) \/ (s.rcv = 0 /\ s.peer # "open")
  BY <1>a DEF IInv, Reported, ReadersDone, ClosedEmpty
<1>d. /\ wrote.c \in Connection /\ wrote.s \in Socket
      /\ ~ wrote.c.rejected => wrote.c.in + wrote.c.out <= ReadSize
      /\ wrote.c.want = "read" => wrote.c.out = 0 \/ (c.want = "read" /\ wrote.c.out <= c.out)
      /\ c.closed => wrote.c.closed
      /\ wrote.c.closed /\ ~ c.closed =>
           (wrote.s.rcv = 0 /\ wrote.s.peer # "open") \/ ("write" \in events[fd] /\ c.out > 0)
      /\ s.rcv = 0 /\ s.peer # "open" => wrote.s.rcv = 0 /\ wrote.s.peer # "open"
  BY <1>b, <1>c, HandledWell
<1>e. /\ c2 \in Connection /\ c2.in = wrote.c.in /\ c2.out = wrote.c.out /\ c2.want = wrote.c.want
      /\ c2.rejected = wrote.c.rejected
      /\ c2.closed <=> wrote.c.closed \/ "error" \in events[fd]
  <2>1. PICK before : before = wrote.c
    OBVIOUS
  <2>2. before \in Connection
    BY <1>d, <2>1
  <2>3. CASE "error" \in events[fd]
    <3>1. PICK x : x = [before EXCEPT !.closed = TRUE]
      OBVIOUS
    <3>2. /\ x \in Connection /\ x.closed = TRUE
          /\ x.in = before.in /\ x.out = before.out /\ x.want = before.want
          /\ x.rejected = before.rejected
      BY <2>2, <3>1, ConnectionCloses
    <3>3. c2 = x
      BY <2>1, <2>3, <3>1
    <3> QED
      BY <2>1, <2>3, <3>2, <3>3
  <2>4. CASE "error" \notin events[fd]
    <3>1. c2 = before
      BY <2>1, <2>4
    <3> QED
      BY <2>1, <2>2, <2>4, <3>1
  <2> QED
    BY <2>3, <2>4
<1>f. /\ conn' \in [FDs -> Connection \cup {NoConn}] /\ sock' \in [FDs -> Socket \cup {NoSocket}]
      /\ \A other \in FDs : conn'[other] = NoConn <=> conn[other] = NoConn
      /\ \A other \in FDs : conn'[other] = NoConn <=> sock'[other] = NoSocket
      /\ conn'[fd] = c2 /\ sock'[fd] = s2
      /\ \A other \in FDs \ {fd} : conn'[other] = conn[other] /\ sock'[other] = sock[other]
  BY <1>b, <1>d, <1>e, Objects, OpenObjects DEF IInv, TypeOK
<1>g. Open' = Open
  BY <1>f DEF Open
<1>h. /\ interest' \in [FDs -> SUBSET {"read", "write", "error"}]
      /\ interest'[fd] = IF "error" \in events[fd] THEN {} ELSE interest[fd]
      /\ \A other \in FDs \ {fd} : interest'[other] = interest[other]
  BY <1>b DEF IInv, TypeOK
<1>i. c.out \in Nat /\ c2.out \in Nat
  BY <1>b, <1>e, ServerAssumption DEF Connection
<1>1. TypeOK'
  BY <1>a, <1>f, <1>h DEF IInv, TypeOK
<1>2. Bounded'
  <2>1. ~ conn'[fd].rejected => conn'[fd].in + conn'[fd].out <= ReadSize
    BY <1>d, <1>e, <1>f
  <2>2. \A other \in Open \ {fd} : conn'[other] = conn[other]
    BY <1>b, <1>f
  <2>3. \A other \in Open : ~ conn[other].rejected => conn[other].in + conn[other].out <= ReadSize
    BY DEF IInv, Bounded
  <2>4. \A other \in Open :
          ~ conn'[other].rejected => conn'[other].in + conn'[other].out <= ReadSize
    BY <2>1, <2>2, <2>3
  <2> QED
    BY <1>g, <2>4 DEF Bounded
<1>3. ReadersDone'
  <2>1. c2.want = "read" /\ ~ c2.closed => c2.out = 0
    <3>1. c.want = "read" /\ ~ c.closed => c.out = 0
      BY DEF IInv, ReadersDone
    <3> QED
      BY <1>d, <1>e, <1>i, <3>1
  <2> QED
    BY <1>a, <1>b, <1>f, <1>g, <2>1 DEF IInv, ReadersDone, Unanswered
<1>4. Reported'
  BY <1>a, <1>b, <1>f, <1>g DEF IInv, Reported
<1>5. AllHandled'
  BY <1>a DEF AllHandled
<1>6. CacheComplete'
  BY <1>a, <1>b, <1>d, <1>e, <1>f, <1>g DEF IInv, CacheComplete
<1>7. Registered'
  BY <1>a DEF Registered
<1>8. ClosedEmpty'
  <2>1. c2.closed /\ "read" \in interest'[fd] => s2.rcv = 0 /\ s2.peer # "open"
    <3> SUFFICES ASSUME c2.closed, "read" \in interest'[fd]
                 PROVE  s2.rcv = 0 /\ s2.peer # "open"
      OBVIOUS
    <3>1. wrote.c.closed /\ "read" \in interest[fd]
      BY <1>e, <1>h
    <3>2. "write" \notin events[fd]
      BY <1>b, <3>1 DEF IInv, Known, OneMode, NotBoth
    <3>3. CASE c.closed
      BY <1>d, <3>1, <3>3 DEF IInv, ClosedEmpty
    <3>4. CASE ~ c.closed
      BY <1>d, <3>1, <3>2, <3>4
    <3> QED
      BY <3>3, <3>4
  <2>2. "read" \notin events'[fd]
    BY <1>a
  <2>3. conn'[fd] = c2 /\ sock'[fd] = s2
    BY <1>f
  <2>4. ASSUME NEW other \in Open \ {fd},
               conn'[other].closed, "read" \in interest'[other] \/ "read" \in events'[other]
        PROVE  sock'[other].rcv = 0 /\ sock'[other].peer # "open"
    <3>1. other \in FDs \ {fd}
      BY <1>b
    <3>2. /\ conn'[other] = conn[other] /\ sock'[other] = sock[other]
          /\ interest'[other] = interest[other] /\ events'[other] = events[other]
      BY <1>a, <1>f, <1>h, <3>1
    <3> QED
      BY <2>4, <3>2 DEF IInv, ClosedEmpty
  <2> QED
    BY <1>g, <2>1, <2>2, <2>3, <2>4 DEF ClosedEmpty
<1>9. OneMode'
  BY <1>a, <1>b, <1>h DEF IInv, OneMode, NotBoth
<1>10. Known'
  BY <1>a, <1>b, <1>g, <1>h DEF IInv, Known
<1>11. TodoCached'
  BY <1>a DEF TodoCached
<1>12. SomeoneWaits'
  BY <1>a DEF IInv, SomeoneWaits
<1>13. EveryoneServed'
  BY <1>a DEF EveryoneServed
<1> QED
  BY <1>1, <1>2, <1>3, <1>4, <1>5, <1>6, <1>7, <1>8, <1>9, <1>10, <1>11, <1>12, <1>13, <1>g DEF IInv

LEMMA InitInv == Init => IInv
<1> SUFFICES ASSUME Init PROVE IInv
  OBVIOUS
<1>1. Open = {}
  BY DEF Init, Open
<1>2. \A fd \in FDs : interest[fd] = {} /\ events[fd] = {}
  BY DEF Init
<1>3. TypeOK
  <2>1. pc = "poll" /\ {running, cacheValid, accepting} \subseteq BOOLEAN /\ cache = {} /\ todo = {}
    BY DEF Init
  <2>2. conn \in [FDs -> Connection \cup {NoConn}] /\ sock \in [FDs -> Socket \cup {NoSocket}]
        /\ \A fd \in FDs : conn[fd] = NoConn /\ sock[fd] = NoSocket
    BY DEF Init
  <2>3. interest \in [FDs -> SUBSET {"read", "write", "error"}]
        /\ events \in [FDs -> SUBSET {"read", "write", "error"}] /\ backlog \in 0..MaxClients
    BY ServerAssumption DEF Init
  <2> QED
    BY <2>1, <2>2, <2>3 DEF TypeOK
<1> QED
  BY <1>1, <1>2, <1>3 DEF Init, IInv, Bounded, CacheComplete, ReadersDone, Registered, Reported,
     AllHandled, ClosedEmpty, NotBoth, OneMode, Known, TodoCached, SomeoneWaits, EveryoneServed

LEMMA HandleConnectionStep ==
  ASSUME IInv, NEW fd \in FDs, HandleConnection(fd)
  PROVE  IInv' /\ Open' = Open
<1>1. CASE UNCHANGED <<conn, sock, interest>> /\ pc' \in {"events", "down"}
  BY <1>1, HandleNothingStep
<1>2. CASE ~ (UNCHANGED <<conn, sock, interest>> /\ pc' \in {"events", "down"})
  <2> DEFINE h == [c |-> conn[fd], s |-> sock[fd]]
             wrote(read) == IF "write" \in events[fd] THEN WriteTo(read) ELSE read
             failed == "error" \in events[fd]
  <2>1. pc = "events" /\ fd \in Open
    BY <1>2 DEF HandleConnection
  <2>2. PICK read \in IF "read" \in events[fd] THEN ReadFrom(h) ELSE {h} :
        /\ conn' = [conn EXCEPT ![fd] =
             IF failed THEN [wrote(read).c EXCEPT !.closed = TRUE] ELSE wrote(read).c]
        /\ sock' = [sock EXCEPT ![fd] = wrote(read).s]
        /\ interest' = IF failed THEN [interest EXCEPT ![fd] = {}] ELSE interest
        /\ pc' = pc
    BY <1>2, <2>1 DEF HandleConnection
  <2> QED
    BY <2>1, <2>2, HandleStep
<1> QED
  BY <1>1, <1>2

LEMMA LoopStep ==
  ASSUME IInv, Loop
  PROVE  IInv'
<1>1. ASSUME NEW fd \in FDs, HandleConnection(fd)
      PROVE  IInv'
  BY <1>1, HandleConnectionStep
<1>2. CASE Serve
  <2> DEFINE fd == Lowest(todo)
  <2>0. PICK c \in Answered(conn[fd]) :
          IF IsOver(c)
          THEN Forget({fd})
          ELSE conn' = [conn EXCEPT ![fd] = c] /\ UNCHANGED <<sock, interest, cacheValid>>
    BY <1>2 DEF Serve
  <2>1. CASE ~ IsOver(c)
    BY <1>2, <2>0, <2>1, ServeStep
  <2>2. CASE IsOver(c)
    <3>1. fd \in todo /\ fd \in FDs
      BY <1>2, LowestIn DEF IInv, TypeOK, Serve
    <3>2. /\ Forget({fd}) /\ todo' = todo \ {fd} /\ UNCHANGED <<pc, running, cache, events, accepting, backlog>>
      BY <1>2, <2>0, <2>2 DEF Serve
    <3>3. running' \in BOOLEAN
      BY <3>2 DEF IInv, TypeOK
    <3>4. {fd} \in SUBSET FDs /\ fd \in {fd} \cap todo
      BY <3>1
    <3> HIDE DEF fd
    <3> QED
      BY <3>2, <3>3, <3>4, ForgetStep
  <2> QED
    BY <2>1, <2>2
<1>3. CASE EndPass /\ ~ running
  <2>1. /\ Forget(Open) /\ UNCHANGED <<running, cache, events, accepting, todo, backlog>>
        /\ pc = "pass" /\ pc' = "exited"
    BY <1>3 DEF EndPass
  <2>2. running' \in BOOLEAN /\ Open \in SUBSET FDs
    BY <2>1, OpenObjects DEF IInv, TypeOK
  <2> QED
    BY <2>1, <2>2, ForgetStep
<1>4. CASE EndPass /\ running
  BY <1>4, EndPassStep
<1> QED
  BY <1>1, <1>2, <1>3, <1>4, PollStep, PollStoppedStep, WaitStep, AcceptStep, AcceptThrowsStep,
     StartPassStep, ServeGoneStep DEF Loop

LEMMA SignalStep ==
  ASSUME IInv, Signal
  PROVE  IInv'
<1>1. /\ Forget(Open) /\ running' \in BOOLEAN /\ Open \in SUBSET FDs
      /\ UNCHANGED <<pc, cache, events, accepting, todo, backlog>>
  BY OpenObjects DEF IInv, Signal
<1> QED
  BY <1>1, ForgetStep

LEMMA ClientsStep ==
  ASSUME IInv, Clients
  PROVE  IInv'
<1>0. \A fd \in FDs :
        /\ sock[fd].peer \in {"open", "closed", "reset", "broken"} => fd \in Open /\ sock[fd] \in Socket
        /\ sock[fd] \in Socket \/ sock[fd].peer = "none"
  BY OpenObjects DEF IInv, NoSocket
<1>1. ASSUME NEW fd \in FDs, Send(fd)
      PROVE  IInv'
  <2> DEFINE s == [sock[fd] EXCEPT !.rcv = @ + 1]
  <2>1. fd \in Open /\ sock[fd] \in Socket /\ sock[fd].peer = "open"
    BY <1>0, <1>1 DEF Send
  <2>2. sock[fd].rcv + 1 \in 0..RcvRoom
    BY <1>1, <2>1, ServerAssumption DEF Send, Socket
  <2>3. s \in Socket /\ sock' = [sock EXCEPT ![fd] = s] /\ UNCHANGED <<loopVars, conn, interest, backlog>>
    BY <1>1, <2>1, <2>2 DEF Send, Socket
  <2> HIDE DEF s
  <2> QED
    BY <2>1, <2>3, SocketStep
<1>2. ASSUME NEW fd \in FDs, Receive(fd)
      PROVE  IInv'
  <2> DEFINE s == [sock[fd] EXCEPT !.snd = @ - 1]
  <2>1. fd \in Open /\ sock[fd] \in Socket /\ sock[fd].peer = "open"
    BY <1>0, <1>2 DEF Receive
  <2>2. sock[fd].snd - 1 \in 0..SndRoom
    BY <1>2, <2>1, ServerAssumption DEF Receive, Socket
  <2>3. s \in Socket /\ sock' = [sock EXCEPT ![fd] = s] /\ UNCHANGED <<loopVars, conn, interest, backlog>>
    BY <1>2, <2>1, <2>2 DEF Receive, Socket
  <2> HIDE DEF s
  <2> QED
    BY <2>1, <2>3, SocketStep
<1>3. ASSUME NEW fd \in FDs, Leave(fd)
      PROVE  IInv'
  <2>1. fd \in Open /\ sock[fd] \in Socket
    BY <1>0, <1>3 DEF Leave
  <2>2. PICK p \in {"closed", "reset", "broken"} : sock' = [sock EXCEPT ![fd].peer = p]
    BY <1>3 DEF Leave
  <2> DEFINE s == [sock[fd] EXCEPT !.peer = p]
  <2>3. s \in Socket /\ s.peer # "open" /\ s.rcv = sock[fd].rcv
    BY <2>1 DEF Socket
  <2>4. sock' = [sock EXCEPT ![fd] = s] /\ UNCHANGED <<loopVars, conn, interest, backlog>>
    BY <1>3, <2>2 DEF Leave
  <2> HIDE DEF s
  <2> QED
    BY <2>1, <2>3, <2>4, SocketStep
<1> QED
  BY <1>1, <1>2, <1>3, ConnectStep, FallSilentStep DEF Clients

LEMMA InvStep == IInv /\ [Next]_vars => IInv'
<1> SUFFICES ASSUME IInv, [Next]_vars PROVE IInv'
  OBVIOUS
<1>1. CASE UNCHANGED vars
  BY <1>1 DEF vars, loopVars, IInv, TypeOK, Open, Bounded, CacheComplete, ReadersDone, Unanswered,
     Registered, Reported, AllHandled, ClosedEmpty, NotBoth, OneMode, Known, TodoCached,
     SomeoneWaits, EveryoneServed
<1> QED
  BY <1>1, LoopStep, SignalStep, ClientsStep DEF Next

\* Clients neither open nor delete connections of the server.
LEMMA ClientsKeepOpen ==
  ASSUME IInv, Clients
  PROVE  Open' = Open /\ UNCHANGED loopVars
<1>1. ASSUME NEW fd \in FDs, FallSilent(fd)
      PROVE  Open' = Open
  <2>1. fd \in Open /\ conn[fd] \in Connection /\ conn' = [conn EXCEPT ![fd] = [conn[fd] EXCEPT !.stale = TRUE]]
    BY <1>1, OpenObjects DEF IInv, FallSilent
  <2>2. [conn[fd] EXCEPT !.stale = TRUE] \in Connection
    BY <2>1 DEF Connection
  <2> QED
    BY <2>1, <2>2, Objects DEF IInv, TypeOK, Open
<1>2. UNCHANGED loopVars
  BY DEF Clients, Connect, Send, Receive, Leave, FallSilent
<1>3. UNCHANGED conn \/ \E fd \in FDs : FallSilent(fd)
  BY DEF Clients, Connect, Send, Receive, Leave
<1> QED
  BY <1>1, <1>2, <1>3 DEF Open

-----------------------------------------------------------------------------
(* Theorems                                                                *)

\* The whole requests that wait in an input buffer never are more than a read may
\* complete, exceptions and rejected requests included: the loop reads only when
\* none is left.  Of the replies in an output buffer nothing is said here.
\* Connections and sockets come and go together.
THEOREM TypeCorrect == Spec => []TypeOK
<1>1. IInv => TypeOK
  BY DEF IInv
<1> QED
  BY <1>1, InitInv, InvStep, PTL DEF Spec

\* However partial the writes, full the sockets, small the batches, and wherever a
\* command throws: a client is read from only when what it has sent before is
\* answered and written.  Requests and replies in the buffers of a connection are
\* therefore of one read, unless the parser rejects one: from then on the client is
\* not read from at all, and its errors are bounded by nothing.
THEOREM ReadsOneAtATime == Spec => []OneReadAtATime
<1>1. IInv => OneReadAtATime
  <2> SUFFICES ASSUME IInv, NEW fd \in Open
               PROVE  /\ ~ conn[fd].rejected => conn[fd].in + conn[fd].out <= ReadSize
                      /\ pc \in {"poll", "wait"} /\ conn[fd].want = "read" /\ ~ conn[fd].closed =>
                           conn[fd].in = 0 /\ conn[fd].out = 0 /\ ~ conn[fd].rejected
    BY DEF OneReadAtATime
  <2> QED
    BY DEF IInv, Bounded, ReadersDone, Unanswered
<1> QED
  BY <1>1, InitInv, InvStep, PTL DEF Spec

\* The cache that is rebuilt in the middle of a round never costs an open
\* connection its turn.
THEOREM ServesEveryone == Spec => []EveryoneServed
<1>1. IInv => EveryoneServed
  BY DEF IInv
<1> QED
  BY <1>1, InitInv, InvStep, PTL DEF Spec

\* Without signals, no raw pointer the loop still has to follow leads to a
\* connection that has been deleted.
THEOREM PointersStayLive ==
  ASSUME Signals = FALSE
  PROVE  Spec => []PointersLive
<1>1. Init => PointersLive
  BY DEF Init, PointersLive
<1>2. IInv /\ PointersLive /\ [Next]_vars => PointersLive'
  <2> SUFFICES ASSUME IInv, PointersLive, [Next]_vars PROVE PointersLive'
    OBVIOUS
  <2>1. CASE UNCHANGED vars
    BY <2>1 DEF vars, loopVars, PointersLive, Open
  <2>2. CASE Poll \/ PollStopped \/ Wait \/ AcceptThrows \/ StartPass \/ ServeGone
    BY <2>2 DEF PointersLive, Poll, PollStopped, Wait, AcceptThrows, StartPass, ServeGone, Active, Open
  <2>3. CASE Accept
    BY <2>3 DEF PointersLive, Accept
  <2>4. ASSUME NEW fd \in FDs, HandleConnection(fd)
        PROVE  PointersLive'
    <3>1. pc' # "pass" /\ cache' = cache /\ cacheValid' = cacheValid
      BY <2>4 DEF HandleConnection
    <3>2. Open' = Open
      BY <2>4, HandleConnectionStep
    <3> QED
      BY <3>1, <3>2 DEF PointersLive
  <2>5. CASE Serve
    <3> DEFINE fd == Lowest(todo)
    <3>0. PICK c \in Answered(conn[fd]) :
            IF IsOver(c)
            THEN Forget({fd})
            ELSE conn' = [conn EXCEPT ![fd] = c] /\ UNCHANGED <<sock, interest, cacheValid>>
      BY <2>5 DEF Serve
    <3>1. fd \in Open /\ todo' = todo \ {fd} /\ cache' = cache /\ pc = "pass"
      BY <2>5 DEF Serve
    <3>2. CASE IsOver(c)
      <4>1. Forget({fd})
        BY <3>0, <3>2
      <4>2. Open' = Open \ {fd} /\ ~ cacheValid'
        BY <4>1, ForgetDoes DEF IInv
      <4> HIDE DEF fd
      <4> QED
        BY <3>1, <4>2 DEF PointersLive
    <3>3. CASE ~ IsOver(c)
      <4>1. conn' = [conn EXCEPT ![fd] = c] /\ cacheValid' = cacheValid
        BY <3>0, <3>3
      <4>2. c \in Connection
        BY <3>1, OpenObjects, AnsweredDoes DEF IInv, Bounded
      <4> HIDE DEF fd
      <4>3. Open' = Open
        BY <3>1, <4>1, <4>2, Objects DEF IInv, TypeOK, Open
      <4> QED
        BY <3>1, <4>1, <4>3 DEF PointersLive
    <3> QED
      BY <3>2, <3>3
  <2>6. CASE EndPass
    <3>1. pc' # "pass" /\ cache' = cache
      BY <2>6 DEF EndPass
    <3>2. CASE running
      BY <2>6, <3>1, <3>2 DEF EndPass, PointersLive, Open
    <3>3. CASE ~ running
      <4>1. Open' = {} /\ cacheValid' = (cacheValid /\ Open = {})
        BY <2>6, <3>3, ForgetDoes DEF IInv, EndPass
      <4> QED
        BY <3>1, <4>1 DEF PointersLive
    <3> QED
      BY <3>2, <3>3
  <2>7. CASE Clients
    <3>1. Open' = Open /\ UNCHANGED loopVars
      BY <2>7, ClientsKeepOpen
    <3> QED
      BY <3>1 DEF PointersLive, loopVars
  <2> QED
    BY <2>1, <2>2, <2>3, <2>4, <2>5, <2>6, <2>7 DEF Next, Loop, Signal
<1> QED
  BY <1>1, <1>2, InitInv, InvStep, PTL DEF Spec
=============================================================================
