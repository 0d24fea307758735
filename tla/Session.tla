------------------------------- MODULE Session -------------------------------
(***************************************************************************)
(* One connection from end to end: a client, the bytes on their way in     *)
(* both directions, the connection with its buffers and its mode, and the  *)
(* pass that parses, executes and answers requests.  client.cpp has one    *)
(* request under way at a time; Window allows clients that do not wait.    *)
(* Other connections, closing and timeouts are the subject of ServerLoop.  *)
(*                                                                         *)
(* A stream of bytes is the sequence of the messages written to it, and    *)
(* the number of bytes that have come as far as some place on their way.   *)
(* The sequences only grow, which keeps what was asked and answered.       *)
(***************************************************************************)
EXTENDS Wire

CONSTANTS
  Requests,     \* what clients ask
  Stores,       \* the keys there are when the client connects
  MaxRequests,  \* kMaxRequestsPerConnection (100)
  Window,       \* how many requests a client has under way (client.cpp: 1)
  MaxAsked,     \* bound on the requests of the client
  MaxQueued     \* bound on the replies of the server, for when it repeats itself

ASSUME SessionAssumption ==
  /\ Requests \subseteq Seq(Texts) \ {<< >>}
  /\ \A keys \in Stores : IsStore(keys)
  /\ {MaxRequests, Window} \subseteq Nat \ {0}
  /\ {MaxAsked, MaxQueued} \subseteq Nat

\* kMaxMsg has room for a reply without a text.
ASSUME ShortRepliesFit ==
  \A reply \in {Nil, Int64(0), Int64(1)} : Fitting(reply) = reply

VARIABLES
  pc,         \* "poll", "pass" or "sweep": what the server is at
  processed,  \* requests answered in this pass
  want,       \* the mode of the connection: "read" or "write"
  asked,      \* the requests the client has sent
  received,   \* how many of their bytes the server has read
  taken,      \* how many requests it has taken out of the input buffer
  queued,     \* the messages put into the output buffer
  written,    \* how many of their bytes it has written
  shown,      \* the replies the client has shown
  talking,    \* has the client not given up?
  store       \* the keys

vars == <<pc, processed, want, asked, received, taken, queued, written, shown, talking, store>>

-----------------------------------------------------------------------------
(* Streams                                                                 *)

\* The bytes of the first n messages.
Upto(messages, n) == SumTo([i \in DOMAIN messages |-> Size(messages[i])], n)

Encoded == [args \in Requests |-> Request(args)]
Requested == [i \in DOMAIN asked |-> Encoded[asked[i]]]
Sent == Upto(Requested, Len(Requested))
Queued == Upto(queued, Len(queued))

\* Bound: where a read or a write may end.  Behind a message, inside its length,
\* or short of its last byte.
Cuts(messages) ==
  UNION {{Upto(messages, i), Upto(messages, i) - 1, Upto(messages, i - 1) + 1} : i \in DOMAIN messages}

\* What parseRequest finds in the input buffer: bytes that have been read, but
\* not consumed with a request.
Buffered == received - Upto(Requested, taken)
Parsed == IF Buffered = 0 THEN [result |-> "wait"] ELSE Parse(Buffered, Requested[taken + 1])

-----------------------------------------------------------------------------
(* The client                                                              *)

\* writeAll: the whole request, in as many pieces as it takes.
Ask(args) ==
  /\ talking
  /\ Len(asked) < MaxAsked
  /\ Len(asked) < Len(shown) + Window
  /\ IF CanSend(args)
     THEN asked' = Append(asked, args) /\ UNCHANGED talking
     ELSE talking' = FALSE /\ UNCHANGED asked
  /\ UNCHANGED <<pc, processed, want, received, taken, queued, written, shown, store>>

\* readFull twice, then printResponse.
Show ==
  /\ talking
  /\ Len(shown) < Len(asked)
  /\ Len(shown) < Len(queued)
  /\ Upto(queued, Len(shown) + 1) <= written
  /\ LET message == queued[Len(shown) + 1]
     IN IF CanShow(message)
        THEN shown' = Append(shown, PrintAll(message)) /\ UNCHANGED talking
        ELSE talking' = FALSE /\ UNCHANGED shown
  /\ UNCHANGED <<pc, processed, want, asked, received, taken, queued, written, store>>

-----------------------------------------------------------------------------
(* The server                                                              *)

\* What the pass starts with.
StartPass == pc' = "pass" /\ processed' = 0

\* handleRead
Read ==
  /\ pc = "poll" /\ want = "read"
  /\ \E n \in Cuts(Requested) : received < n /\ received' = n
  /\ StartPass
  /\ UNCHANGED <<want, asked, taken, queued, written, shown, talking, store>>

\* Mutation of WrittenOut: reading goes on after any write.
WrittenOutPartly(n) == TRUE

\* Nothing is left of the output buffer after n bytes.
WrittenOut(n) == n = Queued

\* handleWrite
Write ==
  /\ pc = "poll" /\ want = "write"
  /\ \E n \in Cuts(queued) :
       written < n /\ written' = n /\ want' = IF WrittenOut(n) THEN "read" ELSE want
  /\ StartPass
  /\ UNCHANGED <<asked, received, taken, queued, shown, talking, store>>

\* No event: nothing to read, or a whole reply in the socket that the client has
\* yet to take, so that there may be no room.
Idle ==
  /\ pc = "poll"
  /\ \/ want = "read" /\ received = Sent
     \/ want = "write" /\ Len(shown) < Len(queued) /\ Upto(queued, Len(shown) + 1) <= written
  /\ StartPass
  /\ UNCHANGED <<want, asked, received, taken, queued, written, shown, talking, store>>

\* Mutation of Queue: the connection goes on reading.
QueueOnly(reply) ==
  /\ queued' = Append(queued, Serialize(reply))
  /\ UNCHANGED want

\* A reply goes into the output buffer, and the connection wants to write.
Queue(reply) ==
  /\ queued' = Append(queued, Serialize(reply))
  /\ want' = "write"

\* What a round of processRequests comes to, for what the parser has found.
\* Whether the parser throws or a command, there is an error and an end to the
\* batch; but the parser has consumed nothing then.
Round ==
  IF Parsed.result = "throws" THEN {Exception(store)} ELSE Execute(store, Parsed.args)

Answer ==
  /\ pc = "pass"
  /\ processed < MaxRequests
  /\ Parsed.result \in {"request", "throws"}
  /\ Len(queued) < MaxQueued
  /\ \E outcome \in Round :
       /\ store' = outcome.store
       /\ Queue(outcome.reply)
       /\ pc' = IF outcome.throws THEN "sweep" ELSE "pass"
       /\ processed' = IF outcome.throws THEN processed ELSE processed + 1
  /\ taken' = IF Parsed.result = "request" THEN taken + 1 ELSE taken
  /\ UNCHANGED <<asked, received, written, shown, talking>>

EndPass ==
  /\ pc = "pass"
  /\ processed = MaxRequests \/ Parsed.result = "wait"
  /\ pc' = "sweep"
  /\ UNCHANGED <<processed, want, asked, received, taken, queued, written, shown, talking, store>>

Sweep ==
  /\ pc = "sweep"
  /\ store' \in Expired(store)
  /\ pc' = "poll"
  /\ UNCHANGED <<processed, want, asked, received, taken, queued, written, shown, talking>>

Init ==
  /\ pc = "poll" /\ processed = 0 /\ want = "read"
  /\ asked = << >> /\ received = 0 /\ taken = 0
  /\ queued = << >> /\ written = 0
  /\ shown = << >> /\ talking = TRUE
  /\ store \in Stores

Server == Read \/ Write \/ Idle \/ Answer \/ EndPass \/ Sweep

Next == Server \/ (\E args \in Requests : Ask(args)) \/ Show

\* The loop of the server goes round: what a step does is up to Server, which
\* always has one.
place == <<pc, processed>>
GoesRound ==
  \/ pc = "poll" /\ StartPass
  \/ pc = "pass" /\ pc' = "pass" /\ processed' = processed + 1
  \/ pc = "pass" /\ pc' = "sweep" /\ processed' \in {processed, processed + 1}
  \/ pc = "sweep" /\ pc' = "poll" /\ processed' = processed

\* And the client reads its replies.
Fairness == WF_place(GoesRound) /\ WF_vars(Show)

Spec == Init /\ [][Next]_vars /\ Fairness
-----------------------------------------------------------------------------
(* Properties                                                              *)

\* Nothing is taken out of a buffer, or off the wire, before it is there.
TypeOK ==
  /\ pc \in {"poll", "pass", "sweep"}
  /\ processed \in 0..MaxRequests
  /\ want \in {"read", "write"}
  /\ asked \in Seq(Requests)
  /\ taken \in 0..Len(asked)
  /\ Upto(Requested, taken) <= received /\ received <= Sent
  /\ written \in 0..Queued
  /\ talking \in BOOLEAN
  /\ IsStore(store)

\* Whenever the server waits for more to read, it has answered all it has, and
\* sent the answers: the client that waits for a reply is not waited for, after
\* whatever partial reads, partial writes, full batches and exceptions.
ReadingMeansDone ==
  pc = "poll" /\ want = "read" =>
    /\ written = Queued
    /\ Parsed.result = "wait"

\* A command that fails leaves the keys as they were, in spite of the order in
\* which it looks at its arguments and at the key, and makes what is missing.
ErrorsChangeNothing ==
  [][\A i \in DOMAIN queued' \ DOMAIN queued : TagOf(queued'[i]) = "err" => store' = store]_vars

\* A key keeps a string until SET or its removal: no command on sorted sets
\* turns it into one.
StringsStay ==
  [][\A k \in DOMAIN store.value :
       Holds(store, k, "string") /\ Has(store', k) => Holds(store', k, "string")]_vars

\* Every request is answered, and its answer seen, unless the client gives up.
RequestsAnswered ==
  \A i \in 1..MaxAsked : Len(asked) >= i ~> (Len(shown) >= i \/ ~ talking)

\* After sending, the connection waits for the next request: there are never
\* more replies than requests, and what a client takes for the reply to its
\* request is none to an earlier one.
NoReplyUnasked == Len(queued) <= Len(asked)

\* Names of commands are the same in upper and lower case.
Lowered(args) == [args EXCEPT ![1] = Lower[args[1]]]

Outcomes(keys, args) ==
  {[store |-> outcome.store, reply |-> Fitting(outcome.reply)] : outcome \in Execute(keys, Lowered(args))}

\* The client is served as Service says.
Promise == INSTANCE Service WITH results <- [i \in DOMAIN queued |-> PrintAll(queued[i])]

ImplementsService == Promise!Spec
=============================================================================
