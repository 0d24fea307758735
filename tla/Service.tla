------------------------------- MODULE Service -------------------------------
(***************************************************************************)
(* What one client may expect: its requests are executed one after          *)
(* another, each once and as a whole, in the order they were sent, and the   *)
(* answers come back in that order.  Keys may expire in between.            *)
(***************************************************************************)
EXTENDS Naturals, Sequences

CONSTANTS
  Requests,       \* what clients ask
  Stores,         \* the keys there are when the client connects
  Outcomes(_, _), \* what a request may do to the keys, and the answer
  Expired(_)      \* what may be left of the keys as time passes

VARIABLES
  asked,    \* the requests sent so far
  results,  \* the answers given so far
  shown,    \* the answers the client has seen
  store     \* the keys

serviceVars == <<asked, results, shown, store>>

Init ==
  /\ asked = << >> /\ results = << >> /\ shown = << >>
  /\ store \in Stores

Ask(args) ==
  /\ asked' = Append(asked, args)
  /\ UNCHANGED <<results, shown, store>>

Do ==
  /\ Len(results) < Len(asked)
  /\ \E outcome \in Outcomes(store, asked[Len(results) + 1]) :
       /\ store' = outcome.store
       /\ results' = Append(results, outcome.reply)
  /\ UNCHANGED <<asked, shown>>

Show ==
  /\ Len(shown) < Len(results)
  /\ shown' = Append(shown, results[Len(shown) + 1])
  /\ UNCHANGED <<asked, results, store>>

Expire ==
  /\ store' \in Expired(store)
  /\ UNCHANGED <<asked, results, shown>>

Next == (\E args \in Requests : Ask(args)) \/ Do \/ Show \/ Expire

Spec == Init /\ [][Next]_serviceVars
=============================================================================
