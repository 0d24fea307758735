----------------------------- MODULE TimerQueue -----------------------------
(***************************************************************************)
(* What TTLManager needs from its heap: at most one deadline per key, and a *)
(* pop that hands out a key none of the others is due before.              *)
(***************************************************************************)
EXTENDS Integers

CONSTANTS
  Keys,   \* the keys that may have a time to live
  Times,  \* the points in time a deadline can be
  Never   \* not a point in time: the key has no deadline

VARIABLES
  deadline,  \* deadline[k]: when k expires, Never if it does not
  call       \* the last operation: its name and its arguments; a pop has the
             \* key it hands out

queueVars == <<deadline, call>>

Timed == {k \in Keys : deadline[k] # Never}

Init ==
  /\ deadline = [k \in Keys |-> Never]
  /\ call = <<"none">>

Push(k, at) ==
  /\ k \notin Timed
  /\ deadline' = [deadline EXCEPT ![k] = at]
  /\ call' = <<"push", k, at>>

Update(k, at) ==
  /\ k \in Timed
  /\ deadline' = [deadline EXCEPT ![k] = at]
  /\ call' = <<"update", k, at>>

Remove(k) ==
  /\ k \in Timed
  /\ deadline' = [deadline EXCEPT ![k] = Never]
  /\ call' = <<"remove", k>>

\* Were it not for call, a pop of the wrong key would pass for its removal.
Pop(k) ==
  /\ k \in Timed
  /\ \A j \in Timed : deadline[k] <= deadline[j]
  /\ deadline' = [deadline EXCEPT ![k] = Never]
  /\ call' = <<"pop", k>>

Next ==
  \E k \in Keys :
    \/ \E at \in Times : Push(k, at) \/ Update(k, at)
    \/ Remove(k)
    \/ Pop(k)

Spec == Init /\ [][Next]_queueVars
=============================================================================
