-------------------------------- MODULE Exchange --------------------------------
(***************************************************************************)
(* What a connection between two sessions promises, of the calls made on   *)
(* it one after the other: the far end answers a call at most once and     *)
(* does what it asks only after it answered; the near end is given the     *)
(* answer to that very call or a failure, and a failure says nothing of    *)
(* what the far end did.                                                   *)
(***************************************************************************)
EXTENDS Naturals

CONSTANT Calls  \* how many calls are made

VARIABLES
  result,    \* what the caller was given: the call it is an answer to, Failed or Pending
  answered,  \* the calls the far end answered
  done       \* the calls it did

vars == <<result, answered, done>>

Pending == 0
Failed  == Calls + 1

Init == /\ result = [c \in 1..Calls |-> Pending]
        /\ answered = {} /\ done = {}

Turn(c) == \A b \in 1..c - 1 : result[b] # Pending

Answer(c) == /\ Turn(c) /\ c \notin answered
             /\ answered' = answered \cup {c}
             /\ UNCHANGED <<result, done>>

Do(c) == /\ c \in answered /\ done' = done \cup {c}
         /\ UNCHANGED <<result, answered>>

Return(c) == /\ Turn(c) /\ result[c] = Pending /\ c \in answered
             /\ result' = [result EXCEPT ![c] = c]
             /\ UNCHANGED <<answered, done>>

Fail(c) == /\ Turn(c) /\ result[c] = Pending
           /\ result' = [result EXCEPT ![c] = Failed]
           /\ UNCHANGED <<answered, done>>

Next == \E c \in 1..Calls : Answer(c) \/ Do(c) \/ Return(c) \/ Fail(c)

Spec == Init /\ [][Next]_vars
=============================================================================
