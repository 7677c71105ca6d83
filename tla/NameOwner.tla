------------------------------ MODULE NameOwner ------------------------------
(***************************************************************************)
(* What a name promises, whatever files keep the promise: at most one      *)
(* session owns it, whoever dials it while it is owned reaches the owner,  *)
(* and nobody answers under it until the one before has stopped answering. *)
(*                                                                         *)
(* Sets rather than values: a lease that were given twice would show as    *)
(* two owners.                                                             *)
(***************************************************************************)
CONSTANT Sessions

VARIABLES
  owners,     \* the sessions holding a lease on the name
  answering   \* the sessions a caller of the name would reach

vars == <<owners, answering>>

Init == owners = {} /\ answering = {}

\* A session starts to answer under a name that nobody owns and nobody answers.
Answer(p) ==
  /\ owners = {} /\ answering = {}
  /\ answering' = {p}
  /\ UNCHANGED owners

\* It owns the name once it knows that it is the one who answers.
Own(p) ==
  /\ owners = {} /\ answering = {p}
  /\ owners' = {p}
  /\ UNCHANGED answering

\* Giving the name back, failing before owning it and dying all look the same from outside.
Quit(p) ==
  /\ answering = {p}
  /\ answering' = {} /\ owners' = {}

Next == \E p \in Sessions : Answer(p) \/ Own(p) \/ Quit(p)

Spec == Init /\ [][Next]_vars
=============================================================================
