--------------------------------- MODULE Handoff ---------------------------------
(***************************************************************************)
(* Work handed from session to session, and the count that is to stop it   *)
(* from going round.  The count rides each handoff; who hands work on      *)
(* takes the deepest of the handoffs in its inbox and adds one, since      *)
(* nothing says which of them it is passing on.                            *)
(*                                                                         *)
(* A harness takes a message out of the inbox by saying it was read: once  *)
(* its model is done with it, or before, and then the count begins again.  *)
(* So it does when a full inbox lets a handoff go that is being worked on, *)
(* when the copy of the inbox it is taken from lacks some of the handoffs, *)
(* and when work is passed on with `send`, which counts nothing.           *)
(***************************************************************************)
EXTENDS Naturals, SequencesExt

CONSTANTS
  Agents,    \* sessions that may reach each other
  Works,     \* pieces of work
  HopLimit,  \* HOPS
  AtMost     \* how many messages an inbox holds

HandoffKinds == HopLimit \in Nat \ {0} /\ AtMost \in Nat \ {0}

VARIABLES
  inbox, \* the handoffs each session holds, oldest first
  doing, \* the work each model has before it, and how often that was handed on since it was begun
         \* or last passed on with `send`
  begun, \* the work that has been begun somewhere
  missed \* whether a handoff left an inbox before its work was handed on or done, or was missed
         \* by a copy, so that the count came out too low

vars == <<inbox, doing, begun, missed>>

Init ==
  /\ inbox = [a \in Agents |-> <<>>] /\ doing = [a \in Agents |-> {}] /\ begun = {}
  /\ missed = FALSE

Deepest(messages) == Max({m.hops : m \in messages} \cup {0})

\* sending::hopped
Hopped(messages) == Deepest(messages) + 1

\* As it would be if the count were refused one later.
TooFarLate(hops) == hops > HopLimit + 1

\* sending::too_far
TooFar(hops) == hops > HopLimit

\* keeping::kept: a full inbox lets the oldest go.
Kept(messages, message) ==
  IF Len(messages) < AtMost THEN Append(messages, message) ELSE Append(Tail(messages), message)

\* A model is given work by nobody's handoff.
Start(a, w) ==
  /\ w \notin begun /\ begun' = begun \cup {w}
  /\ doing' = [doing EXCEPT ![a] = @ \cup {[work |-> w, passed |-> 0]}]
  /\ UNCHANGED <<inbox, missed>>

Task(message) == [work |-> message.work, passed |-> message.passed]

\* The model is shown a handoff.
Show(a) ==
  /\ \E i \in DOMAIN inbox[a] :
       /\ ~inbox[a][i].shown
       /\ doing' = [doing EXCEPT ![a] = @ \cup {Task(inbox[a][i])}]
       /\ inbox' = [inbox EXCEPT ![a][i].shown = TRUE]
  /\ UNCHANGED <<begun, missed>>

Deliver(b, message) == inbox' = [inbox EXCEPT ![b] = Kept(@, message)]

\* What it lets go is being worked on.
LetGo(b) == Len(inbox[b]) >= AtMost /\ Task(Head(inbox[b])) \in doing[b]

\* verbs::doing: counted and refused here, and never at the other end, where a full inbox lets
\* its oldest go.  The copy of the inbox may lack what was on a page that did not come.
HandOn(a, b) ==
  /\ b # a
  /\ \E task \in doing[a], copy \in SUBSET ToSet(inbox[a]) :
       LET hops == Hopped(copy)
       IN /\ ~TooFar(hops)
          /\ Deliver(b, [work |-> task.work, hops |-> hops, passed |-> task.passed + 1, shown |-> FALSE])
          /\ doing' = [doing EXCEPT ![a] = @ \ {task}]
          /\ missed' = (missed \/ LetGo(b) \/ hops < Hopped(ToSet(inbox[a])))
  /\ UNCHANGED begun

\* And `send`, with the sort of a handoff: nothing is counted, and none refused.
SendOn(a, b) ==
  /\ b # a
  /\ \E task \in doing[a] :
       /\ Deliver(b, [work |-> task.work, hops |-> 0, passed |-> 0, shown |-> FALSE])
       /\ doing' = [doing EXCEPT ![a] = @ \ {task}]
  /\ missed' = (missed \/ LetGo(b))
  /\ UNCHANGED begun

\* The model does the work, where it is refused or anyhow.
Do(a) ==
  /\ \E task \in doing[a] : doing' = [doing EXCEPT ![a] = @ \ {task}]
  /\ UNCHANGED <<inbox, begun, missed>>

\* keeping::consumed: the harness says what its model was shown was read, once the model is
\* done with it or before.
Read(a) ==
  /\ \E i \in DOMAIN inbox[a] :
       /\ inbox[a][i].shown
       /\ inbox' = [inbox EXCEPT ![a] = RemoveAt(@, i)]
       /\ missed' = (missed \/ Task(inbox[a][i]) \in doing[a])
  /\ UNCHANGED <<doing, begun>>

\* What comes after a handoff was missed is not followed: nothing is said of it.
Next ==
  /\ ~missed
  /\ \E a \in Agents : \/ Show(a) \/ Do(a) \/ Read(a)
                       \/ \E b \in Agents : HandOn(a, b) \/ SendOn(a, b)
                       \/ \E w \in Works : Start(a, w)

Spec == Init /\ [][Next]_vars

----------------------------------------------------------------------------
\* Properties

Handed == UNION {ToSet(inbox[a]) : a \in Agents}

\* The shape of every variable; no count in an inbox is past the limit.
TypeOK ==
  /\ \A a \in Agents : Len(inbox[a]) <= AtMost
  /\ \A m \in Handed : m.work \in Works /\ m.hops \in 0..HopLimit
  /\ begun \subseteq Works /\ missed \in BOOLEAN

\* As long as a handoff stays in the inbox until its work is handed on or done, and is in the copy
\* the count is taken from, no piece of work is handed on more than HopLimit times in a row; in a
\* row, since what is passed on with `send` is counted from there again.
StopsInTime == ~missed => \A m \in Handed : m.passed <= HopLimit
=============================================================================
