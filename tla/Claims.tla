-------------------------------- MODULE Claims --------------------------------
(***************************************************************************)
(* Who is recorded as working on one piece of work (directory::claims).    *)
(*                                                                         *)
(* The record is a file; a file written under another name is given its    *)
(* final one by link(2), so it is whole as soon as it is there, and claim  *)
(* is either the session it names or NoOne.  Everything after the link is  *)
(* decided on what was read and then done by path: a step is one system    *)
(* call, and sessions die, leave and come back between any two.            *)
(*                                                                         *)
(* A session asks through tools: each call is a process of its own, which  *)
(* knows from its environment whom it speaks for, runs beside others of    *)
(* the same session, and does not end when the session does.               *)
(***************************************************************************)
EXTENDS Naturals

CONSTANTS
  Sessions,   \* agents that claim
  Tools,      \* the tool processes that may run at a time
  Listers,    \* processes that list the claims, or sweep a dead session
  Mortals,    \* sessions that may die or leave
  Returning,  \* of those, the ones whose name another session takes later
  Yielding,   \* sessions that may let the work go
  NoOne       \* no file

ASSUME ClaimKinds == /\ NoOne \notin Sessions
                     /\ Sessions \cap Listers = {}
                     /\ Tools \cap (Sessions \cup Listers) = {}
                     /\ Mortals \subseteq Sessions /\ Yielding \subseteq Sessions
                     /\ Returning \subseteq Mortals

VARIABLES
  claim,   \* the session named in the file
  alive,   \* the sessions whose socket answers
  holds,   \* the sessions told the work is theirs, until they let it go or end
  speaks,  \* the session each tool speaks for, NoOne where none runs
  pc,      \* the next system call of each process, a session's own included
  pass,    \* the pass of take each tool is in
  seen,    \* the holder each process read
  calm     \* history: no session ended with a claim or a call in its name, or claimed when it was
           \* going or gone, no claim was let go, and no name changed hands

vars == <<claim, alive, holds, speaks, pc, pass, seen, calm>>

Procs == Sessions \cup Tools \cup Listers
Calls == {"idle", "link", "read", "ask", "clear", "lread", "lclear",
          "aread", "aask", "aclear", "fread", "fclear", "close"}

Init ==
  /\ claim \in Mortals \cup {NoOne}     \* what a session that is gone may have left
  /\ alive = Sessions \ {claim}
  /\ holds = {}
  /\ speaks = [t \in Tools |-> NoOne]
  /\ pc = [x \in Procs |-> "idle"]
  /\ pass = [t \in Tools |-> 0]
  /\ seen = [x \in Procs |-> NoOne]
  /\ calm = (claim = NoOne)

To(x, c) == pc' = [pc EXCEPT ![x] = c]

\* s answers and has not begun to leave.
Present(s) == s \in alive /\ pc[s] = "idle"

\* s is recorded, was told so, or has a tool out.
Engaged(s) == claim = s \/ s \in holds \/ \E t \in Tools : speaks[t] = s

----------------------------------------------------------------------------
\* take

\* A tool starts for s.  It does not ask whether s is still there.
Take(t, s) ==
  /\ pc[t] = "idle"
  /\ To(t, "link") /\ pass' = [pass EXCEPT ![t] = 0] /\ speaks' = [speaks EXCEPT ![t] = s]
  /\ calm' = (calm /\ Present(s))
  /\ UNCHANGED <<claim, alive, holds, seen>>

\* The tool goes on to c, or is over.
On(t, c) == To(t, c) /\ UNCHANGED <<holds, speaks, pass, seen>>

Out(t) ==
  /\ To(t, "idle") /\ speaks' = [speaks EXCEPT ![t] = NoOne]
  /\ pass' = [pass EXCEPT ![t] = 0] /\ seen' = [seen EXCEPT ![t] = NoOne]

Granted(t) == Out(t) /\ holds' = holds \cup {speaks[t]}

Denied(t) == Out(t) /\ UNCHANGED holds

\* As it would be if the file were opened with create and truncate instead of linked.
NamedAtAnyway(t) ==
  /\ pc[t] = "link"
  /\ claim' = speaks[t] /\ Granted(t)
  /\ UNCHANGED <<alive, calm>>

\* named_at: the kernel gives the name to one of those who ask.
NamedAt(t) ==
  /\ pc[t] = "link"
  /\ \/ claim = NoOne /\ claim' = speaks[t] /\ Granted(t)
     \/ claim # NoOne /\ On(t, "read") /\ UNCHANGED claim
  /\ UNCHANGED <<alive, calm>>

\* read_at: no file by now, this session's own, or another's, who in the second pass is not asked.
ReadHeld(t) ==
  /\ pc[t] = "read"
  /\ \/ claim = NoOne /\ On(t, "clear")
     \/ claim = speaks[t] /\ Granted(t)
     \/ /\ claim \notin {NoOne, speaks[t]} /\ pass[t] = 0
        /\ To(t, "ask") /\ seen' = [seen EXCEPT ![t] = claim] /\ UNCHANGED <<holds, speaks, pass>>
     \/ claim \notin {NoOne, speaks[t]} /\ pass[t] > 0 /\ Denied(t)
  /\ UNCHANGED <<claim, alive, calm>>

AskHolder(t) ==
  /\ pc[t] = "ask"
  /\ IF seen[t] \in alive THEN Denied(t) ELSE On(t, "clear")
  /\ UNCHANGED <<claim, alive, calm>>

\* The file goes, whatever is in it by now; after the second pass the tool gives up.
ClearHeld(t) ==
  /\ pc[t] = "clear"
  /\ claim' = NoOne
  /\ \/ /\ pass[t] = 0 /\ pass' = [pass EXCEPT ![t] = 1]
        /\ To(t, "link") /\ seen' = [seen EXCEPT ![t] = NoOne] /\ UNCHANGED <<holds, speaks>>
     \/ pass[t] > 0 /\ Denied(t)
  /\ UNCHANGED <<alive, calm>>

----------------------------------------------------------------------------
\* let_go

LetGo(t, s) ==
  /\ pc[t] = "idle" /\ s \in Yielding
  /\ To(t, "lread") /\ speaks' = [speaks EXCEPT ![t] = s]
  /\ UNCHANGED <<claim, alive, holds, pass, seen, calm>>

\* Nobody's, or another's: refused, and this session does not hold it either.
ReadOwn(t) ==
  /\ pc[t] = "lread"
  /\ \/ claim = speaks[t] /\ On(t, "lclear") /\ calm' = FALSE
     \/ claim # speaks[t] /\ Out(t) /\ holds' = holds \ {speaks[t]} /\ UNCHANGED calm
  /\ UNCHANGED <<claim, alive>>

ClearOwn(t) ==
  /\ pc[t] = "lclear"
  /\ claim' = NoOne /\ holds' = holds \ {speaks[t]}
  /\ Out(t)
  /\ UNCHANGED <<alive, calm>>

\* A tool is killed: what it was about to do is not done.
Killed(t) ==
  /\ pc[t] # "idle"
  /\ Out(t)
  /\ UNCHANGED <<claim, alive, holds, calm>>

----------------------------------------------------------------------------
\* all, and forget_in for a session that is swept

List(l) ==
  /\ pc[l] = "idle" /\ claim # NoOne
  /\ To(l, "aread")
  /\ UNCHANGED <<claim, alive, holds, speaks, pass, seen, calm>>

\* A listing, a sweep or a leaving session is done with its file.
Through(x, c) == To(x, c) /\ seen' = [seen EXCEPT ![x] = NoOne]

ListRead(l) ==
  /\ pc[l] = "aread"
  /\ seen' = [seen EXCEPT ![l] = claim]
  /\ To(l, IF claim = NoOne THEN "idle" ELSE "aask")
  /\ UNCHANGED <<claim, alive, holds, speaks, pass, calm>>

\* As it would be if a listing took away the claims of the living.
ListAskNobody(l) ==
  /\ pc[l] = "aask"
  /\ Through(l, "aclear")
  /\ UNCHANGED <<claim, alive, holds, speaks, pass, calm>>

ListAsk(l) ==
  /\ pc[l] = "aask"
  /\ Through(l, IF seen[l] \in alive THEN "idle" ELSE "aclear")
  /\ UNCHANGED <<claim, alive, holds, speaks, pass, calm>>

\* As it would be if a listing only left a dead holder's claim out of what it says.
ListSkip(l) ==
  /\ pc[l] = "aclear"
  /\ To(l, "idle")
  /\ UNCHANGED <<claim, alive, holds, speaks, pass, seen, calm>>

ListClear(l) ==
  /\ pc[l] = "aclear"
  /\ claim' = NoOne
  /\ To(l, "idle")
  /\ UNCHANGED <<alive, holds, speaks, pass, seen, calm>>

\* forget_id found d's socket dead.
Forget(l, d) ==
  /\ pc[l] = "idle" /\ d \notin alive
  /\ To(l, "fread") /\ seen' = [seen EXCEPT ![l] = d]
  /\ UNCHANGED <<claim, alive, holds, speaks, pass, calm>>

\* A session that ends by itself forgets its own claims, and then closes its socket.
Leave(s) ==
  /\ s \in Mortals /\ Present(s)
  /\ To(s, "fread") /\ seen' = [seen EXCEPT ![s] = s]
  /\ holds' = holds \ {s}
  /\ calm' = (calm /\ ~Engaged(s))
  /\ UNCHANGED <<claim, alive, speaks, pass>>

Forgotten(x) == Through(x, IF x \in Sessions THEN "close" ELSE "idle")

ForgetRead(x) ==
  /\ pc[x] = "fread"
  /\ \/ claim = seen[x] /\ To(x, "fclear") /\ UNCHANGED seen
     \/ claim # seen[x] /\ Forgotten(x)
  /\ UNCHANGED <<claim, alive, holds, speaks, pass, calm>>

ForgetClear(x) ==
  /\ pc[x] = "fclear"
  /\ claim' = NoOne
  /\ Forgotten(x)
  /\ UNCHANGED <<alive, holds, speaks, pass, calm>>

----------------------------------------------------------------------------
\* A session killed, or closing its socket after it forgot its claims.  Its tools go on.
Die(s) ==
  /\ s \in alive \cap Mortals
  /\ alive' = alive \ {s} /\ holds' = holds \ {s}
  /\ To(s, "idle") /\ seen' = [seen EXCEPT ![s] = NoOne]
  /\ calm' = (calm /\ ~Engaged(s))
  /\ UNCHANGED <<claim, speaks, pass>>

\* The name is taken by a new session.
Rise(s) ==
  /\ s \in Returning \ alive
  /\ alive' = alive \cup {s} /\ calm' = FALSE
  /\ UNCHANGED <<claim, holds, speaks, pc, pass, seen>>

Claiming(t) == NamedAt(t) \/ ReadHeld(t) \/ AskHolder(t) \/ ClearHeld(t)
Letting(t) == ReadOwn(t) \/ ClearOwn(t)
Listing(l) == ListRead(l) \/ ListAsk(l) \/ ListClear(l)

Next ==
  \/ \E t \in Tools : Claiming(t) \/ Letting(t) \/ Killed(t) \/ \E s \in Sessions : Take(t, s) \/ LetGo(t, s)
  \/ \E s \in Sessions : Leave(s) \/ Die(s) \/ Rise(s)
  \/ \E l \in Listers : List(l) \/ Listing(l) \/ \E d \in Sessions : Forget(l, d)
  \/ \E x \in Sessions \cup Listers : ForgetRead(x) \/ ForgetClear(x)

Spec == Init /\ [][Next]_vars

\* Somebody lists the claims again and again, and what a listing or a sweep began it ends.
FairSpec ==
  /\ Spec
  /\ \A l \in Listers : SF_vars(List(l)) /\ WF_vars(Listing(l) \/ ForgetRead(l) \/ ForgetClear(l))

----------------------------------------------------------------------------
\* Properties

\* The shape of every variable.
TypeOK ==
  /\ claim \in Sessions \cup {NoOne}
  /\ alive \subseteq Sessions /\ holds \subseteq Sessions
  /\ speaks \in [Tools -> Sessions \cup {NoOne}]
  /\ pc \in [Procs -> Calls]
  /\ pass \in [Tools -> 0..1]
  /\ seen \in [Procs -> Sessions \cup {NoOne}]
  /\ calm \in BOOLEAN

\* Tools that ask for the same piece of work at once, for one session or for several, are settled
\* by the kernel: at most one session is told the work is its own, as long as each session that
\* claims stays, and none lets go.
OneHolder == calm => \A s, t \in holds : s = t

\* So long, whoever was told the work is its own is the one the record names, so that a session
\* that asks later reads back who has it.
RecordBehind == calm => \A s \in holds : claim = s

\* The module doc has it without a condition: "two agents asking for the same piece of work at once
\* are settled by the kernel and the loser reads back who beat it".  Sessions that stay are meant.
NeverTwice == \A s, t \in holds : Present(s) /\ Present(t) => s = t

\* The work of a session that is gone does not stay taken: it is let go, or somebody who is there
\* takes it.
DeadYield == (claim \in Sessions /\ claim \notin alive) ~> (claim = NoOne \/ claim \in alive)
=============================================================================
