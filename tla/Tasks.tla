---------------------------------- MODULE Tasks ----------------------------------
(***************************************************************************)
(* A question one session asked another, and where it is said to have got  *)
(* to.  Nothing is kept of it: a process of the asker copies its inbox,    *)
(* page by page, looks for what came back, and only then asks whoever      *)
(* serves under the name it was asked under, which passes on.  Several     *)
(* such processes may run at a time, each as fast as it may.               *)
(***************************************************************************)
EXTENDS Naturals, Sequences, SequencesExt

CONSTANTS
  Pollers,   \* the processes that may ask what became of it at a time
  Sayings,   \* how many messages are sent of it
  MaxLives   \* how many sessions have the name, one after another

Sorts == {"answer", "question", "trouble", "release", "note"}

TaskKinds == {Sayings, MaxLives} \subseteq Nat \ {0}

VARIABLES
  asked,  \* "no", "yes": it is in an inbox, with whose life; "rejected"
  there,  \* whether the name is served
  life,   \* by which session
  inbox,  \* the asker's: what is said of the question, in the order it came
  heard,  \* history: the sorts that came, and how many came in all
  calls,  \* how far each process is: the row it reads next, what it copied, and as history what
          \* the first row said when it began, "nothing" where rows moved or a page failed since
  said    \* what was last said of it, and what the first row had said when that call began

vars == <<asked, there, life, inbox, heard, calls, said>>

NoCall == [stage |-> "none", next |-> 1, copy |-> <<>>, due |-> "nothing"]

Init ==
  /\ asked = "no" /\ there = TRUE /\ life = 1
  /\ inbox = <<>> /\ heard = [sorts |-> {}, all |-> 0] /\ calls = [t \in Pollers |-> NoCall]
  /\ said = [state |-> "nothing", due |-> "nothing"]

\* ask, taken or refused: rejected is said at once, and there is no handle.
Ask ==
  /\ asked = "no" /\ there
  /\ \/ asked' = "yes" /\ said' = [said EXCEPT !.state = "submitted"]
     \/ asked' = "rejected" /\ said' = [said EXCEPT !.state = "rejected"]
  /\ UNCHANGED <<there, life, inbox, heard, calls>>

End == /\ there /\ there' = FALSE
       /\ UNCHANGED <<asked, life, inbox, heard, calls, said>>

Start == /\ ~there /\ life < MaxLives /\ there' = TRUE /\ life' = life + 1
         /\ UNCHANGED <<asked, inbox, heard, calls, said>>

\* Who was asked says something of it; the first session under the name knows the id.
Say(sort) ==
  /\ asked = "yes" /\ there /\ life = 1 /\ heard.all < Sayings
  /\ heard' = [sorts |-> heard.sorts \cup {sort}, all |-> heard.all + 1]
  /\ inbox' = Append(inbox, sort)
  /\ UNCHANGED <<asked, there, life, calls, said>>

\* What a call that reads the inbox has copied is no longer all of it.
Torn(call) == IF call.stage = "page" THEN [call EXCEPT !.due = "nothing"] ELSE call

\* The harness consumes a message, or a full inbox lets it go.
Take(i) ==
  /\ i \in DOMAIN inbox /\ inbox' = RemoveAt(inbox, i)
  /\ calls' = [t \in Pollers |-> Torn(calls[t])]
  /\ UNCHANGED <<asked, there, life, heard, said>>

----------------------------------------------------------------------------
\* task

\* As it would be if the last of what came back were read.
BackLast(held) == held[Len(held)]

Back(held) == held[1]

\* What a message says of the task.
Means(sort) == CASE sort = "answer" -> "completed"
                 [] sort = "question" -> "input_required"
                 [] sort = "trouble" -> "failed"
                 [] sort = "release" -> "canceled"
                 [] OTHER -> "working"

At(t, call) == calls' = [calls EXCEPT ![t] = call]

\* tool.rs: the standing, with the inbox, before anything is looked at.
Copy(t) ==
  /\ asked = "yes" /\ calls[t].stage = "none"
  /\ At(t, [stage |-> "page", next |-> 1, copy |-> <<>>,
            due |-> IF inbox = <<>> THEN "nothing" ELSE Means(inbox[1])])
  /\ UNCHANGED <<asked, there, life, inbox, heard, said>>

\* The copy a call goes on with.
Copied(call) == [stage |-> "look", next |-> 1, copy |-> call.copy, due |-> call.due]

\* inbox_of: a page begins after as many rows as were seen, and one that is empty is the last.
NextPage(t) ==
  /\ calls[t].stage = "page"
  /\ IF calls[t].next > Len(inbox) THEN At(t, Copied(calls[t]))
     ELSE \E n \in calls[t].next..Len(inbox) :
            At(t, [calls[t] EXCEPT !.next = n + 1, !.copy = @ \o SubSeq(inbox, calls[t].next, n)])
  /\ UNCHANGED <<asked, there, life, inbox, heard, said>>

\* What a call had seen that was of something else leaves the inbox: the next row is not read.
Skip(t) ==
  /\ calls[t].stage = "page" /\ calls[t].next <= Len(inbox)
  /\ At(t, [Torn(calls[t]) EXCEPT !.next = @ + 1])
  /\ UNCHANGED <<asked, there, life, inbox, heard, said>>

\* The session's own socket does not answer, or a page of it does not come: so far is what there is.
Cut(t) ==
  /\ calls[t].stage = "page"
  /\ At(t, Copied(Torn(calls[t])))
  /\ UNCHANGED <<asked, there, life, inbox, heard, said>>

Report(t, state) == At(t, NoCall) /\ said' = [state |-> state, due |-> calls[t].due]

\* stands, as far as the copy says it.
LookBack(t) ==
  /\ calls[t].stage = "look"
  /\ IF calls[t].copy = <<>> THEN At(t, [calls[t] EXCEPT !.stage = "dial"]) /\ UNCHANGED said
     ELSE Report(t, Means(Back(calls[t].copy)))
  /\ UNCHANGED <<asked, there, life, inbox, heard>>

\* The dial of whoever serves under the name by now, which may fail though somebody does: its
\* backlog is full for as long as the caller waits, or the caller has no descriptor left ...
Dial(t) ==
  /\ calls[t].stage = "dial"
  /\ \/ there /\ At(t, [calls[t] EXCEPT !.stage = "status"]) /\ UNCHANGED said
     \/ Report(t, "failed")
  /\ UNCHANGED <<asked, there, life, inbox, heard>>

\* ... and its status: in a turn or not; or refused, or it is gone by then.
Status(t) ==
  /\ calls[t].stage = "status"
  /\ \/ there /\ Report(t, "working")
     \/ Report(t, "submitted")
  /\ UNCHANGED <<asked, there, life, inbox, heard>>

Next ==
  \/ Ask \/ End \/ Start
  \/ \E sort \in Sorts : Say(sort)
  \/ \E i \in 1..Sayings : Take(i)
  \/ \E t \in Pollers : Copy(t) \/ NextPage(t) \/ Skip(t) \/ Cut(t) \/ LookBack(t) \/ Dial(t) \/ Status(t)

Spec == Init /\ [][Next]_vars

----------------------------------------------------------------------------
\* Properties

\* What came back first decides: a call that begins when something has come back says what that
\* means, whoever has the name by then, whatever else is said of it and however many other calls
\* there are, unless its copy of the inbox was cut short or a row was skipped in it.  So a task
\* that is done with is said to be so again for as long as what says it is held.
FirstDecides == said.due # "nothing" => said.state = said.due

\* A task is done with, or waits for an answer, because whoever was asked said so, and is said to
\* have failed because it said so or by a call that knew of nothing that had come back.
SaidForCause ==
  /\ said.state = "completed" => "answer" \in heard.sorts
  /\ said.state = "canceled" => "release" \in heard.sorts
  /\ said.state = "input_required" => "question" \in heard.sorts
  /\ said.state = "failed" => "trouble" \in heard.sorts \/ said.due = "nothing"
=============================================================================
