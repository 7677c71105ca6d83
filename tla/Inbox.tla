--------------------------------- MODULE Inbox ---------------------------------
(***************************************************************************)
(* The inbox of a running session: what becomes of a message between the   *)
(* tell that carries it and the harness that reads it.                     *)
(*                                                                         *)
(*   a connection   answers tell with the message's id, and then hands it  *)
(*                  to the loop through a bounded channel                  *)
(*   the loop       says it up the pipe and keeps it in the inbox, and     *)
(*                  takes out what the harness says it has read            *)
(*   a tool         reads the inbox over the socket, page by page          *)
(***************************************************************************)
EXTENDS Naturals, SequencesExt, Retaining

CONSTANTS
  Callers,   \* connections
  Said,      \* what each of them tells, in order
  Urgent,    \* the messages that interrupt
  NoMessage,
  AtMost,    \* AT_MOST, how many messages an inbox holds
  Room,      \* how many messages the channel to the loop holds
  Page,      \* how many rows fit a page
  Sayings    \* how many times the harness says what it has read

Msgs == UNION {ToSet(Said[c]) : c \in Callers}

\* Every message has an id of its own, whoever tells it.
InboxKinds == /\ \A c \in Callers : Said[c] \in Seq(Msgs)
              /\ \A c, d \in Callers : \A i \in DOMAIN Said[c], j \in DOMAIN Said[d] :
                   Said[c][i] = Said[d][j] => c = d /\ i = j
              /\ NoMessage \notin Msgs /\ Urgent \subseteq Msgs /\ Sayings \in Nat
              /\ AtMost \in Nat \ {0} /\ Room \in Nat \ {0} /\ Page \in Nat \ {0}

VARIABLES
  next,     \* what each connection tells next
  holding,  \* the message it answered and has not handed over
  arrived,  \* the channel to the loop
  inbox,    \* About.inbox, oldest first
  dropped,  \* the messages a full inbox let go
  pipe,     \* Heard::Message on its way to the harness
  known,    \* the messages the harness has been told of
  read,     \* and those it has read
  byId,     \* whether the harness names what it has read, or counts what it has not
  told,     \* Told::Doing on its way to the loop
  sayings,  \* how many it has sent
  paging    \* the tool that reads the inbox: rows seen, what they were, what was there at first

vars == <<next, holding, arrived, inbox, dropped, pipe, known, read, told, sayings, byId, paging>>
harness == <<known, read, sayings, byId>>

Init ==
  /\ next = [c \in Callers |-> 1] /\ holding = [c \in Callers |-> NoMessage]
  /\ arrived = <<>> /\ inbox = <<>> /\ dropped = {} /\ pipe = <<>> /\ told = <<>>
  /\ known = {} /\ read = {} /\ sayings = 0 /\ byId \in BOOLEAN
  /\ paging = [at |-> "none", seen |-> 0, got |-> <<>>, first |-> {}]

----------------------------------------------------------------------------
\* serving/talking.rs

\* tell: the id goes back to the sender.
Tell(c) ==
  /\ next[c] <= Len(Said[c]) /\ holding[c] = NoMessage
  /\ holding' = [holding EXCEPT ![c] = Said[c][next[c]]]
  /\ next' = [next EXCEPT ![c] = @ + 1]
  /\ UNCHANGED <<arrived, inbox, dropped, pipe, harness, told, paging>>

\* As it would be if a message that finds the channel full were let go.
DeliverOrDrop(c) ==
  /\ holding[c] # NoMessage
  /\ arrived' = IF Len(arrived) < Room THEN Append(arrived, holding[c]) ELSE arrived
  /\ holding' = [holding EXCEPT ![c] = NoMessage]
  /\ UNCHANGED <<next, inbox, dropped, pipe, harness, told, paging>>

\* deliver waits for room, and the connection with it.
Deliver(c) ==
  /\ holding[c] # NoMessage /\ Len(arrived) < Room
  /\ arrived' = Append(arrived, holding[c])
  /\ holding' = [holding EXCEPT ![c] = NoMessage]
  /\ UNCHANGED <<next, inbox, dropped, pipe, harness, told, paging>>

----------------------------------------------------------------------------
\* answering/keeping.rs and the loop

\* As it would be if a full inbox let the oldest go, whatever it is.
KeptOldest(held, m) == LET all == Append(held, m) IN IF Len(all) > AtMost THEN Tail(all) ELSE all

\* kept: the oldest that does not interrupt goes, the newcomer included, and the oldest if all do.
Kept(held, m) ==
  LET all  == Append(held, m)
      idle == {i \in DOMAIN all : all[i] \notin Urgent}
  IN IF Len(all) <= AtMost THEN all
     ELSE RemoveAt(all, IF idle = {} THEN 1 ELSE CHOOSE i \in idle : \A j \in idle : i <= j)

Beyond(held, waiting) == IF Len(held) > waiting THEN Len(held) - waiting ELSE 0

\* consumed: by id, or the oldest beyond the number still unread.
Consumed(held, said) ==
  IF byId THEN Retain(held, {i \in DOMAIN held : held[i] \notin said.ids})
  ELSE SubSeq(held, Beyond(held, said.waiting) + 1, Len(held))

\* The loop takes a message: said to the harness, and kept.
Take ==
  /\ arrived # <<>>
  /\ arrived' = Tail(arrived)
  /\ pipe' = Append(pipe, Head(arrived))
  /\ inbox' = Kept(inbox, Head(arrived))
  /\ dropped' = dropped \cup ((ToSet(inbox) \cup {Head(arrived)}) \ ToSet(inbox'))
  /\ UNCHANGED <<next, holding, harness, told, paging>>

\* The loop takes Told::Doing.
TakeTold ==
  /\ told # <<>>
  /\ told' = Tail(told)
  /\ inbox' = Consumed(inbox, Head(told))
  /\ UNCHANGED <<next, holding, arrived, dropped, pipe, harness, paging>>

----------------------------------------------------------------------------
\* The harness at the other end of the pipe

Hear ==
  /\ pipe # <<>>
  /\ known' = known \cup {Head(pipe)} /\ pipe' = Tail(pipe)
  /\ UNCHANGED <<next, holding, arrived, inbox, dropped, read, told, sayings, byId, paging>>

\* It reads some of what it has and says so.
Say ==
  /\ sayings < Sayings /\ sayings' = sayings + 1
  /\ \E some \in (SUBSET (known \ read)) \ {{}} :
       /\ read' = read \cup some
       /\ told' = Append(told, [ids |-> some, waiting |-> Cardinality(known \ read')])
  /\ UNCHANGED <<next, holding, arrived, inbox, dropped, pipe, known, byId, paging>>

----------------------------------------------------------------------------
\* directory::inbox_of

Open ==
  /\ paging.at = "none" /\ inbox # <<>>
  /\ paging' = [at |-> "open", seen |-> 0, got |-> <<>>, first |-> ToSet(inbox)]
  /\ UNCHANGED <<next, holding, arrived, inbox, dropped, pipe, harness, told>>

\* paged: the rows from skip on.
Paged(held, skip) == SubSeq(held, skip + 1, IF skip + Page < Len(held) THEN skip + Page ELSE Len(held))

\* A page at a time, until one comes back empty.
Turn ==
  /\ paging.at = "open"
  /\ LET rows == Paged(inbox, paging.seen)
     IN paging' = IF rows = <<>> THEN [paging EXCEPT !.at = "done"]
                  ELSE [paging EXCEPT !.seen = @ + Len(rows), !.got = @ \o rows]
  /\ UNCHANGED <<next, holding, arrived, inbox, dropped, pipe, harness, told>>

Next == \/ \E c \in Callers : Tell(c) \/ Deliver(c)
        \/ Take \/ TakeTold \/ Hear \/ Say \/ Open \/ Turn

Spec == Init /\ [][Next]_vars

----------------------------------------------------------------------------
\* Properties

\* The shape of every variable, and its bounds: an inbox holds AtMost, the channel Room.
TypeOK ==
  /\ next \in [Callers -> Nat] /\ holding \in [Callers -> Msgs \cup {NoMessage}]
  /\ arrived \in Seq(Msgs) /\ Len(arrived) <= Room
  /\ inbox \in Seq(Msgs) /\ Len(inbox) <= AtMost
  /\ pipe \in Seq(Msgs) /\ dropped \subseteq Msgs
  /\ known \subseteq Msgs /\ read \subseteq known /\ sayings \in 0..Sayings
  /\ byId \in BOOLEAN
  /\ told \in Seq([ids : SUBSET Msgs, waiting : Nat])
  /\ paging.seen = Len(paging.got) /\ paging.got \in Seq(Msgs) /\ paging.first \subseteq Msgs

\* A message leaves the inbox because it was read, or because the inbox was full, and for nothing
\* else: what a harness named as read is taken out, however many have come since it did.  A
\* harness that counts may count before it knows of the newest, and lose one unread.
NothingUnreadTaken ==
  byId => \A m \in known \cup ToSet(pipe) : m \in ToSet(inbox) \cup read \cup dropped

\* A full inbox lets a cry for help go only where it holds nothing else.
UrgentStays == \A m \in Urgent \cap (dropped' \ dropped) : ToSet(inbox) \subseteq Urgent

\* What one connection tells stays in the order it told it, in the inbox and on the way there.
InOrder ==
  \A c \in Callers : \A i, j \in DOMAIN Said[c] :
    i < j => LET way == inbox \o arrived
             IN \A k, l \in DOMAIN way : way[k] = Said[c][i] /\ way[l] = Said[c][j] => k < l

\* A message whose id was said back to its sender is on its way to the harness or with it, and
\* not only in an inbox that may let it go.
NoneLost ==
  \A c \in Callers : \A i \in 1..next[c] - 1 :
    Said[c][i] \in {holding[c]} \cup ToSet(arrived) \cup ToSet(pipe) \cup known
=============================================================================
