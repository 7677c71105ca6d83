---------------------------------- MODULE Roles ----------------------------------
(***************************************************************************)
(* What a session is for: a name and a sentence, said when it is launched  *)
(* and again while it runs, by itself or by who started it (Calls has who  *)
(* may).  It is kept twice, in the note everybody routes by, written in    *)
(* place, and, the name alone, in what the session answers with.  The      *)
(* answer comes first, then the word goes through a channel to the loop,   *)
(* which writes the note and then its copy.                                *)
(*                                                                         *)
(* This is one name in the directory and the sessions that have it, one    *)
(* after another.                                                          *)
(***************************************************************************)
EXTENDS Naturals, Sequences

CONSTANTS
  Records,     \* what may be said: a name and a sentence
  Main,        \* what a session is for when nobody says
  Nowhere,     \* no record
  Connections, \* the connections a session answers on at once
  Room,        \* the channel's
  Sayings,     \* how often a session is told, at most
  Holders      \* how many sessions have the name

RoleKinds ==
  /\ Main \in Records /\ Nowhere \notin Records /\ Room \in Nat \ {0}
  /\ {Sayings, Holders} \subseteq Nat
  /\ \A role \in Records : role.name # ""  \* Role::new: an empty one is main

VARIABLES
  stage,    \* down, bound, writing or serving
  life,     \* how many had the name
  note,     \* the .role note
  launch,   \* what the session was launched for
  copy,     \* About.me.role
  queue,    \* the channel named
  loop,     \* what the loop is writing
  conn,     \* each connection
  count,    \* how often it was told
  shown,    \* the last answer to an identity: a name and a sentence, and if a note changed meanwhile
  said,     \* history: what this session was launched for and what it took
  order,    \* history: the last word each connection was given its answer to
  broken    \* history: whether a note of this session could not be written

vars == <<stage, life, note, launch, copy, queue, loop, conn, count, shown, said, order, broken>>
local == <<queue, loop, conn, count, shown>>

Torn == [name |-> "", said |-> ""]
Idle == [does |-> "nothing"]
Unshown == [name |-> "", said |-> "", changed |-> TRUE]

Quiet ==
  /\ queue' = <<>> /\ loop' = Nowhere /\ conn' = [c \in Connections |-> Idle]
  /\ count' = 0 /\ shown' = Unshown

Init ==
  /\ stage = "down" /\ life = 0 /\ note = Nowhere /\ launch = Main /\ copy = Main.name
  /\ queue = <<>> /\ loop = Nowhere /\ conn = [c \in Connections |-> Idle]
  /\ count = 0 /\ shown = Unshown
  /\ said = {} /\ order = [c \in Connections |-> Nowhere] /\ broken = FALSE

\* Role::read and role_in: an empty note says nothing.
Reads == IF note \in {Nowhere, Torn} THEN Main ELSE note

\* resolve: the flag, the environment or the config, and whichever speaks first is taken whole.
Resolve(asked, inherited, configured) ==
  IF asked # Nowhere THEN asked
  ELSE IF inherited # Nowhere THEN inherited
  ELSE IF configured # Nowhere THEN configured
  ELSE Main

\* Every identity that is being put together sees the note change.
Changes ==
  conn' = [c \in Connections |->
             IF conn[c].does = "shows" THEN [conn[c] EXCEPT !.changed = TRUE] ELSE conn[c]]

----------------------------------------------------------------------------
\* main.rs: coming up

Bind(asked, inherited, configured) ==
  /\ stage = "down" /\ life < Holders
  /\ stage' = "bound" /\ life' = life + 1
  /\ launch' = Resolve(asked, inherited, configured) /\ copy' = launch'.name
  /\ said' = {launch'} /\ order' = [c \in Connections |-> Nowhere] /\ broken' = FALSE
  /\ UNCHANGED <<note, local>>

\* As it would be if a note that is there were left as it is.
AnnounceOver ==
  /\ stage = "bound"
  /\ IF note = Nowhere THEN stage' = "writing" /\ note' = Torn ELSE stage' = "serving" /\ UNCHANGED note
  /\ UNCHANGED <<life, launch, copy, local, said, order, broken>>

\* announce: the note is emptied and written ...
Announce ==
  /\ stage = "bound" /\ stage' = "writing" /\ note' = Torn
  /\ UNCHANGED <<life, launch, copy, local, said, order, broken>>

Announced ==
  /\ stage = "writing" /\ stage' = "serving" /\ note' = launch
  /\ UNCHANGED <<life, launch, copy, local, said, order, broken>>

\* ... or cannot be, and the session does not come up; what is there stays.
AnnounceFails ==
  /\ stage \in {"bound", "writing"} /\ stage' = "down"
  /\ UNCHANGED <<life, note, launch, copy, local, said, order, broken>>

----------------------------------------------------------------------------
\* answering.rs and talking.rs

\* A role from who may say it: answered, and then handed on.
Told(c, role) ==
  /\ stage = "serving" /\ conn[c].does = "nothing" /\ count < Sayings
  /\ conn' = [conn EXCEPT ![c] = [does |-> "tells", role |-> role]]
  /\ order' = [order EXCEPT ![c] = role] /\ count' = count + 1
  /\ UNCHANGED <<stage, life, note, launch, copy, queue, loop, shown, said, broken>>

Deliver(c) ==
  /\ conn[c].does = "tells" /\ Len(queue) < Room
  /\ queue' = Append(queue, conn[c].role) /\ conn' = [conn EXCEPT ![c] = Idle]
  /\ said' = said \cup {conn[c].role}
  /\ UNCHANGED <<stage, life, note, launch, copy, loop, count, shown, order, broken>>

\* identity: the name is the copy's, taken as the call is read; the sentence is the note's, read
\* by another thread later.
Identify(c) ==
  /\ stage = "serving" /\ conn[c].does = "nothing" /\ shown = Unshown
  /\ conn' = [conn EXCEPT ![c] = [does |-> "shows", name |-> copy, changed |-> loop # Nowhere]]
  /\ UNCHANGED <<stage, life, note, launch, copy, queue, loop, count, shown, said, order, broken>>

Show(c) ==
  /\ conn[c].does = "shows"
  /\ shown' = [name |-> conn[c].name, said |-> Reads.said, changed |-> conn[c].changed]
  /\ conn' = [conn EXCEPT ![c] = Idle]
  /\ UNCHANGED <<stage, life, note, launch, copy, queue, loop, count, said, order, broken>>

----------------------------------------------------------------------------
\* main.rs: the loop's arm

\* As it would be if the word that came last were taken first.
TakeLast ==
  /\ stage = "serving" /\ loop = Nowhere /\ queue # <<>>
  /\ loop' = queue[Len(queue)] /\ queue' = SubSeq(queue, 1, Len(queue) - 1)
  /\ note' = Torn /\ Changes
  /\ UNCHANGED <<stage, life, launch, copy, count, shown, said, order, broken>>

Take ==
  /\ stage = "serving" /\ loop = Nowhere /\ queue # <<>>
  /\ loop' = Head(queue) /\ queue' = Tail(queue)
  /\ note' = Torn /\ Changes
  /\ UNCHANGED <<stage, life, launch, copy, count, shown, said, order, broken>>

\* The note cannot be opened: it stays as it is, and so does the copy.
TakeFails ==
  /\ stage = "serving" /\ loop = Nowhere /\ queue # <<>>
  /\ queue' = Tail(queue) /\ broken' = TRUE
  /\ UNCHANGED <<stage, life, note, launch, copy, loop, conn, count, shown, said, order>>

\* The note first, then the copy.
Given ==
  /\ loop # Nowhere /\ note' = loop /\ copy' = loop.name /\ loop' = Nowhere /\ Changes
  /\ UNCHANGED <<stage, life, launch, queue, count, shown, said, order, broken>>

\* Or it cannot be written: it is left empty, and the copy as it was.
GivenFails ==
  /\ loop # Nowhere /\ loop' = Nowhere /\ broken' = TRUE
  /\ UNCHANGED <<stage, life, note, launch, copy, queue, conn, count, shown, said, order>>

----------------------------------------------------------------------------
\* forget takes the note away; a session that is killed leaves it, and so a word half written,
\* until somebody sweeps (SocketLease has when that is) or the name is had again.
End ==
  /\ stage = "serving" /\ loop = Nowhere
  /\ stage' = "down" /\ note' = Nowhere /\ Quiet
  /\ UNCHANGED <<life, launch, copy, said, order, broken>>

Killed ==
  /\ stage # "down" /\ stage' = "down" /\ Quiet
  /\ UNCHANGED <<life, note, launch, copy, said, order, broken>>

Swept ==
  /\ stage = "down" /\ note # Nowhere /\ note' = Nowhere
  /\ UNCHANGED <<stage, life, launch, copy, local, said, order, broken>>

Next ==
  \/ \E asked, inherited, configured \in Records \cup {Nowhere} : Bind(asked, inherited, configured)
  \/ Announce \/ Announced \/ AnnounceFails
  \/ \E c \in Connections :
       \/ \E role \in Records : Told(c, role)
       \/ Deliver(c) \/ Identify(c) \/ Show(c)
  \/ Take \/ TakeFails \/ Given \/ GivenFails
  \/ End \/ Killed \/ Swept

----------------------------------------------------------------------------
\* Properties

\* The shape of every variable.
TypeOK ==
  /\ stage \in {"down", "bound", "writing", "serving"} /\ life \in 0..Holders
  /\ note \in Records \cup {Nowhere, Torn} /\ loop \in Records \cup {Nowhere}
  /\ queue \in Seq(Records) /\ Len(queue) <= Room /\ count \in 0..Sayings

\* Whoever is served under a name is listed by what it was launched for or was told itself, never
\* by what an earlier session of the name was.
NoteIsItsOwn == stage = "serving" => note \in said \cup {Torn}

\* Once nothing is under way the note and the copy agree, and where one connection has done all
\* the telling they say what it was told last.
LastWordStands ==
  stage = "serving" /\ loop = Nowhere /\ queue = <<>> /\ ~broken
  /\ (\A c \in Connections : conn[c].does # "tells") =>
    /\ note.name = copy
    /\ \A c \in Connections :
         order[c] # Nowhere /\ (\A d \in Connections \ {c} : order[d] = Nowhere) => note = order[c]

\* A name and a sentence are shown together only as they were said together, where the note was
\* not being changed meanwhile.
ShownWhole ==
  ~shown.changed /\ ~broken => \E role \in said : shown.name = role.name /\ shown.said = role.said
=============================================================================
