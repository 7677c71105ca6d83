-------------------------------- MODULE Signals --------------------------------
(***************************************************************************)
(* What a session, Me, is told of the sessions it waits for: its children, *)
(* its parent and whom it watches.  A thread of its own looks round every  *)
(* two seconds: it lists the project, asks each that listens for its       *)
(* status and then reads its notes, and puts the roster into a channel;    *)
(* the loop compares it with the last one it showed.  Meanwhile those      *)
(* sessions come, change phase, are taken on by others, end, are killed    *)
(* and are swept by whoever lists the project, and their names pass on.    *)
(*                                                                         *)
(* Of a row the status' phase and whether its parent note names Me are     *)
(* kept.  Coming up and sweeping are SocketLease's, here a few steps.      *)
(***************************************************************************)
EXTENDS Naturals, Sequences

CONSTANTS
  Ids,       \* the other sessions' names
  Nobody,    \* no session
  Phases,    \* what a harness may say it is in; "lost" is a word of the loop's own
  NoPhase,   \* a harness that has not said
  Room,   \* rosters the channel holds
  Tools,     \* tool processes of Me that may watch or unwatch
  Lives,     \* bounds: how often a name is taken,
  Turns      \* and how many phases are entered, adoptions answered, tools begun and dials missed

SignalsKinds ==
  /\ Ids \subseteq Nat /\ Nobody \notin Ids /\ NoPhase \notin Phases /\ "lost" \notin Phases
  /\ {Room, Lives, Turns} \subseteq Nat /\ Room > 0

VARIABLES
  life,     \* of each name: "none", "coming", "up", "leaving", or "dead" with its files there
  mine,     \* the names whose .parent note names Me
  phase,    \* what each would say
  over,     \* Me's own .parent note
  watched,  \* Me's .watches note
  tool,     \* each tool's: it begins, writes a set, or is over
  look, todo, got, rows, known,  \* the poller's: its stage, names to go, status, roster, last said
  channel,
  listed,   \* the roster the loop showed last
  above,    \* Me's parent, as the loop last read it
  heard,    \* history: the last signal of each name, a phase or "lost", and how many phases
  said,
  lives, made, turns,  \* history: how often a name was taken, phases entered under it; all turns
  born,     \* history: the names whose present or last session started as Me's child
  torn,     \* history: names whose note went between their session's last look and the note's read
  excused   \* history: names that passed on while shown, or to another parent, or are not watched

world == <<life, mine, phase, over, watched, tool>>
poller == <<look, todo, got, rows, known>>
ghosts == <<lives, made, turns, born, torn, excused>>
vars == <<world, poller, channel, listed, above, heard, said, ghosts>>

Empty == <<>>

Init ==
  /\ life = [x \in Ids |-> "none"] /\ mine = {} /\ phase = [x \in Ids |-> NoPhase]
  /\ over = Nobody /\ watched = {} /\ tool = [t \in Tools |-> <<"begins">>]
  /\ look = "resting" /\ todo = {} /\ got = NoPhase /\ rows = Empty
  /\ known = [x \in Ids |-> NoPhase]
  /\ channel = <<>> /\ listed = Empty /\ above = Nobody
  /\ heard = [x \in Ids |-> NoPhase] /\ said = [x \in Ids |-> 0]
  /\ lives = [x \in Ids |-> 0] /\ made = [x \in Ids |-> 0] /\ turns = 0
  /\ born = {} /\ torn = {} /\ excused = {}

Listening == {x \in Ids : life[x] \in {"coming", "up", "leaving"}}

\* Where the loop, or a roster on its way to it, still has a name.
Shown == DOMAIN listed \cup DOMAIN rows \cup todo \cup UNION {DOMAIN channel[i] : i \in DOMAIN channel}

----------------------------------------------------------------------------
\* The other sessions

Turn == turns < Turns /\ turns' = turns + 1

\* bind: over what a dead holder of the name left, its note included.
Start(x) ==
  /\ life[x] \in {"none", "dead"} /\ lives[x] < Lives
  /\ life' = [life EXCEPT ![x] = "coming"]
  /\ lives' = [lives EXCEPT ![x] = @ + 1]
  /\ born' = born \ {x}
  /\ excused' = IF x \in Shown THEN excused \cup {x} ELSE excused
  /\ UNCHANGED <<mine, phase, over, watched, tool, poller, channel, listed, above, heard, said, made, turns, torn>>

\* announce: as a child of Me or not.
Announce(x) ==
  /\ life[x] = "coming"
  /\ life' = [life EXCEPT ![x] = "up"]
  /\ \/ mine' = mine \cup {x} /\ born' = born \cup {x}
     \/ mine' = mine \ {x} /\ UNCHANGED born
  /\ UNCHANGED <<phase, over, watched, tool, poller, channel, listed, above, heard, said,
                 lives, made, turns, torn, excused>>

\* Its harness says which phase it is in.
Enter(x) ==
  /\ life[x] = "up" /\ Turn
  /\ \E p \in Phases \ {phase[x]} : phase' = [phase EXCEPT ![x] = p]
  /\ made' = [made EXCEPT ![x] = @ + 1]
  /\ UNCHANGED <<life, mine, over, watched, tool, poller, channel, listed, above, heard, said,
                 lives, born, torn, excused>>

\* adopted, of x: by Me, or away from Me.
Graft(x) ==
  /\ life[x] = "up" /\ Turn
  /\ mine' = IF x \in mine THEN mine \ {x} ELSE mine \cup {x}
  /\ excused' = excused \cup {x}
  /\ UNCHANGED <<life, phase, over, watched, tool, poller, channel, listed, above, heard, said,
                 lives, made, born, torn>>

\* forget and then release: the notes go while the socket is listened on, though by nobody who
\* would answer.
Forget(x) ==
  /\ life[x] = "up"
  /\ life' = [life EXCEPT ![x] = "leaving"] /\ mine' = mine \ {x}
  /\ UNCHANGED <<phase, over, watched, tool, poller, channel, listed, above, heard, said, ghosts>>

Release(x) ==
  /\ life[x] = "leaving"
  /\ life' = [life EXCEPT ![x] = "none"] /\ phase' = [phase EXCEPT ![x] = NoPhase]
  /\ UNCHANGED <<mine, over, watched, tool, poller, channel, listed, above, heard, said, ghosts>>

Kill(x) ==
  /\ x \in Listening
  /\ life' = [life EXCEPT ![x] = "dead"] /\ phase' = [phase EXCEPT ![x] = NoPhase]
  /\ UNCHANGED <<mine, over, watched, tool, poller, channel, listed, above, heard, said, ghosts>>

\* forget_id, by whoever else lists the project.
Sweep(x) ==
  /\ life[x] = "dead"
  /\ life' = [life EXCEPT ![x] = "none"] /\ mine' = mine \ {x}
  /\ UNCHANGED <<phase, over, watched, tool, poller, channel, listed, above, heard, said, ghosts>>

\* adopted, of Me.
Adopted(x) ==
  /\ x \in Listening \ {over} /\ Turn
  /\ over' = x
  /\ excused' = excused \cup ({over} \cap Ids)
  /\ UNCHANGED <<life, mine, phase, watched, tool, poller, channel, listed, above, heard, said,
                 lives, made, born, torn>>

----------------------------------------------------------------------------
\* Me's tools: watch and unwatch read the note, and write it whole.

ReadWatches(t, x) ==
  /\ tool[t] = <<"begins">> /\ Turn
  /\ \E set \in {watched \cup {x}, watched \ {x}} : tool' = [tool EXCEPT ![t] = <<"writes", set>>]
  /\ UNCHANGED <<life, mine, phase, over, watched, poller, channel, listed, above, heard, said,
                 lives, made, born, torn, excused>>

WriteWatches(t) ==
  /\ tool[t][1] = "writes"
  /\ watched' = tool[t][2]
  /\ tool' = [tool EXCEPT ![t] = <<"over">>]
  /\ excused' = excused \cup (watched \ watched')
  /\ UNCHANGED <<life, mine, phase, over, poller, channel, listed, above, heard, said,
                 lives, made, turns, born, torn>>

----------------------------------------------------------------------------
\* The poller

Next1 == CHOOSE x \in todo : \A y \in todo : x <= y
On(rest) == IF rest = {} THEN "sending" ELSE "dialling"

\* listing, which sweeps the dead and notes without a socket; what was known of others goes.
List ==
  /\ look = "resting"
  /\ todo' = Listening
  /\ life' = [x \in Ids |-> IF life[x] = "dead" THEN "none" ELSE life[x]]
  /\ mine' = mine \cap Listening
  /\ known' = [x \in Ids |-> IF x \in Listening THEN known[x] ELSE NoPhase]
  /\ rows' = Empty
  /\ look' = On(Listening)
  /\ UNCHANGED <<phase, over, watched, tool, got, channel, listed, above, heard, said, ghosts>>

\* status_of, answered in time: the one thread of a session that runs its tasks is not in forget.
Answer ==
  /\ look = "dialling" /\ life[Next1] = "up"
  /\ got' = phase[Next1]
  /\ known' = [known EXCEPT ![Next1] = phase[Next1]]
  /\ look' = "reading"
  /\ UNCHANGED <<world, todo, rows, channel, listed, above, heard, said, ghosts>>

\* As it would be if a peer that did not answer were read as one that says nothing.
SilentForgotten ==
  /\ look = "dialling"
  /\ IF life[Next1] = "up" THEN Turn ELSE UNCHANGED turns
  /\ got' = NoPhase
  /\ look' = "reading"
  /\ UNCHANGED <<world, todo, rows, known, channel, listed, above, heard, said,
                 lives, made, born, torn, excused>>

\* status_of, not answered in time, refused, or held to be refused still.
Silent ==
  /\ look = "dialling"
  /\ IF life[Next1] = "up" THEN Turn ELSE UNCHANGED turns
  /\ got' = known[Next1]
  /\ look' = "reading"
  /\ UNCHANGED <<world, todo, rows, known, channel, listed, above, heard, said,
                 lives, made, born, torn, excused>>

\* The notes of the row.
Read ==
  /\ look = "reading"
  /\ rows' = [x \in DOMAIN rows \cup {Next1} |->
                IF x = Next1 THEN [child |-> x \in mine, phase |-> got] ELSE rows[x]]
  /\ todo' = todo \ {Next1}
  /\ look' = On(todo') /\ got' = NoPhase
  /\ torn' = IF Next1 \in born \ mine THEN torn \cup {Next1} ELSE torn
  /\ UNCHANGED <<world, known, channel, listed, above, heard, said, lives, made, turns, born, excused>>

Send ==
  /\ look = "sending" /\ Len(channel) < Room
  /\ channel' = Append(channel, rows)
  /\ look' = "resting" /\ rows' = Empty
  /\ UNCHANGED <<world, todo, got, known, listed, above, heard, said, ghosts>>

----------------------------------------------------------------------------
\* The loop

Over == {"gone", "finished"}

Kin(x, row) == row.child \/ x = above \/ x \in watched

\* As it would be if whose child it was were read off the notes as they are now.
LostByNotes(was, now) ==
  {x \in DOMAIN was \ DOMAIN now : /\ x \in mine \cup watched \cup {above}
                                    /\ was[x].phase \notin Over}

\* signal_changes: who entered a phase, and who left the roster before its work was over.
Moved(was, now) ==
  {x \in DOMAIN now : /\ Kin(x, now[x]) /\ now[x].phase # NoPhase
                      /\ x \in DOMAIN was => was[x].phase # now[x].phase}
Lost(was, now) ==
  {x \in DOMAIN was \ DOMAIN now : Kin(x, was[x]) /\ was[x].phase \notin Over}

\* As it would be if a roster that only lacks somebody were not a change.
TakeShrunkUnseen ==
  /\ channel # <<>>
  /\ channel' = Tail(channel)
  /\ LET now == Head(channel) IN
     IF \A x \in DOMAIN now : x \in DOMAIN listed /\ now[x] = listed[x]
     THEN UNCHANGED <<listed, heard, said>>
     ELSE /\ listed' = now
          /\ heard' = [x \in Ids |-> IF x \in Moved(listed, now) THEN now[x].phase
                                     ELSE IF x \in Lost(listed, now) THEN "lost" ELSE heard[x]]
          /\ said' = [x \in Ids |-> IF x \in Moved(listed, now) THEN said[x] + 1 ELSE said[x]]
  /\ UNCHANGED <<world, poller, above, ghosts>>

\* A roster comes out of the channel: signals, and then the roster shown, if it is another.
Take ==
  /\ channel # <<>>
  /\ channel' = Tail(channel)
  /\ LET now == Head(channel) IN
     IF now = listed THEN UNCHANGED <<listed, heard, said>>
     ELSE /\ listed' = now
          /\ heard' = [x \in Ids |-> IF x \in Moved(listed, now) THEN now[x].phase
                                     ELSE IF x \in Lost(listed, now) THEN "lost" ELSE heard[x]]
          /\ said' = [x \in Ids |-> IF x \in Moved(listed, now) THEN said[x] + 1 ELSE said[x]]
  /\ UNCHANGED <<world, poller, above, ghosts>>

\* The sweep tick: the parent is read again.
Tick ==
  /\ above # over
  /\ above' = over
  /\ UNCHANGED <<world, poller, channel, listed, heard, said, ghosts>>

----------------------------------------------------------------------------
Others ==
  \E x \in Ids : \/ Start(x) \/ Announce(x) \/ Enter(x) \/ Graft(x) \/ Forget(x) \/ Release(x)
                 \/ Kill(x) \/ Sweep(x) \/ Adopted(x)
Watching == \E t \in Tools : WriteWatches(t) \/ \E x \in Ids : ReadWatches(t, x)
Poll == List \/ Answer \/ Silent \/ Read \/ Send
Loop == Take \/ Tick

Next == Others \/ Watching \/ Poll \/ Loop

\* The poller's calls all have a time limit, and the loop takes what comes.
Fairness ==
  /\ WF_vars(List) /\ WF_vars(Answer \/ Silent) /\ WF_vars(Read) /\ WF_vars(Send) /\ WF_vars(Take)

Spec == Init /\ [][Next]_vars /\ Fairness

----------------------------------------------------------------------------
\* Properties

\* Whoever was last said to be in the middle of its work and is no longer shown.
WaitedFor == {x \in Ids \ DOMAIN listed : heard[x] \in Phases \ Over}

\* signal_changes: a session that Me was told is at work, and that is shown no more, was said to be
\* finished or lost; nobody is waited on for ever.
Vanished == WaitedFor \subseteq excused

\* The same where no session goes between the poller's dial of it and its look at the notes.
LostTold == WaitedFor \subseteq excused \cup torn

\* signal_changes: only a real change fires.  A look that is not answered, a roster that comes late
\* and a name that passes on raise no signal beside those of the phases entered.
OnlyRealChanges == \A x \in Ids : said[x] <= made[x]

\* What Me was told of its child is in the end what the child says, or that it is gone.
CatchesUp ==
  \A x \in Ids :
    /\ \A p \in Phases : <>[](life[x] = "up" /\ x \in born /\ phase[x] = p)
                           => <>[](heard[x] = p \/ x \in excused \cup torn)
    /\ <>[](life[x] \in {"none", "dead"}) => <>[](x \notin WaitedFor \cup DOMAIN listed \/ x \in excused \cup torn)
=============================================================================
