--------------------------------- MODULE Sending ---------------------------------
(***************************************************************************)
(* How much one session may say in a window of time, counted twice: by the *)
(* tools that speak for it, which are a process each and share a note on   *)
(* disk, and by the session they speak to, which counts in its own memory. *)
(*                                                                         *)
(*   sending::allow        reads the note, forgets what is too old, refuses *)
(*                         an echo or one too many, and writes it back     *)
(*   keeping::heard_from   the same count of one sender, under a lock      *)
(*                                                                         *)
(* The note is read and written by whoever comes, and a write empties the  *)
(* file before it fills it.                                                *)
(***************************************************************************)
EXTENDS Integers, SequencesExt, Retaining

CONSTANTS
  Tools,     \* the tool processes of one session
  Marks,     \* verb, peer and text, as far as they tell two sends apart
  Tries,     \* how many sends they try; bounds the model
  InAWindow, \* IN_A_WINDOW
  Window,    \* WINDOW, in ticks
  MaxTime    \* bounds the model

SendingKinds ==
  Tries \in Nat /\ InAWindow \in Nat \ {0} /\ Window \in Nat \ {0} /\ MaxTime \in Nat

VARIABLES
  now,
  up,    \* whether the session's own socket answers
  note,  \* <id>.sent: a sequence of sends, empty where there is none
  tool,  \* where each tool is, and what it holds of the note
  tries, \* how many have begun
  sent,  \* every send that was let go, in order
  heard, \* HEARD of the peer, for this sender
  taken, \* when the peer took each message, in order
  apart  \* whether the note was always one tool's at a time, and there until it was done

vars == <<now, up, note, tool, tries, sent, heard, taken, apart>>

Idle == [at |-> "idle", held |-> <<>>]

Init ==
  /\ now = 0 /\ up = TRUE /\ note = <<>>
  /\ tool = [t \in Tools |-> Idle] /\ tries = 0
  /\ sent = <<>> /\ heard = <<>> /\ taken = <<>> /\ apart = TRUE

At(t, place) == tool[t].at = place
Moves(t, place) == tool' = [tool EXCEPT ![t].at = place]
AtNote(t) == tool[t].at \in {"reading", "emptying", "filling"}
\* Those of some sends that are not too old to count.
Fresh(sends) == Retain(sends, {i \in DOMAIN sends : now - sends[i].at < Window})
FreshTimes(times) == Retain(times, {i \in DOMAIN times : now - times[i] < Window})

----------------------------------------------------------------------------
\* sending::allow

\* Nothing is recorded for a session that is not listening, and nothing refused it.
Begin(t) ==
  /\ At(t, "idle") /\ tries < Tries
  /\ tries' = tries + 1
  /\ Moves(t, IF up THEN "reading" ELSE "saying")
  /\ apart' = (apart /\ (up => \A u \in Tools : ~AtNote(u)))
  /\ UNCHANGED <<now, up, note, sent, heard, taken>>

Echo(held, mark) == \E i \in DOMAIN held : held[i].mark = mark
RoomIn(held) == Len(held) < InAWindow

Allowed(t, held, mark) ==
  tool' = [tool EXCEPT ![t] = [at |-> "emptying",
                               held |-> Append(held, [at |-> now, mark |-> mark])]]

\* As it would be if the window were full one send later.
ReadOver(t, mark) ==
  /\ At(t, "reading")
  /\ LET held == Fresh(note)
     IN IF Echo(held, mark) \/ Len(held) > InAWindow THEN Moves(t, "idle")
        ELSE Allowed(t, held, mark)
  /\ UNCHANGED <<now, up, note, tries, sent, heard, taken, apart>>

Read(t, mark) ==
  /\ At(t, "reading")
  /\ LET held == Fresh(note)
     IN IF Echo(held, mark) \/ ~RoomIn(held) THEN Moves(t, "idle") ELSE Allowed(t, held, mark)
  /\ UNCHANGED <<now, up, note, tries, sent, heard, taken, apart>>

\* std::fs::write: opened empty, and then written from its beginning over whatever another
\* wrote meanwhile.
Empty(t) ==
  /\ At(t, "emptying") /\ note' = <<>> /\ Moves(t, "filling")
  /\ UNCHANGED <<now, up, tries, sent, heard, taken, apart>>

Fill(t) ==
  /\ At(t, "filling")
  /\ LET held == tool[t].held
     IN /\ note' = held \o SubSeq(note, Len(held) + 1, Len(note))
        /\ sent' = Append(sent, Last(held))
  /\ Moves(t, "saying")
  /\ UNCHANGED <<now, up, tries, heard, taken, apart>>

\* A tool is killed at the note.
Killed(t) ==
  /\ AtNote(t) /\ tool' = [tool EXCEPT ![t] = Idle] /\ apart' = FALSE
  /\ UNCHANGED <<now, up, note, tries, sent, heard, taken>>

----------------------------------------------------------------------------
\* keeping::heard_from

\* The send is charged, and nobody is listening.
Unheard(t) ==
  /\ At(t, "saying") /\ tool' = [tool EXCEPT ![t] = Idle]
  /\ UNCHANGED <<now, up, note, tries, sent, heard, taken, apart>>

\* As it would be if the oldest were forgotten to make room.
SayMakesRoom(t) ==
  /\ At(t, "saying")
  /\ LET times == FreshTimes(heard)
     IN /\ heard' = Append(IF Len(times) >= InAWindow THEN Tail(times) ELSE times, now)
        /\ taken' = Append(taken, now)
  /\ tool' = [tool EXCEPT ![t] = Idle]
  /\ UNCHANGED <<now, up, note, tries, sent, apart>>

Say(t) ==
  /\ At(t, "saying")
  /\ LET times == FreshTimes(heard)
     IN IF Len(times) >= InAWindow
        THEN heard' = times /\ UNCHANGED taken
        ELSE heard' = Append(times, now) /\ taken' = Append(taken, now)
  /\ tool' = [tool EXCEPT ![t] = Idle]
  /\ UNCHANGED <<now, up, note, tries, sent, apart>>

----------------------------------------------------------------------------
\* The session, and time

\* The session ends, and takes its note down with it.
End ==
  /\ up /\ up' = FALSE /\ note' = <<>>
  /\ apart' = (apart /\ \A t \in Tools : ~AtNote(t))
  /\ UNCHANGED <<now, tool, tries, sent, heard, taken>>

Tick ==
  /\ now < MaxTime /\ now' = now + 1
  /\ UNCHANGED <<up, note, tool, tries, sent, heard, taken, apart>>

Next == \/ \E t \in Tools : \/ Begin(t) \/ Empty(t) \/ Fill(t) \/ Killed(t) \/ Say(t) \/ Unheard(t)
                            \/ \E m \in Marks : Read(t, m)
        \/ End \/ Tick

Spec == Init /\ [][Next]_vars

----------------------------------------------------------------------------
\* Properties

Sends == [at : 0..MaxTime, mark : Marks]
Places == {"idle", "reading", "emptying", "filling", "saying"}

\* The shape of every variable; neither count grows past what a window may hold.
TypeOK ==
  /\ now \in 0..MaxTime /\ up \in BOOLEAN /\ apart \in BOOLEAN
  /\ ToSet(note) \subseteq Sends /\ Len(note) <= InAWindow
  /\ \A t \in Tools : tool[t].at \in Places /\ Len(tool[t].held) <= InAWindow
  /\ ToSet(sent) \subseteq Sends /\ ToSet(heard) \subseteq 0..MaxTime /\ Len(heard) <= InAWindow

\* While the note is one tool's at a time, a session sends no more than its share in any window,
\* wherever the window begins.
CapKept ==
  apart => \A i, j \in DOMAIN sent : j - i >= InAWindow => sent[j].at - sent[i].at >= Window

\* While it is, nothing is said twice in a window.
NoEcho ==
  apart => \A i, j \in DOMAIN sent :
    i < j /\ sent[i].mark = sent[j].mark => sent[j].at - sent[i].at >= Window

\* However many tools speak at once and whatever they make of the note, the peer takes no more
\* than its share in any window of time.
HeardCap ==
  \A i, j \in DOMAIN taken : j - i >= InAWindow => taken[j] - taken[i] >= Window
=============================================================================
