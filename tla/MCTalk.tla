-------------------------------- MODULE MCTalk --------------------------------
(***************************************************************************)
(* What sessions hear of each other, by its five parts, which share no     *)
(* state: a connection, the inbox at the end of it, what one sender may    *)
(* say in a window, how far work may be handed on, and the signals of a    *)
(* roster.  A behaviour is one of one of them.                             *)
(***************************************************************************)
EXTENDS Connection, TLC

CONSTANTS
  Callers, Said, Urgent, NoMessage, AtMost, Room, Page, Sayings,  \* Inbox
  Tools, Marks, Tries, InAWindow, Window, MaxTime,                 \* Sending
  Agents, Works, HopLimit, Held,                                  \* Handoff
  Peers, Nobody, Phases, NoPhase, Rosters, Watchers, Lives, Turns  \* Signals

VARIABLES
  part,
  next, holding, arrived, inbox, dropped, pipe, known, read, told, sayings, byId, paging,
  now, up, note, tool, tries, sent, heard, taken, apart,
  tasks, doing, begun, missed,
  life, mine, phase, over, watched, writing, look, todo, got, rows, last, queue, listed, above,
  signal, said, lives, made, turns, born, torn, excused

I == INSTANCE Inbox
S == INSTANCE Sending
H == INSTANCE Handoff WITH inbox <- tasks, AtMost <- Held
G == INSTANCE Signals WITH Ids <- Peers, Room <- Rosters, Tools <- Watchers, tool <- writing,
                           known <- last, channel <- queue, heard <- signal

ASSUME TalkKinds == I!InboxKinds /\ S!SendingKinds /\ H!HandoffKinds /\ G!SignalsKinds

CONSTANTS c1, c2, m1, m2, m3, m4

Four == (c1 :> <<m1, m2>>) @@ (c2 :> <<m3, m4>>)

inboxVars == <<next, holding, arrived, inbox, dropped, pipe, known, read, told, sayings, byId, paging>>
sendingVars == <<now, up, note, tool, tries, sent, heard, taken, apart>>
handoffVars == <<tasks, doing, begun, missed>>
signalVars == <<life, mine, phase, over, watched, writing, look, todo, got, rows, last, queue,
                listed, above, signal, said, lives, made, turns, born, torn, excused>>

\* The parts that are left alone are each in one of their initial states.
Begins ==
  /\ Init /\ I!Init /\ S!Init /\ H!Init /\ G!Init
  /\ part \in {"connection", "inbox", "sending", "handoff", "signals"}
  /\ part # "connection" => far = "reading"
  /\ part # "inbox" => byId

Signalling == part = "signals"

Goes ==
  /\ UNCHANGED part
  /\ \/ part = "connection" /\ Next /\ UNCHANGED <<inboxVars, sendingVars, handoffVars, signalVars>>
     \/ part = "inbox" /\ I!Next /\ UNCHANGED <<vars, sendingVars, handoffVars, signalVars>>
     \/ part = "sending" /\ S!Next /\ UNCHANGED <<vars, inboxVars, handoffVars, signalVars>>
     \/ part = "handoff" /\ H!Next /\ UNCHANGED <<vars, inboxVars, sendingVars, signalVars>>
     \/ Signalling /\ G!Next /\ UNCHANGED <<vars, inboxVars, sendingVars, handoffVars>>

\* Fairness is that of Signals; nothing is asked of the others.
Talks ==
  /\ Begins /\ [][Goes]_<<part, vars, inboxVars, sendingVars, handoffVars, signalVars>>
  /\ WF_signalVars(Signalling /\ G!List) /\ WF_signalVars(Signalling /\ (G!Answer \/ G!Silent))
  /\ WF_signalVars(Signalling /\ G!Read) /\ WF_signalVars(Signalling /\ G!Send)
  /\ WF_signalVars(Signalling /\ G!Take)

----------------------------------------------------------------------------
\* Inbox: a message whose id was said back is on its way to the harness or with it, stays in the
\* order its connection told it, and leaves the inbox because it was read, by name, or because
\* the inbox was full.  The connection keeps its shape, and the inbox and the channel to
\* the loop never outgrow their bounds.
Delivered == TypeOK /\ I!TypeOK /\ I!NoneLost /\ I!InOrder /\ I!NothingUnreadTaken

\* Inbox: a full one lets a cry for help go only where it holds nothing else.
UrgentStays == [][I!UrgentStays]_dropped

\* Sending: a session whose tools are at its note one at a time keeps to its share in any window
\* and says nothing twice in one; and whatever becomes of the note, the peer takes no more than a
\* share in any window.
CapKept == S!TypeOK /\ S!CapKept /\ S!NoEcho /\ S!HeardCap

\* Handoff: counted over whole copies of an inbox in which handoffs stay until their work is handed
\* on or done, no work is handed on more than HopLimit times in a row.
StopsInTime == H!TypeOK /\ H!StopsInTime

\* Signals: who was last said to be at work and is shown no more was said to be lost, unless it
\* went between the look at its socket and the look at its notes; and only entering a phase is
\* signalled as that phase.
RightlyTold == G!LostTold /\ G!OnlyRealChanges

\* Signals: what is told of a child comes to be what the child says, or that it is gone.
CatchesUp == Signalling => G!CatchesUp
=============================================================================
