------------------------------- MODULE Connection -------------------------------
(***************************************************************************)
(* One connection between two sessions: asking.rs at the near end, blocking*)
(* and one call at a time, and serving/talking.rs at the far end.  Nothing *)
(* in a reply says which call it answers; what keeps the two in step is    *)
(* that a near end which did not read a whole reply never uses the         *)
(* connection again.                                                       *)
(***************************************************************************)
EXTENDS Naturals, Sequences

CONSTANTS
  Calls,  \* how many calls the near end makes on the connection
  Newer   \* the calls a newer family answers

ASSUME ConnectionKinds == Calls \in Nat \ {0} /\ Newer \subseteq 1..Calls

VARIABLES
  turn,      \* the call the near end is at
  near,      \* what it is doing: idle, writing or reading
  adrift,    \* Held.adrift
  shut,      \* whether it has shut the connection
  there,     \* the frames on their way to the far end
  back,      \* the replies on their way to the near end
  far,       \* what the far end is doing
  call,      \* the call it has read
  result,    \* what became of each call at the near end
  answered,  \* the calls the far end answered
  done       \* the calls whose Then it delivered

vars == <<turn, near, adrift, shut, there, back, far, call, result, answered, done>>
nearEnd == <<turn, near, adrift, shut, result>>
farEnd == <<far, call, answered, done>>

Pending == 0
Failed  == Calls + 1
Half    == Calls + 2  \* a frame cut short
Busy    == Calls + 3  \* the reply of a session that answers enough callers already

Init ==
  /\ turn = 1 /\ near = "idle" /\ adrift = FALSE /\ shut = FALSE
  /\ there = <<>> /\ back = <<>>
  /\ far \in {"reading", "full"} /\ call = Pending
  /\ result = [c \in 1..Calls |-> Pending]
  /\ answered = {} /\ done = {}

----------------------------------------------------------------------------
\* The near end: Held::ask

Settle(outcome) ==
  /\ result' = [result EXCEPT ![turn] = outcome]
  /\ turn' = turn + 1 /\ near' = "idle"

\* As it would be if a connection that failed were used again.
BeginAnyhow ==
  /\ near = "idle" /\ turn <= Calls
  /\ near' = "writing" /\ adrift' = TRUE /\ UNCHANGED <<turn, result>>
  /\ UNCHANGED <<shut, there, back, farEnd>>

\* A connection that is adrift makes no call.  Adrift from before the first byte is written.
Begin ==
  /\ near = "idle" /\ turn <= Calls
  /\ IF adrift THEN Settle(Failed) /\ UNCHANGED adrift
     ELSE near' = "writing" /\ adrift' = TRUE /\ UNCHANGED <<turn, result>>
  /\ UNCHANGED <<shut, there, back, farEnd>>

Write ==
  /\ near = "writing" /\ far # "closed"
  /\ near' = "reading"
  /\ there' = Append(there, turn)
  /\ UNCHANGED <<turn, adrift, shut, result, back, farEnd>>

\* The patience ends, or the far end has closed, with nothing or half a frame sent.
WriteFails ==
  /\ near = "writing"
  /\ Settle(Failed) /\ shut' = TRUE
  /\ there' \in {there, Append(there, Half)}
  /\ UNCHANGED <<adrift, back, farEnd>>

\* A reply read whole leaves the connection in step, in whatever family it is written.
Read ==
  /\ near = "reading" /\ back # <<>>
  /\ Settle(IF Head(back) \in Newer THEN Failed ELSE Head(back))
  /\ back' = Tail(back)
  /\ adrift' = FALSE
  /\ UNCHANGED <<shut, there, farEnd>>

\* The patience ends, or nothing more is coming.
ReadFails ==
  /\ near = "reading"
  /\ Settle(Failed) /\ shut' = TRUE
  /\ UNCHANGED <<adrift, there, back, farEnd>>

----------------------------------------------------------------------------
\* The far end: accept_from, busy and talk

\* One caller too many is told so, whatever it is about to ask.
TurnAway ==
  /\ far = "full"
  /\ far' = "closed"
  /\ back' = Append(back, Busy)
  /\ UNCHANGED <<nearEnd, there, call, answered, done>>

\* A call is read whole.  What was sent before the near end shut is read all the same.
Hear ==
  /\ far = "reading" /\ there # <<>> /\ Head(there) # Half
  /\ far' = "answering" /\ call' = Head(there)
  /\ there' = Tail(there)
  /\ UNCHANGED <<nearEnd, back, answered, done>>

\* Idle for too long, the rest of a frame for too long, or hung up.
HearNothing ==
  /\ far = "reading"
  /\ far' = "closed"
  /\ UNCHANGED <<nearEnd, there, back, call, answered, done>>

\* As it would be if a call were carried out before its reply is on its way.
AnswerLast ==
  /\ far = "answering"
  /\ done' = done \cup {call} /\ far' = "delivering"
  /\ UNCHANGED <<nearEnd, there, back, call, answered>>

\* The reply is written within its time, unless the near end has shut the connection ...
Answer ==
  /\ far = "answering" /\ ~shut
  /\ far' = "delivering"
  /\ back' = Append(back, call) /\ answered' = answered \cup {call}
  /\ UNCHANGED <<nearEnd, there, call, done>>

\* ... or not, and what the call asked for is not done.
AnswerFails ==
  /\ far = "answering"
  /\ far' = "closed"
  /\ UNCHANGED <<nearEnd, there, back, call, answered, done>>

\* deliver; a stop ends the conversation.
Deliver ==
  /\ far = "delivering"
  /\ far' \in {"reading", "closed"}
  /\ done' = done \cup {call} /\ call' = Pending
  /\ UNCHANGED <<nearEnd, there, back, answered>>

Next == \/ Begin \/ Write \/ WriteFails \/ Read \/ ReadFails
        \/ TurnAway \/ Hear \/ HearNothing \/ Answer \/ AnswerFails \/ Deliver

Spec == Init /\ [][Next]_vars

----------------------------------------------------------------------------
\* Properties

\* The shape of every variable.
TypeOK ==
  /\ turn \in 1..Calls + 1 /\ near \in {"idle", "writing", "reading"}
  /\ adrift \in BOOLEAN /\ shut \in BOOLEAN
  /\ there \in Seq(1..Calls \cup {Half}) /\ back \in Seq(1..Calls \cup {Busy})
  /\ far \in {"reading", "answering", "delivering", "full", "closed"}
  /\ call \in 0..Calls
  /\ result \in [1..Calls -> 0..Busy] /\ answered \subseteq 1..Calls /\ done \subseteq 1..Calls

\* A caller is never given the answer to another call, whatever failed or came late before.
OwnAnswer == \A c \in 1..Calls : result[c] \in {Pending, Failed, Busy, c}

\* A connection on which a reply may still be coming carries no other call.
InStep == near = "writing" => back \in {<<>>, <<Busy>>}

\* The connection keeps what Exchange promises; being turned away counts as a failure there.
Ex == INSTANCE Exchange WITH
        result <- [c \in 1..Calls |-> IF result[c] = Busy THEN Failed ELSE result[c]]

Exchanges == Ex!Spec
=============================================================================
