-------------------------------- MODULE Framing --------------------------------
(***************************************************************************)
(* The bytes of one connection: framing.rs, which tells one frame from the *)
(* next by its length alone, under serving/talking.rs at the far end.  At  *)
(* the near end is anything at all, which sends what it likes before it    *)
(* has read a reply, or mind/lua/stream.rs, which makes one call at a time.*)
(*                                                                         *)
(* A byte is a digit of base Most + 1.  A header is two of them, the higher*)
(* first; the body of a call is two, its encoding and what it asks.        *)
(***************************************************************************)
EXTENDS Naturals, Sequences

CONSTANTS
  Most,    \* MOST, the largest body
  Frames   \* how many frames are sent at most

FramingKinds == Most \in Nat /\ Most >= 2 /\ Frames \in Nat \ {0}

VARIABLES
  caller,   \* who is at the near end: anything or stream
  frames,   \* every frame it has begun to send
  line,     \* the bytes on their way to the far end
  hungUp,   \* whether it has shut its end
  heard,    \* what each of its calls came back with
  far,      \* what the far end is doing: idle, rest, closed
  got,      \* what it has of a frame
  back      \* every reply it has written

vars == <<caller, frames, line, hungUp, heard, far, got, back>>
near == <<caller, frames, hungUp, heard>>

Json == 1
Cbor == 2
Plain == 0
NewerFamily == 1
ReplyTooLarge == 2

Calls == {<<0, 2, w, asks>> : w \in {Json, Cbor}, asks \in {Plain, NewerFamily, ReplyTooLarge}}
Empty == <<0, 0>>
Short == <<0, 1, Json>>              \* a body that will not decode
Large == <<1, 0, 0, 2, Json>>        \* as long as it says, and over the cap

Reply(fault, wire) == [fault |-> fault, wire |-> wire]
Half   == Reply("half", Json)      \* written in part
Lost   == Reply("lost", Json)      \* what a call that was given no reply comes back with
Closed == Reply("closed", Json)    \* and one on a connection that is closed

Init ==
  /\ caller \in {"anything", "stream"}
  /\ frames = <<>> /\ line = <<>> /\ hungUp = FALSE /\ heard = <<>>
  /\ far = "idle" /\ got = <<>> /\ back = <<>>

----------------------------------------------------------------------------
\* framing.rs

Expecting(bytes) == bytes[1] * (Most + 1) + bytes[2]

\* expecting: what is too large and what is empty is told from the header, nothing more is read.
Refuses(bytes) == Len(bytes) >= 2 /\ (Expecting(bytes) > Most \/ Expecting(bytes) = 0)

\* read_exact of the header, then of as much as it says.
Whole(bytes) == Len(bytes) >= 2 /\ ~Refuses(bytes) /\ Len(bytes) = 2 + Expecting(bytes)

\* Wire::of and read_any: the encoding by the first byte of the body, and whether it decodes.
Wire(bytes) == IF bytes[3] = Cbor THEN Cbor ELSE Json
Decodes(bytes) == Len(bytes) = 4 /\ bytes[3] \in {Json, Cbor}

Unreadable(bytes) == Refuses(bytes) \/ (Whole(bytes) /\ ~Decodes(bytes))

\* unread: over the cap is a failure, anything else a refusal, both in text.
Unread(bytes) ==
  Reply(IF Expecting(bytes) > Most THEN "failed" ELSE "refused", Json)

\* written: a reply over the cap is replaced, in the encoding of the call.
Written(reply, fits) == IF fits THEN reply ELSE Reply("failed", reply.wire)

\* Arriving::newer: a call of a newer family is refused by name.
Answered(bytes) ==
  IF bytes[4] = NewerFamily THEN Reply("refused", Wire(bytes))
  ELSE Written(Reply("ok", Wire(bytes)), bytes[4] # ReplyTooLarge)

----------------------------------------------------------------------------
\* The near end

\* Anything: whole frames, any of them unreadable, without waiting for a reply.
Send(f) ==
  /\ caller = "anything" /\ ~hungUp /\ Len(frames) < Frames
  /\ frames' = Append(frames, f) /\ line' = line \o f
  /\ UNCHANGED <<caller, hungUp, heard, far, got, back>>

\* Or a part of one, and it is gone.
SendPart(f) ==
  /\ caller = "anything" /\ ~hungUp /\ Len(frames) < Frames
  /\ \E n \in 0..Len(f) - 1 :
       frames' = Append(frames, f) /\ line' = line \o SubSeq(f, 1, n)
  /\ hungUp' = TRUE
  /\ UNCHANGED <<caller, heard, far, got, back>>

Waits == Len(heard) < Len(frames)

\* called: one call is written, in text.  What is over the cap is never begun.
Call(asks) ==
  /\ caller = "stream" /\ ~hungUp /\ ~Waits /\ Len(frames) < Frames
  /\ frames' = Append(frames, <<0, 2, Json, asks>>)
  /\ line' = line \o <<0, 2, Json, asks>>
  /\ UNCHANGED <<caller, hungUp, heard, far, got, back>>

\* The deadline passes or the far end closes with a part of the call written: the slot is emptied.
CallCut(asks) ==
  /\ caller = "stream" /\ ~hungUp /\ ~Waits /\ Len(frames) < Frames
  /\ frames' = Append(frames, <<0, 2, Json, asks>>)
  /\ \E n \in 0..3 : line' = line \o SubSeq(<<0, 2, Json, asks>>, 1, n)
  /\ heard' = Append(heard, Lost) /\ hungUp' = TRUE
  /\ UNCHANGED <<caller, far, got, back>>

\* A whole reply.
Hears ==
  /\ caller = "stream" /\ ~hungUp /\ Waits
  /\ Len(back) > Len(heard) /\ back[Len(heard) + 1] # Half
  /\ heard' = Append(heard, back[Len(heard) + 1])
  /\ UNCHANGED <<caller, frames, line, hungUp, far, got, back>>

\* As it would be if a call that got no reply left the connection open.
HearsNothingAndStays ==
  /\ caller = "stream" /\ ~hungUp /\ Waits
  /\ heard' = Append(heard, Lost)
  /\ UNCHANGED <<caller, frames, line, hungUp, far, got, back>>

\* The deadline passes, or the reply is cut short: the slot is emptied.
HearsNothing ==
  /\ caller = "stream" /\ ~hungUp /\ Waits
  /\ heard' = Append(heard, Lost) /\ hungUp' = TRUE
  /\ UNCHANGED <<caller, frames, line, far, got, back>>

\* A call on a connection that is closed.
CallClosed ==
  /\ caller = "stream" /\ hungUp /\ Len(heard) < Frames
  /\ heard' = Append(heard, Closed)
  /\ UNCHANGED <<caller, frames, line, hungUp, far, got, back>>

\* close, between two calls.
Close ==
  /\ caller = "stream" /\ ~hungUp /\ ~Waits /\ hungUp' = TRUE
  /\ UNCHANGED <<caller, frames, line, heard, far, got, back>>

----------------------------------------------------------------------------
\* The far end: talk and read_wire_within

\* The first byte, which may be long in coming.
First ==
  /\ far = "idle" /\ line # <<>>
  /\ got' = <<Head(line)>> /\ line' = Tail(line) /\ far' = "rest"
  /\ UNCHANGED <<near, back>>

\* The rest of the header, and the rest of the frame.
Rest ==
  /\ far = "rest" /\ line # <<>> /\ ~Refuses(got) /\ ~Whole(got)
  /\ got' = Append(got, Head(line)) /\ line' = Tail(line)
  /\ UNCHANGED <<near, far, back>>

\* Hung up, or too long idle or within a frame: no reply.
Quiet ==
  /\ far \in {"idle", "rest"} /\ ~Refuses(got) /\ ~Whole(got)
  /\ far' = "closed"
  /\ UNCHANGED <<near, line, got, back>>

\* As it would be if a frame that is too large were answered and read past.
UnreadAndOn ==
  /\ far = "rest" /\ Unreadable(got)
  /\ back' = Append(back, Unread(got))
  /\ far' = "idle" /\ got' = <<>>
  /\ UNCHANGED <<near, line>>

\* A frame that is not read is answered if that can be done in time, and is the last.
NotRead ==
  /\ far = "rest" /\ Unreadable(got)
  /\ back' \in {back, Append(back, Unread(got))}
  /\ far' = "closed" /\ got' = <<>>
  /\ UNCHANGED <<near, line>>

\* The reply goes out, and the next call is read unless this one stopped the session.
Answer ==
  /\ far = "rest" /\ Whole(got) /\ Decodes(got)
  /\ back' = Append(back, Answered(got))
  /\ far' \in {"idle", "closed"} /\ got' = <<>>
  /\ UNCHANGED <<near, line>>

\* It does not, or not all of it.
AnswerFails ==
  /\ far = "rest" /\ Whole(got) /\ Decodes(got)
  /\ back' \in {back, Append(back, Half)}
  /\ far' = "closed" /\ got' = <<>>
  /\ UNCHANGED <<near, line>>

Next ==
  \/ \E f \in Calls \cup {Empty, Short, Large} : Send(f) \/ SendPart(f)
  \/ \E asks \in {Plain, NewerFamily, ReplyTooLarge} : Call(asks) \/ CallCut(asks)
  \/ Hears \/ HearsNothing \/ Close \/ CallClosed
  \/ First \/ Rest \/ Quiet \/ NotRead \/ Answer \/ AnswerFails

----------------------------------------------------------------------------
\* Properties

Means(f) == IF f \in Calls THEN Answered(f) ELSE Unread(f)

\* The shape of every variable.
TypeOK ==
  /\ caller \in {"anything", "stream"} /\ hungUp \in BOOLEAN
  /\ far \in {"idle", "rest", "closed"} /\ Len(frames) <= Frames /\ Len(got) <= 2 + Most
  /\ \A b \in DOMAIN line : line[b] \in 0..Most

\* However frames run together, and whatever is wrong with one, the replies are those of the
\* frames as they were sent, each in the encoding of its call, and there is none to anything after
\* a frame that could not be read.
RepliesInStep ==
  \A i \in DOMAIN back :
    /\ i \in DOMAIN frames
    /\ back[i] \in {Half, Means(frames[i])}
    /\ i < Len(back) => frames[i] \in Calls /\ back[i] # Half

\* A call made from a config is given its own reply or none; after one that was given none, none.
HearsItsOwn ==
  caller = "stream" =>
    \A i \in DOMAIN heard :
      /\ heard[i] \notin {Lost, Closed} => heard[i] = Means(frames[i])
      /\ i > 1 /\ heard[i] # Closed => heard[i - 1] \notin {Lost, Closed}
=============================================================================
