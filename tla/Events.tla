--------------------------------- MODULE Events ---------------------------------
(***************************************************************************)
(* How the events of one process reach its parent, and how what was lost   *)
(* on the way is reckoned.                                                 *)
(*                                                                         *)
(*   Emitter::emit        any thread: counts itself in, takes a number,    *)
(*                        looks whether the receiver is closed, makes the  *)
(*                        event and puts it on a queue that may be full    *)
(*   run                  one worker: an event at a time from the queue to *)
(*                        the parent's socket, and a status now and then   *)
(*   Forwarder::finish    stops the worker, closes the receiver, looks     *)
(*                        whether anybody is still emitting, and sends the *)
(*                        last status                                      *)
(*                                                                         *)
(* Nothing here waits for anything but the worker, so every count is read  *)
(* while others move.  An event is one of a number.                        *)
(***************************************************************************)
EXTENDS Naturals, FiniteSets

CONSTANTS
  Threads,  \* those that emit
  Each,     \* how often each does; bounds the model
  Slots,    \* QUEUED_EVENTS
  Last,     \* the largest sequence number
  Reports   \* how many statuses there is time for; bounds the model

ASSUME EventKinds ==
  /\ IsFiniteSet(Threads) /\ Each \in Nat /\ Slots \in Nat \ {0}
  /\ Last \in Nat \ {0} /\ Reports \in Nat

VARIABLES
  pc,       \* where each thread is in emit
  emitted,  \* how often it has begun to
  active,   \* Counters.active
  sequence, \* Emitter.sequence: the next number
  queue,    \* how many are queued; once the channel is gone, were left in it
  enqueued, \* Counters.enqueued
  dequeued, \* Counters.dequeued
  closed,   \* Counters.receiver_closed
  loss,     \* Counters: full, closed, encoding and exhausted
  stop,     \* Forwarder.stop
  worker,   \* where the worker is in run
  clock,    \* whether a status is due, was sent lately, or neither yet
  sender,   \* Sender: events_sent, next_revision, and the transport's loss
  shut,     \* how far finish has come
  unconfirmed, \* whether anybody was seen still emitting
  left,     \* what finish counted as abandoned
  status    \* the last status that reached the parent

counters == <<active, sequence, enqueued, dequeued, closed, loss>>
work == <<stop, worker, clock, sender>>
finish == <<shut, unconfirmed, left>>
vars == <<pc, emitted, queue, counters, work, finish, status>>

NoLoss == [full |-> 0, closed |-> 0, encoding |-> 0, exhausted |-> 0]

Init ==
  /\ pc = [t \in Threads |-> "idle"] /\ emitted = [t \in Threads |-> 0]
  /\ active = 0 /\ sequence = 1 /\ queue = 0 /\ enqueued = 0 /\ dequeued = 0
  /\ closed = FALSE /\ loss = NoLoss
  /\ stop = FALSE /\ worker = "top" /\ clock = "fresh"
  /\ sender = [sent |-> 0, revision |-> 1, lost |-> 0]
  /\ shut = "no" /\ unconfirmed = FALSE /\ left = 0
  /\ status = [revision |-> 0, heard |-> 0, sent |-> 0, lost |-> 0, abandoned |-> 0,
               queueLoss |-> NoLoss, finished |-> FALSE]

Goes(t, from, to) == pc[t] = from /\ pc' = [pc EXCEPT ![t] = to]
Lose(kind) == loss' = [loss EXCEPT ![kind] = @ + 1]

----------------------------------------------------------------------------
\* Emitter::emit

Enter(t) ==
  /\ Goes(t, "idle", "entered") /\ emitted[t] < Each
  /\ emitted' = [emitted EXCEPT ![t] = @ + 1] /\ active' = active + 1
  /\ UNCHANGED <<queue, sequence, enqueued, dequeued, closed, loss, work, finish, status>>

\* A number is spent whatever becomes of the event; the largest is never given out.
Number(t) ==
  /\ \/ /\ sequence < Last /\ Goes(t, "entered", "numbered")
        /\ sequence' = sequence + 1 /\ UNCHANGED loss
     \/ /\ sequence = Last /\ Goes(t, "entered", "leaving")
        /\ Lose("exhausted") /\ UNCHANGED sequence
  /\ UNCHANGED <<emitted, queue, active, enqueued, dequeued, closed, work, finish, status>>

\* As it would be if it did not look.
SeeNothing(t) ==
  /\ Goes(t, "numbered", "preparing")
  /\ UNCHANGED <<emitted, queue, counters, work, finish, status>>

See(t) ==
  /\ \/ closed /\ Goes(t, "numbered", "leaving") /\ Lose("closed")
     \/ ~closed /\ Goes(t, "numbered", "preparing") /\ UNCHANGED loss
  /\ UNCHANGED <<emitted, queue, active, sequence, enqueued, dequeued, closed, work, finish, status>>

\* The payload may be too large, or panic while it is made.
Prepare(t) ==
  /\ \/ Goes(t, "preparing", "ready") /\ UNCHANGED loss
     \/ Goes(t, "preparing", "leaving") /\ Lose("encoding")
  /\ UNCHANGED <<emitted, queue, active, sequence, enqueued, dequeued, closed, work, finish, status>>

Gone == shut \in {"gone", "confirmed", "counted", "over"}

\* As it would be if an event nobody is there to receive were not counted.
PutUnsaid(t) ==
  /\ \/ Gone /\ Goes(t, "ready", "leaving") /\ UNCHANGED <<queue, loss>>
     \/ ~Gone /\ queue = Slots /\ Goes(t, "ready", "leaving") /\ Lose("full") /\ UNCHANGED queue
     \/ ~Gone /\ queue < Slots /\ Goes(t, "ready", "sent") /\ queue' = queue + 1 /\ UNCHANGED loss
  /\ UNCHANGED <<emitted, active, sequence, enqueued, dequeued, closed, work, finish, status>>

\* try_send
Put(t) ==
  /\ \/ Gone /\ Goes(t, "ready", "leaving") /\ Lose("closed") /\ UNCHANGED queue
     \/ ~Gone /\ queue = Slots /\ Goes(t, "ready", "leaving") /\ Lose("full") /\ UNCHANGED queue
     \/ ~Gone /\ queue < Slots /\ Goes(t, "ready", "sent") /\ queue' = queue + 1 /\ UNCHANGED loss
  /\ UNCHANGED <<emitted, active, sequence, enqueued, dequeued, closed, work, finish, status>>

\* Counted after it is on the queue, where the worker may have taken it already.
Count(t) ==
  /\ Goes(t, "sent", "leaving") /\ enqueued' = enqueued + 1
  /\ UNCHANGED <<emitted, queue, active, sequence, dequeued, closed, loss, work, finish, status>>

\* Drop of Active
Leave(t) ==
  /\ Goes(t, "leaving", "idle") /\ active' = active - 1
  /\ UNCHANGED <<emitted, queue, sequence, enqueued, dequeued, closed, loss, work, finish, status>>

Emit(t) == Enter(t) \/ Number(t) \/ See(t) \/ Prepare(t) \/ Put(t) \/ Count(t) \/ Leave(t)

----------------------------------------------------------------------------
\* Sender: one send that does not wait, and is not tried again

\* A status of what was lost by then; one that does not get through is lost like an event.
Report(abandoned, finished) ==
  LET said == [revision |-> sender.revision, heard |-> status.heard + 1, sent |-> sender.sent,
               lost |-> sender.lost, abandoned |-> abandoned, queueLoss |-> loss,
               finished |-> finished]
  IN \/ status' = said /\ sender' = [sender EXCEPT !.revision = @ + 1]
     \/ /\ sender' = [sender EXCEPT !.revision = @ + 1, !.lost = @ + 1]
        /\ UNCHANGED status

\* Counters::snapshot of what was queued and never taken
Abandoned == IF closed /\ enqueued > dequeued THEN enqueued - dequeued ELSE 0

----------------------------------------------------------------------------
\* run

Look ==
  /\ worker = "top" /\ worker' = IF stop THEN "done" ELSE "in"
  /\ UNCHANGED <<pc, emitted, queue, counters, stop, clock, sender, finish, status>>

Forward ==
  /\ worker = "in" /\ worker' = "mid"
  /\ IF queue > 0
     THEN /\ queue' = queue - 1 /\ dequeued' = dequeued + 1
          /\ \/ sender' = [sender EXCEPT !.sent = @ + 1]
             \/ sender' = [sender EXCEPT !.lost = @ + 1]
     ELSE UNCHANGED <<queue, dequeued, sender>>
  /\ UNCHANGED <<pc, emitted, active, sequence, enqueued, closed, loss, stop, clock, finish, status>>

Tell ==
  /\ worker = "mid" /\ worker' = "top"
  /\ IF clock = "due"
     THEN clock' = "lately" /\ Report(Abandoned, FALSE)
     ELSE UNCHANGED <<clock, sender, status>>
  /\ UNCHANGED <<pc, emitted, queue, counters, stop, finish>>

\* REPORT_INTERVAL has gone by.
Tick ==
  /\ clock # "due" /\ sender.revision <= Reports /\ clock' = "due"
  /\ UNCHANGED <<pc, emitted, queue, counters, stop, worker, sender, finish, status>>

----------------------------------------------------------------------------
\* Forwarder::finish

Stop ==
  /\ shut = "no" /\ shut' = "stopping" /\ stop' = TRUE
  /\ UNCHANGED <<pc, emitted, queue, counters, worker, clock, sender, unconfirmed, left, status>>

Join ==
  /\ shut = "stopping" /\ worker = "done" /\ shut' = "joined"
  /\ UNCHANGED <<pc, emitted, queue, counters, work, unconfirmed, left, status>>

\* Drop of Receiver: the flag first, and then the channel with what is in it.
Close ==
  /\ shut = "joined" /\ shut' = "closed" /\ closed' = TRUE
  /\ UNCHANGED <<pc, emitted, queue, active, sequence, enqueued, dequeued, loss, work, unconfirmed, left, status>>

DropChannel ==
  /\ shut = "closed" /\ shut' = "gone"
  /\ UNCHANGED <<pc, emitted, queue, counters, work, unconfirmed, left, status>>

\* As it would be if nobody looked who is still emitting.
ConfirmAnyhow ==
  /\ shut = "gone" /\ shut' = "confirmed" /\ unconfirmed' = FALSE
  /\ UNCHANGED <<pc, emitted, queue, counters, work, left, status>>

\* As it would be if it waited until nobody is.
ConfirmWaits ==
  /\ shut = "gone" /\ active = 0 /\ shut' = "confirmed" /\ unconfirmed' = FALSE
  /\ UNCHANGED <<pc, emitted, queue, counters, work, left, status>>

Confirm ==
  /\ shut = "gone" /\ shut' = "confirmed" /\ unconfirmed' = (active # 0)
  /\ UNCHANGED <<pc, emitted, queue, counters, work, left, status>>

CountLeft ==
  /\ shut = "confirmed" /\ shut' = "counted" /\ left' = Abandoned
  /\ UNCHANGED <<pc, emitted, queue, counters, work, unconfirmed, status>>

\* The last status is held to the same interval as the others, and to SHUTDOWN_BUDGET.
Finish ==
  /\ shut = "counted" /\ shut' = "over"
  /\ IF clock = "lately" THEN UNCHANGED <<clock, sender, status>>
     ELSE /\ clock' = "lately"
          /\ \E inTime \in BOOLEAN : Report(left, ~unconfirmed /\ inTime)
  /\ UNCHANGED <<pc, emitted, queue, counters, stop, worker, unconfirmed, left>>

Run == Look \/ Forward \/ Tell
End == Join \/ Close \/ DropChannel \/ Confirm \/ CountLeft \/ Finish

Next == (\E t \in Threads : Emit(t)) \/ Run \/ Tick \/ Stop \/ End

Spec == Init /\ [][Next]_vars

\* The worker and whoever ends the forwarding keep going; a thread may be held up in its payload.
FairSpec == Spec /\ WF_vars(Run) /\ WF_vars(End)

----------------------------------------------------------------------------
\* Properties

Places == {"idle", "entered", "numbered", "preparing", "ready", "sent", "leaving"}
Undecided == {t \in Threads : pc[t] \in {"numbered", "preparing", "ready"}}

\* Every number given out is of an event still being made, queued, taken, or counted as lost
\* under one name: closing the receiver in the middle of it loses no count.
EveryAttemptCounted ==
  sequence - 1 = Cardinality(Undecided) + queue + dequeued + loss.full + loss.closed + loss.encoding

\* A status that says it is the last tells the parent exactly what became of every event that
\* was queued: what it was sent, what was lost on the way to it, a status that did not reach it
\* included, and what was abandoned; and all that was too many or could not be written.
Reckoned ==
  status.finished =>
    /\ status.abandoned = queue
    /\ status.sent + status.lost = dequeued + (status.revision - status.heard)
    /\ status.queueLoss.full = loss.full /\ status.queueLoss.encoding = loss.encoding

\* Once nobody was seen emitting after the receiver was closed, nothing is queued any more, and
\* what was lost to a full queue or a bad payload is settled.
NothingAfter ==
  [][(shut \in {"confirmed", "counted", "over"} /\ ~unconfirmed) =>
       UNCHANGED <<queue, enqueued, dequeued, loss.full, loss.encoding>>]_vars

\* Ending the forwarding waits for nobody who emits.
ShutdownEnds == (shut = "stopping") ~> (shut = "over")
=============================================================================
