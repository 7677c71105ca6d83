------------------------------ MODULE EventsProofs ------------------------------
(***************************************************************************)
(* That an end of the forwarding which saw nobody emitting is final, for   *)
(* any number of threads and any length of queue: the count of those in    *)
(* emit is exact, whoever comes in after the receiver is closed is turned  *)
(* away before it makes anything, and the worker is done.  And that every  *)
(* count adds up: each number given out is in one place, what is queued is *)
(* what was counted in less what was counted out but for those about to    *)
(* count, and what was sent or lost is what was taken and what was told.   *)
(***************************************************************************)
EXTENDS MCEvents, FiniteSetTheorems, TLAPS

Busy == {t \in Threads : pc[t] # "idle"}
Final == shut \in {"confirmed", "counted", "over"} /\ ~unconfirmed
Making == {"preparing", "ready", "sent"}

Shape ==
  /\ pc \in [Threads -> Places] /\ active \in Nat
  /\ loss \in [full : Nat, closed : Nat, encoding : Nat, exhausted : Nat]

Counted == active = Cardinality(Busy)
Ended == shut \in {"joined", "closed", "gone", "confirmed", "counted", "over"} => worker = "done"
Shut == shut \in {"closed", "gone", "confirmed", "counted", "over"} => closed
Settled == Final => \A t \in Threads : pc[t] \notin Making

IInv == Shape /\ Counted /\ Ended /\ Shut /\ Settled

LEMMA BusyFinite == IsFiniteSet(Busy) /\ Cardinality(Busy) \in Nat
BY EventKinds, FS_Subset, FS_CardinalityType DEF Busy

LEMMA InitIInv == Init => IInv
<1> SUFFICES ASSUME Init PROVE IInv
  OBVIOUS
<1>1. Shape /\ Ended /\ Shut /\ Settled
  BY DEF Init, Shape, Ended, Shut, Settled, Final, Places, NoLoss
<1>2. Counted
  <2>1. Busy = {}
    BY DEF Init, Busy
  <2> QED
    BY <2>1, FS_EmptySet DEF Counted, Init
<1> QED
  BY <1>1, <1>2 DEF IInv

\* A step from one busy place to another leaves the number of the busy as it is.
LEMMA Moves ==
  ASSUME Shape, NEW t \in Threads, NEW a \in Places \ {"idle"}, NEW b \in Places \ {"idle"},
         Goes(t, a, b)
  PROVE  Busy' = Busy /\ pc' \in [Threads -> Places] /\ (\A u \in Threads \ {t} : pc'[u] = pc[u])
         /\ pc[t] = a /\ pc'[t] = b
<1>1. pc[t] = a /\ pc' = [pc EXCEPT ![t] = b] /\ pc \in [Threads -> Places]
  BY DEF Goes, Shape
<1>2. \A u \in Threads : pc'[u] = IF u = t THEN b ELSE pc[u]
  BY <1>1
<1>3. Busy' = Busy
  BY <1>1, <1>2 DEF Busy
<1> QED
  BY <1>1, <1>2, <1>3

\* What leaves emit alone.
LEMMA Elsewhere ==
  ASSUME IInv, UNCHANGED <<pc, active, loss>>
  PROVE  (Shape /\ Counted)' /\ ((Final' => Final) => Settled')
<1>1. (Shape /\ Counted)'
  BY DEF IInv, Shape, Counted, Busy
<1>2. ASSUME Final' => Final PROVE Settled'
  BY <1>2 DEF IInv, Settled
<1> QED
  BY <1>1, <1>2

\* What emit leaves alone.
LEMMA Within ==
  ASSUME IInv, UNCHANGED <<shut, unconfirmed, worker, closed>>
  PROVE  (Ended /\ Shut)' /\ (Final' <=> Final)
BY DEF IInv, Ended, Shut, Final

LEMMA EmitKeeps ==
  ASSUME IInv, NEW t \in Threads, Emit(t)
  PROVE  IInv'
<1> USE DEF finish, work
<1>0. UNCHANGED <<shut, unconfirmed, worker, closed>>
  BY DEF Emit, Enter, Number, See, Prepare, Put, Count, Leave
<1>a. (Ended /\ Shut)' /\ (Final' <=> Final)
  BY <1>0, Within
<1>b. Final => closed
  BY DEF IInv, Shut, Final
<1>1. CASE Enter(t)
  <2>1. pc[t] = "idle" /\ pc' = [pc EXCEPT ![t] = "entered"] /\ active' = active + 1
        /\ UNCHANGED loss
    BY <1>1 DEF Enter, Goes
  <2>2. \A u \in Threads : pc'[u] = IF u = t THEN "entered" ELSE pc[u]
    BY <2>1 DEF IInv, Shape
  <2>3. Busy' = Busy \cup {t} /\ t \notin Busy
    BY <2>1, <2>2 DEF Busy
  <2>4. Counted'
    BY <2>1, <2>3, BusyFinite, FS_AddElement DEF IInv, Counted, Shape
  <2>5. Shape'
    BY <2>1 DEF IInv, Shape, Places
  <2>6. Settled'
    BY <1>a, <2>2 DEF IInv, Settled, Making
  <2> QED
    BY <1>a, <2>4, <2>5, <2>6 DEF IInv
<1>2. CASE Leave(t)
  <2>1. pc[t] = "leaving" /\ pc' = [pc EXCEPT ![t] = "idle"] /\ active' = active - 1
        /\ UNCHANGED loss
    BY <1>2 DEF Leave, Goes
  <2>2. \A u \in Threads : pc'[u] = IF u = t THEN "idle" ELSE pc[u]
    BY <2>1 DEF IInv, Shape
  <2>3. Busy' = Busy \ {t} /\ t \in Busy
    BY <2>1, <2>2 DEF Busy
  <2>4. Cardinality(Busy') = Cardinality(Busy) - 1 /\ Cardinality(Busy') \in Nat
    BY <2>3, BusyFinite, FS_RemoveElement, FS_CardinalityType
  <2>5. Counted' /\ active' \in Nat
    BY <2>1, <2>4 DEF IInv, Counted
  <2>6. Shape'
    BY <2>1, <2>5 DEF IInv, Shape, Places
  <2>7. Settled'
    BY <1>a, <2>2 DEF IInv, Settled, Making
  <2> QED
    BY <1>a, <2>5, <2>6, <2>7 DEF IInv
<1>3. CASE Number(t) \/ See(t) \/ Prepare(t) \/ Put(t) \/ Count(t)
  <2>1. PICK a \in Places \ {"idle"}, b \in Places \ {"idle"} :
          /\ Goes(t, a, b)
          /\ b \in Making => a \in Making \/ ~closed
    BY <1>3 DEF Number, See, Prepare, Put, Count, Places, Making, Goes
  <2>2. active' = active /\ loss' \in [full : Nat, closed : Nat, encoding : Nat, exhausted : Nat]
    BY <1>3 DEF IInv, Shape, Number, See, Prepare, Put, Count, Lose
  <2>3. Shape /\ Busy' = Busy /\ pc' \in [Threads -> Places] /\ pc[t] = a /\ pc'[t] = b
        /\ (\A u \in Threads \ {t} : pc'[u] = pc[u])
    BY <2>1, Moves DEF IInv
  <2>4. Shape' /\ Counted'
    BY <2>2, <2>3 DEF IInv, Shape, Counted
  <2>5. Settled'
    BY <1>a, <1>b, <2>1, <2>3 DEF IInv, Settled
  <2> QED
    BY <1>a, <2>4, <2>5 DEF IInv
<1> QED
  BY <1>1, <1>2, <1>3 DEF Emit

LEMMA StepKeeps == IInv /\ [Next]_vars => IInv'
<1> SUFFICES ASSUME IInv, [Next]_vars PROVE IInv'
  OBVIOUS
<1> USE DEF counters, work, finish
<1>1. CASE \E t \in Threads : Emit(t)
  BY <1>1, EmitKeeps
<1>2. CASE Run \/ Tick
  <2>1. UNCHANGED <<pc, active, loss, closed, shut, unconfirmed>> /\ (worker = "done" => worker' = "done")
    BY <1>2 DEF Run, Look, Forward, Tell, Tick
  <2>2. (Ended /\ Shut)' /\ (Final' => Final)
    BY <2>1 DEF IInv, Ended, Shut, Final
  <2> QED
    BY <2>1, <2>2, Elsewhere DEF IInv
<1>3. CASE Stop \/ Join \/ Close \/ DropChannel \/ CountLeft \/ Finish
  <2>1. UNCHANGED <<pc, active, loss, worker, unconfirmed>>
    BY <1>3 DEF Stop, Join, Close, DropChannel, CountLeft, Finish
  <2>2. (Ended /\ Shut)' /\ (Final' => Final)
    BY <1>3 DEF IInv, Ended, Shut, Final, Stop, Join, Close, DropChannel, CountLeft, Finish
  <2> QED
    BY <2>1, <2>2, Elsewhere DEF IInv
<1>4. CASE Confirm
  <2>1. UNCHANGED <<pc, active, loss, worker, closed>>
    BY <1>4 DEF Confirm
  <2>2. (Ended /\ Shut)'
    BY <1>4 DEF IInv, Ended, Shut, Confirm
  <2>3. ASSUME Final' PROVE \A t \in Threads : pc'[t] = "idle"
    <3>1. Cardinality(Busy) = 0
      BY <1>4, <2>3 DEF Confirm, Final, IInv, Counted
    <3>2. Busy = {}
      BY <3>1, BusyFinite, FS_EmptySet
    <3> QED
      BY <2>1, <3>2 DEF Busy
  <2>4. Settled'
    BY <2>3 DEF Settled, Making
  <2> QED
    BY <2>1, <2>2, <2>4, Elsewhere DEF IInv
<1>5. CASE UNCHANGED vars
  <2>1. UNCHANGED <<pc, active, loss, worker, closed, shut, unconfirmed>>
    BY <1>5 DEF vars
  <2> QED
    BY <2>1, Elsewhere, Within DEF IInv
<1> QED
  BY <1>1, <1>2, <1>3, <1>4, <1>5 DEF Next, Run, End

\* The inductive invariant: those in emit are counted, the worker is done before the receiver
\* is closed, and none is past the look at it once nobody was seen emitting.
THEOREM Holds == Spec => []IInv
BY InitIInv, StepKeeps, PTL DEF Spec

\* Events: after an end that saw nobody emitting, nothing is queued or taken and no more is
\* lost to a full queue or a bad payload, so the last status stays true.
THEOREM FinalIsFinal == Spec => NothingAfter
<1> USE DEF counters, work, finish
<1>1. ASSUME IInv, Next, Final
      PROVE  UNCHANGED <<queue, enqueued, dequeued, loss.full, loss.encoding>>
  <2>1. worker = "done" /\ \A t \in Threads : pc[t] \notin Making
    BY <1>1 DEF IInv, Ended, Settled, Final
  <2>2. ASSUME NEW t \in Threads, Emit(t)
        PROVE  UNCHANGED <<queue, enqueued, dequeued, loss.full, loss.encoding>>
    <3>1. Enter(t) \/ Leave(t) \/ Number(t) \/ See(t)
      BY <2>1, <2>2 DEF Emit, Prepare, Put, Count, Goes, Making
    <3> QED
      BY <1>1, <3>1 DEF Enter, Leave, Number, See, Lose, IInv, Shape
  <2>3. CASE Run \/ Tick \/ Stop \/ End
    BY <2>1, <2>3
    DEF Run, Look, Forward, Tell, Tick, Stop, End, Join, Close, DropChannel, Confirm, CountLeft, Finish
  <2> QED
    BY <1>1, <2>2, <2>3 DEF Next
<1>2. IInv /\ [Next]_vars => [Final => UNCHANGED <<queue, enqueued, dequeued, loss.full, loss.encoding>>]_vars
  BY <1>1 DEF vars
<1> QED
  BY <1>2, Holds, PTL DEF Spec, NothingAfter, Final

----------------------------------------------------------------------------
\* That everything is reckoned.

At(places) == {t \in Threads : pc[t] \in places}
Uncounted == At({"sent"})

Losses == [full : Nat, closed : Nat, encoding : Nat, exhausted : Nat]
Senders == [sent : Nat, revision : Nat, lost : Nat]
Statuses == [revision : Nat, heard : Nat, sent : Nat, lost : Nat, abandoned : Nat,
             queueLoss : Losses, finished : BOOLEAN]

Amounts ==
  /\ queue \in Nat /\ enqueued \in Nat /\ dequeued \in Nat /\ sequence \in Nat \ {0}
  /\ left \in Nat /\ unconfirmed \in BOOLEAN
  /\ sender \in Senders
  /\ status \in Statuses

\* A thread counts its event in only after it queued it.
QueueCounted == enqueued + Cardinality(Uncounted) = dequeued + queue

\* Of the statuses made, what did not reach the parent was counted as lost with the events.
SenderCounted == sender.sent + sender.lost + status.heard + 1 = dequeued + sender.revision

LeftCounted == (shut \in {"counted", "over"} /\ ~unconfirmed) => left = queue
LastWord == status.finished => shut = "over" /\ ~unconfirmed

Sums == Amounts /\ EveryAttemptCounted /\ QueueCounted
Words == SenderCounted /\ LeftCounted /\ LastWord /\ Reckoned
Books == Sums /\ Words

\* How many threads are at some places follows the one that moves.
LEMMA OneMoves ==
  ASSUME Shape, NEW t \in Threads, NEW a, NEW b, NEW S, Goes(t, a, b)
  PROVE  /\ Cardinality(At(S)) \in Nat /\ Cardinality(At(S)') \in Nat
         /\ a \in S /\ b \in S => Cardinality(At(S)') = Cardinality(At(S))
         /\ a \notin S /\ b \notin S => Cardinality(At(S)') = Cardinality(At(S))
         /\ a \in S /\ b \notin S => Cardinality(At(S)') = Cardinality(At(S)) - 1
         /\ a \notin S /\ b \in S => Cardinality(At(S)') = Cardinality(At(S)) + 1
<1>1. pc[t] = a /\ \A u \in Threads : pc'[u] = IF u = t THEN b ELSE pc[u]
  BY DEF Goes, Shape
<1>2. IsFiniteSet(At(S)) /\ IsFiniteSet(At(S)')
  BY EventKinds, FS_Subset DEF At
<1>3. (a \in S <=> b \in S) => At(S)' = At(S)
  BY <1>1 DEF At
<1>4. a \in S /\ b \notin S => t \in At(S) /\ At(S)' = At(S) \ {t}
  BY <1>1 DEF At
<1>5. a \notin S /\ b \in S => t \notin At(S) /\ At(S)' = At(S) \cup {t}
  BY <1>1 DEF At
<1>6. Cardinality(At(S)) \in Nat /\ Cardinality(At(S)') \in Nat
  BY <1>2, FS_CardinalityType
<1>7. a \in S /\ b \notin S => Cardinality(At(S)') = Cardinality(At(S)) - 1
  BY <1>2, <1>4, FS_RemoveElement
<1>8. a \notin S /\ b \in S => Cardinality(At(S)') = Cardinality(At(S)) + 1
  BY <1>2, <1>5, FS_AddElement
<1> QED
  BY <1>3, <1>6, <1>7, <1>8

LEMMA UndecidedAt == Undecided = At({"numbered", "preparing", "ready"})
BY DEF Undecided, At

LEMMA NoneAt ==
  ASSUME NEW S, \A t \in Threads : pc[t] \notin S
  PROVE  Cardinality(At(S)) = 0
<1>1. At(S) = {}
  BY DEF At
<1> QED
  BY <1>1, FS_EmptySet

LEMMA InitBooks == Init => Books
<1> SUFFICES ASSUME Init PROVE Books
  OBVIOUS
<1>1. Cardinality(Uncounted) = 0 /\ Cardinality(Undecided) = 0
  BY NoneAt, UndecidedAt DEF Init, Uncounted
<1>2. Amounts
  <2>1. NoLoss \in Losses
    BY DEF NoLoss, Losses
  <2>2. status \in Statuses
    BY <2>1 DEF Init, Statuses
  <2>3. /\ queue \in Nat /\ enqueued \in Nat /\ dequeued \in Nat /\ sequence \in Nat \ {0}
        /\ left \in Nat /\ sender \in Senders
    BY DEF Init, Senders
  <2>4. unconfirmed \in BOOLEAN
    BY DEF Init
  <2> QED
    BY <2>2, <2>3, <2>4 DEF Amounts
<1>3. EveryAttemptCounted /\ QueueCounted /\ Words
  BY <1>1 DEF Init, EveryAttemptCounted, QueueCounted, Words, SenderCounted, LeftCounted,
              LastWord, Reckoned, NoLoss
<1> QED
  BY <1>2, <1>3 DEF Books, Sums

\* A thread's step keeps the sums: what it does is counted in the same step, or once it leaves "sent".
LEMMA EmitSums ==
  ASSUME IInv, Sums, NEW t \in Threads, Emit(t)
  PROVE  Sums'
<1> USE DEF finish, work
<1>1. /\ queue \in Nat /\ enqueued \in Nat /\ dequeued \in Nat /\ sequence \in Nat \ {0}
      /\ loss \in [full : Nat, closed : Nat, encoding : Nat, exhausted : Nat] /\ Shape
  BY DEF Sums, Amounts, IInv, Shape
<1>2. sequence - 1 = Cardinality(Undecided) + queue + dequeued + loss.full + loss.closed + loss.encoding
  BY DEF Sums, EveryAttemptCounted
<1>3. enqueued + Cardinality(Uncounted) = dequeued + queue
  BY DEF Sums, QueueCounted
<1>4. UNCHANGED <<left, unconfirmed, sender, status, dequeued>>
  BY DEF Emit, Enter, Number, See, Prepare, Put, Count, Leave
<1> DEFINE U == At({"numbered", "preparing", "ready"})
<1>5. Undecided = U /\ Undecided' = U'
  BY DEF Undecided, At
<1>6. SUFFICES /\ queue' \in Nat /\ enqueued' \in Nat /\ sequence' \in Nat \ {0}
               /\ sequence' - 1 = Cardinality(U') + queue' + dequeued + loss.full' + loss.closed' + loss.encoding'
               /\ enqueued' + Cardinality(Uncounted') = dequeued + queue'
  BY <1>4, <1>5 DEF Sums, Amounts, EveryAttemptCounted, QueueCounted
<1>7. ASSUME NEW a \in Places, NEW b \in Places, Goes(t, a, b)
      PROVE  /\ Cardinality(U) \in Nat /\ Cardinality(U') \in Nat
             /\ Cardinality(Uncounted) \in Nat /\ Cardinality(Uncounted') \in Nat
             /\ Cardinality(U') = Cardinality(U)
                   + (IF b \in {"numbered", "preparing", "ready"} THEN 1 ELSE 0)
                   - (IF a \in {"numbered", "preparing", "ready"} THEN 1 ELSE 0)
             /\ Cardinality(Uncounted') = Cardinality(Uncounted)
                   + (IF b \in {"sent"} THEN 1 ELSE 0) - (IF a \in {"sent"} THEN 1 ELSE 0)
  <2>1. /\ Cardinality(U) \in Nat /\ Cardinality(U') \in Nat
        /\ Cardinality(U') = Cardinality(U)
              + (IF b \in {"numbered", "preparing", "ready"} THEN 1 ELSE 0)
              - (IF a \in {"numbered", "preparing", "ready"} THEN 1 ELSE 0)
    <3> HIDE DEF U
    <3> DEFINE S == {"numbered", "preparing", "ready"}
    <3>1. U = At(S) /\ U' = At(S)'
      BY DEF U
    <3> QED
      BY <1>1, <1>7, <3>1, OneMoves
  <2>2. /\ Cardinality(Uncounted) \in Nat /\ Cardinality(Uncounted') \in Nat
        /\ Cardinality(Uncounted') = Cardinality(Uncounted)
              + (IF b \in {"sent"} THEN 1 ELSE 0) - (IF a \in {"sent"} THEN 1 ELSE 0)
    <3> DEFINE S == {"sent"}
    <3>1. Uncounted = At(S) /\ Uncounted' = At(S)'
      BY DEF Uncounted
    <3> HIDE DEF S
    <3>2. /\ Cardinality(Uncounted) \in Nat /\ Cardinality(Uncounted') \in Nat
          /\ Cardinality(Uncounted') = Cardinality(Uncounted)
                + (IF b \in S THEN 1 ELSE 0) - (IF a \in S THEN 1 ELSE 0)
      BY <1>1, <1>7, <3>1, OneMoves
    <3> QED
      BY <3>2 DEF S
  <2> QED
    BY <2>1, <2>2
<1> HIDE DEF U
<1>8. {"idle", "entered", "numbered", "preparing", "ready", "sent", "leaving"} \subseteq Places
  BY DEF Places
<1>9. CASE Enter(t)
  BY <1>1, <1>2, <1>3, <1>5, <1>7, <1>8, <1>9 DEF Enter
<1>10. CASE Number(t)
  BY <1>1, <1>2, <1>3, <1>5, <1>7, <1>8, <1>10 DEF Number, Lose
<1>11. CASE See(t)
  BY <1>1, <1>2, <1>3, <1>5, <1>7, <1>8, <1>11 DEF See, Lose
<1>12. CASE Prepare(t)
  BY <1>1, <1>2, <1>3, <1>5, <1>7, <1>8, <1>12 DEF Prepare, Lose
<1>13. CASE Put(t)
  BY <1>1, <1>2, <1>3, <1>5, <1>7, <1>8, <1>13 DEF Put, Lose
<1>14. CASE Count(t)
  BY <1>1, <1>2, <1>3, <1>5, <1>7, <1>8, <1>14 DEF Count
<1>15. CASE Leave(t)
  BY <1>1, <1>2, <1>3, <1>5, <1>7, <1>8, <1>15 DEF Leave
<1> QED
  BY <1>9, <1>10, <1>11, <1>12, <1>13, <1>14, <1>15 DEF Emit

\* What is told and reckoned is not the threads', and once it was told none of them can disturb it.
LEMMA EmitWords ==
  ASSUME IInv, Words, NEW t \in Threads, Emit(t)
  PROVE  Words'
<1> USE DEF finish, work
<1>1. UNCHANGED <<dequeued, sender, shut, unconfirmed, left, status>>
  BY DEF Emit, Enter, Number, See, Prepare, Put, Count, Leave
<1>2. ASSUME Final PROVE queue' = queue /\ loss'.full = loss.full /\ loss'.encoding = loss.encoding
  <2>1. pc[t] \notin Making
    BY <1>2 DEF IInv, Settled
  <2>2. Enter(t) \/ Leave(t) \/ Number(t) \/ See(t)
    BY <2>1 DEF Emit, Prepare, Put, Count, Goes, Making
  <2> QED
    BY <2>2 DEF Enter, Leave, Number, See, Lose, IInv, Shape
<1>3. SenderCounted' /\ LastWord'
  BY <1>1 DEF Words, SenderCounted, LastWord
<1>4. LeftCounted'
  BY <1>1, <1>2 DEF Words, LeftCounted, Final
<1>5. Reckoned'
  <2>1. status.finished => Final
    BY DEF Words, LastWord, Final
  <2> QED
    BY <1>1, <1>2, <2>1 DEF Words, Reckoned
<1> QED
  BY <1>3, <1>4, <1>5 DEF Words

\* A status says what was sent and lost by then, and is counted whether it gets through or not.
LEMMA Reporting ==
  ASSUME sender \in Senders, status \in Statuses, loss \in Losses, NEW n \in Nat, NEW f \in BOOLEAN,
         Report(n, f)
  PROVE  /\ sender' \in Senders /\ status' \in Statuses
         /\ SenderCounted /\ dequeued \in Nat /\ dequeued' = dequeued => SenderCounted'
         /\ status' = status \/ status'.finished = f
<1>1. /\ sender.sent \in Nat /\ sender.lost \in Nat /\ sender.revision \in Nat
      /\ DOMAIN sender = {"sent", "revision", "lost"}
  BY DEF Senders
<1>2. status.heard \in Nat
  BY DEF Statuses
<1>3. CASE /\ status' = [revision |-> sender.revision, heard |-> status.heard + 1, sent |-> sender.sent,
                         lost |-> sender.lost, abandoned |-> n, queueLoss |-> loss, finished |-> f]
           /\ sender' = [sender EXCEPT !.revision = @ + 1]
  <2>1. /\ sender'.sent = sender.sent /\ sender'.lost = sender.lost
        /\ sender'.revision = sender.revision + 1
    BY <1>1, <1>3
  <2>2. sender' \in Senders
    BY <1>1, <1>3 DEF Senders
  <2>3. status' \in Statuses
    BY <1>1, <1>2, <1>3 DEF Statuses
  <2>4. SenderCounted /\ dequeued \in Nat /\ dequeued' = dequeued => SenderCounted'
    BY <1>1, <1>2, <1>3, <2>1 DEF SenderCounted
  <2> QED
    BY <1>3, <2>2, <2>3, <2>4
<1>4. CASE sender' = [sender EXCEPT !.revision = @ + 1, !.lost = @ + 1] /\ UNCHANGED status
  <2>1. /\ sender'.sent = sender.sent /\ sender'.lost = sender.lost + 1
        /\ sender'.revision = sender.revision + 1
    BY <1>1, <1>4
  <2>2. sender' \in Senders
    <3> DEFINE told == [sender EXCEPT !.revision = @ + 1]
    <3>1. told \in Senders
      BY <1>1 DEF Senders
    <3>2. sender' = [told EXCEPT !.lost = @ + 1] /\ told.lost \in Nat
      BY <1>1, <1>4
    <3> HIDE DEF told
    <3> QED
      BY <3>1, <3>2 DEF Senders
  <2>3. SenderCounted /\ dequeued \in Nat /\ dequeued' = dequeued => SenderCounted'
    BY <1>1, <1>2, <1>4, <2>1 DEF SenderCounted
  <2> QED
    BY <1>4, <2>2, <2>3
<1> QED
  BY <1>3, <1>4 DEF Report

\* The worker, and the end, move what is queued to what is taken and no other sum.
LEMMA OthersSums ==
  ASSUME IInv, Sums, Run \/ Tick \/ Stop \/ End \/ UNCHANGED vars
  PROVE  Sums'
<1> USE DEF counters, finish, work
<1>1. UNCHANGED <<pc, sequence, loss, enqueued>>
  BY DEF Run, Look, Forward, Tell, Tick, Stop, End, Join, Close, DropChannel, Confirm, CountLeft,
         Finish, vars
<1>2. Undecided' = Undecided /\ Uncounted' = Uncounted
  BY <1>1 DEF Undecided, Uncounted, At
<1>3. /\ queue \in Nat /\ enqueued \in Nat /\ dequeued \in Nat /\ sequence \in Nat \ {0}
      /\ left \in Nat /\ sender \in Senders /\ status \in Statuses /\ loss \in Losses
  BY DEF Sums, Amounts, IInv, Shape, Losses
<1>4. /\ queue' \in Nat /\ dequeued' \in Nat /\ dequeued' + queue' = dequeued + queue
  <2>1. CASE Forward
    BY <1>3, <2>1 DEF Forward
  <2>2. CASE UNCHANGED <<queue, dequeued>>
    BY <1>3, <2>2
  <2> QED
    BY <2>1, <2>2 DEF Run, Look, Tell, Tick, Stop, End, Join, Close, DropChannel, Confirm,
                      CountLeft, Finish, vars
<1>5. left' \in Nat /\ unconfirmed' \in BOOLEAN
  <2>1. Abandoned \in Nat
    BY <1>3 DEF Abandoned
  <2>2. left' = left \/ left' = Abandoned
    BY DEF Run, Look, Forward, Tell, Tick, Stop, End, Join, Close, DropChannel, Confirm,
           CountLeft, Finish, vars
  <2>3. unconfirmed' \in BOOLEAN
    BY DEF Sums, Amounts, Run, Look, Forward, Tell, Tick, Stop, End, Join, Close, DropChannel, Confirm,
                CountLeft, Finish, vars
  <2> QED
    BY <1>3, <2>1, <2>2, <2>3
<1>7. sender' \in Senders /\ status' \in Statuses
  <2>0. sender \in Senders /\ status \in Statuses /\ loss \in Losses
    BY <1>3
  <2>1. CASE Tell
    <3>1. Abandoned \in Nat
      BY <1>3 DEF Abandoned
    <3> QED
      BY <2>0, <2>1, <3>1, Reporting DEF Tell
  <2>2. CASE Finish
    BY <1>3, <2>0, <2>2, Reporting DEF Finish
  <2>3. CASE Forward
    <3>1. status' = status /\ sender' \in Senders
      BY <1>3, <2>3 DEF Forward, Senders
    <3> QED
      BY <2>0, <3>1
  <2>4. CASE UNCHANGED <<sender, status>>
    BY <2>0, <2>4
  <2> QED
    BY <2>1, <2>2, <2>3, <2>4
    DEF Run, Look, Tick, Stop, End, Join, Close, DropChannel, Confirm, CountLeft, vars
<1>8. Amounts'
  BY <1>1, <1>3, <1>4, <1>5, <1>7 DEF Amounts
<1>9. QueueCounted'
  BY <1>1, <1>2, <1>4 DEF Sums, QueueCounted
<1>10. EveryAttemptCounted'
  <2>1. Cardinality(Undecided) \in Nat
    BY EventKinds, FS_Subset, FS_CardinalityType DEF Undecided
  <2> QED
    <3>1. loss' = loss /\ loss.full \in Nat /\ loss.closed \in Nat /\ loss.encoding \in Nat
      BY <1>1, <1>3 DEF Losses
    <3>2. sequence - 1 = Cardinality(Undecided) + queue + dequeued + loss.full + loss.closed + loss.encoding
      BY DEF Sums, EveryAttemptCounted
    <3>3. sequence' - 1 = Cardinality(Undecided) + queue' + dequeued' + loss.full + loss.closed + loss.encoding
      <4>1. sequence' = sequence
        BY <1>1
      <4>2. queue \in Nat /\ dequeued \in Nat /\ queue' \in Nat /\ dequeued' \in Nat
            /\ sequence \in Nat /\ dequeued' + queue' = dequeued + queue
        BY <1>3, <1>4
      <4>3. Cardinality(Undecided) + queue' + dequeued' = Cardinality(Undecided) + queue + dequeued
        <5> DEFINE c == Cardinality(Undecided)
                   q == queue
                   r == queue'
                   d == dequeued
                   e == dequeued'
        <5>1. c \in Nat /\ q \in Nat /\ r \in Nat /\ d \in Nat /\ e \in Nat /\ e + r = d + q
          BY <2>1, <4>2
        <5> HIDE DEF c, q, r, d, e
        <5>2. c + r + e = c + q + d
          BY <5>1
        <5> QED
          BY <5>2 DEF c, q, r, d, e
      <4> QED
        BY <3>2, <4>1, <4>3, Zenon
    <3> QED
      BY <1>2, <3>1, <3>3 DEF EveryAttemptCounted
<1> QED
  BY <1>8, <1>9, <1>10 DEF Sums

\* The last word is true when it is said: nothing is about to be counted, so what is queued is
\* what was counted in and never taken.
LEMMA OthersWords ==
  ASSUME IInv, Books, Run \/ Tick \/ Stop \/ End \/ UNCHANGED vars
  PROVE  Words'
<1> USE DEF counters, finish, work
<1>1. /\ queue \in Nat /\ enqueued \in Nat /\ dequeued \in Nat /\ left \in Nat
      /\ sender \in Senders /\ status \in Statuses /\ loss \in Losses
      /\ SenderCounted /\ LeftCounted /\ LastWord /\ Reckoned /\ QueueCounted
      /\ Ended /\ Shut /\ Settled
  BY DEF Books, Sums, Words, Amounts, IInv, Shape, Losses
<1>2. CASE Look \/ Tick \/ Stop \/ Join \/ Close \/ DropChannel \/ UNCHANGED vars
  <2>1. UNCHANGED <<queue, dequeued, sender, status, loss, unconfirmed, left>>
    BY <1>2 DEF Look, Tick, Stop, Join, Close, DropChannel, vars
  <2>2. shut' = shut \/ (shut' \notin {"counted", "over"} /\ shut # "over")
    BY <1>2 DEF Look, Tick, Stop, Join, Close, DropChannel, vars
  <2> QED
    BY <1>1, <2>1, <2>2 DEF Words, SenderCounted, LeftCounted, LastWord, Reckoned
<1>3. CASE Forward
  <2>1. shut \notin {"counted", "over"} /\ shut' = shut
    BY <1>1, <1>3 DEF Forward, Ended
  <2>2. ~status.finished /\ status' = status
    BY <1>1, <1>3, <2>1 DEF LastWord, Forward
  <2>3. SenderCounted'
    <3>1. /\ sender.sent \in Nat /\ sender.lost \in Nat /\ sender.revision \in Nat
          /\ DOMAIN sender = {"sent", "revision", "lost"} /\ status.heard \in Nat
      BY <1>1 DEF Senders, Statuses
    <3>2. /\ sender'.revision = sender.revision
          /\ \/ dequeued' = dequeued + 1 /\ sender'.sent = sender.sent + 1 /\ sender'.lost = sender.lost
             \/ dequeued' = dequeued + 1 /\ sender'.sent = sender.sent /\ sender'.lost = sender.lost + 1
             \/ dequeued' = dequeued /\ sender' = sender
      BY <1>3, <3>1 DEF Forward
    <3> QED
      BY <1>1, <2>2, <3>1, <3>2 DEF SenderCounted
  <2> QED
    BY <2>1, <2>2, <2>3 DEF Words, LeftCounted, LastWord, Reckoned
<1>4. ASSUME NEW n \in Nat, NEW f \in BOOLEAN, Report(n, f), dequeued' = dequeued
      PROVE  SenderCounted' /\ (status' = status \/ status'.finished = f)
  BY <1>1, <1>4, Reporting
<1>5. CASE Tell
  <2>1. shut \notin {"counted", "over"} /\ shut' = shut
    BY <1>1, <1>5 DEF Tell, Ended
  <2>2. ~status.finished
    BY <1>1, <2>1 DEF LastWord
  <2>3. SenderCounted' /\ ~status'.finished
    <3>1. CASE UNCHANGED <<sender, status, dequeued>>
      BY <1>1, <2>2, <3>1 DEF SenderCounted
    <3>2. CASE Report(Abandoned, FALSE) /\ dequeued' = dequeued
      <4>1. Abandoned \in Nat
        BY <1>1 DEF Abandoned
      <4> QED
        BY <1>4, <2>2, <3>2, <4>1
    <3> QED
      BY <1>5, <3>1, <3>2 DEF Tell
  <2> QED
    BY <2>1, <2>3 DEF Words, LeftCounted, LastWord, Reckoned
<1>6. CASE Confirm
  <2>1. UNCHANGED <<queue, dequeued, sender, status, loss, left>> /\ shut = "gone" /\ shut' = "confirmed"
    BY <1>6 DEF Confirm
  <2>2. ~status.finished
    BY <1>1, <2>1 DEF LastWord
  <2> QED
    BY <1>1, <2>1, <2>2 DEF Words, SenderCounted, LeftCounted, LastWord, Reckoned
<1>7. CASE CountLeft
  <2>1. /\ UNCHANGED <<queue, dequeued, sender, status, loss, unconfirmed>>
        /\ shut = "confirmed" /\ left' = Abandoned
    BY <1>7 DEF CountLeft
  <2>2. ~status.finished
    BY <1>1, <2>1 DEF LastWord
  <2>3. ASSUME ~unconfirmed PROVE Abandoned = queue
    <3>1. closed /\ \A t \in Threads : pc[t] \notin {"sent"}
      BY <1>1, <2>1, <2>3 DEF Shut, Settled, Final, Making
    <3>2. enqueued = dequeued + queue
      BY <1>1, <3>1, NoneAt DEF QueueCounted, Uncounted
    <3> QED
      BY <1>1, <3>1, <3>2 DEF Abandoned
  <2> QED
    BY <1>1, <2>1, <2>2, <2>3 DEF Words, SenderCounted, LeftCounted, LastWord, Reckoned
<1>8. CASE Finish
  <2>1. UNCHANGED <<queue, dequeued, loss, unconfirmed, left>> /\ shut = "counted" /\ shut' = "over"
    BY <1>8 DEF Finish
  <2>2. ~status.finished
    BY <1>1, <2>1 DEF LastWord
  <2>3. LeftCounted'
    BY <1>1, <2>1 DEF LeftCounted
  <2>4. CASE UNCHANGED <<sender, status>>
    BY <1>1, <2>1, <2>2, <2>3, <2>4 DEF Words, SenderCounted, LastWord, Reckoned
  <2>5. CASE \E inTime \in BOOLEAN : Report(left, ~unconfirmed /\ inTime)
    <3>1. PICK inTime \in BOOLEAN : Report(left, ~unconfirmed /\ inTime)
      BY <2>5
    <3>2. (~unconfirmed /\ inTime) \in BOOLEAN /\ left \in Nat /\ dequeued' = dequeued
      BY <1>1, <2>1
    <3>3. SenderCounted' /\ (status' = status \/ status'.finished = (~unconfirmed /\ inTime))
      BY <1>4, <3>1, <3>2
    <3>4. LastWord'
      BY <2>1, <2>2, <3>3 DEF LastWord
    <3>5. ASSUME status'.finished PROVE Reckoned'
      <4>1. ~unconfirmed /\ left = queue
        BY <1>1, <2>1, <2>2, <3>3, <3>5 DEF LeftCounted
      <4>a. status' # status
        BY <2>2, <3>5
      <4>b. /\ sender.sent \in Nat /\ sender.lost \in Nat /\ sender.revision \in Nat
            /\ DOMAIN sender = {"sent", "revision", "lost"} /\ status.heard \in Nat
        BY <1>1 DEF Senders, Statuses
      <4>2. status'.abandoned = left /\ status'.queueLoss = loss /\ sender'.revision = status'.revision + 1
            /\ status'.sent = sender'.sent /\ status'.lost = sender'.lost
        BY <3>1, <4>a, <4>b DEF Report
      <4>3. status'.revision \in Nat /\ status'.heard \in Nat /\ status'.sent \in Nat /\ status'.lost \in Nat
        BY <3>1, <4>a, <4>b DEF Report
      <4> QED
        BY <1>1, <2>1, <3>3, <4>1, <4>2, <4>3 DEF Reckoned, SenderCounted
    <3> QED
      BY <2>3, <3>3, <3>4, <3>5 DEF Words, Reckoned
  <2> QED
    BY <1>8, <2>4, <2>5 DEF Finish
<1> QED
  BY <1>2, <1>3, <1>5, <1>6, <1>7, <1>8 DEF Run, End

\* Events: every number given out is in exactly one place, whoever holds what at the moment the
\* receiver closes; and a status that says it is the last is exact and stays so.
THEOREM EverythingReckoned == Spec => []AllReckoned
<1>1. IInv /\ Books /\ [Next]_vars => Books'
  <2> SUFFICES ASSUME IInv, Books, [Next]_vars PROVE Books'
    OBVIOUS
  <2>1. CASE \E t \in Threads : Emit(t)
    BY <2>1, EmitSums, EmitWords DEF Books
  <2>2. CASE Run \/ Tick \/ Stop \/ End \/ UNCHANGED vars
    BY <2>2, OthersSums, OthersWords DEF Books
  <2> QED
    BY <2>1, <2>2 DEF Next
<1>2. Books => AllReckoned
  BY DEF Books, Sums, Words, AllReckoned
<1> QED
  BY <1>1, <1>2, InitBooks, Holds, PTL DEF Spec
=============================================================================
