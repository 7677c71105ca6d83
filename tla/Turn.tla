---------------------------------- MODULE Turn ----------------------------------
(***************************************************************************)
(* One ask of a model: the tries the client makes of it, and what whoever  *)
(* reads the stream of the ask holds at each point.                        *)
(*                                                                         *)
(*   Client::stream_traced  up to MaxAttempts tries, a failed one waited   *)
(*                          out, or made smaller and tried at once         *)
(*   attempt                one request and the body that streams back     *)
(*   asking                 passes on what a try says as it arrives, holds *)
(*                          back its stop, and adds up what every try cost *)
(*   the reader             takes a retry for the retraction of what it    *)
(*                          was shown, and what was spent as the whole     *)
(*                                                                         *)
(* Text is a number of pieces, a cost a small number; a piece the reader   *)
(* holds, and the reason a try stopped for, are the try they came from.    *)
(***************************************************************************)
EXTENDS Naturals, Functions

CONSTANTS
  MaxAttempts,  \* MAX_ATTEMPTS
  Pieces,       \* how many pieces of text a try may stream
  Reports,      \* what a provider may say a try has cost so far
  Budgets,      \* what may be asked for as output, of a model that says
  Minimum,      \* the least of it worth asking for
  Automatic     \* whether the caller left it to be chosen

ASSUME TurnKinds ==
  /\ MaxAttempts \in Nat \ {0} /\ Pieces \in Nat /\ Reports \subseteq Nat
  /\ Budgets \subseteq Nat /\ Minimum \in Nat /\ Automatic \in BOOLEAN

None == 0
Failed == MaxAttempts + 1

VARIABLES
  phase,    \* asked, sending, streaming, failed, waiting or over
  attempt,  \* the try, from one
  budget,   \* the output it asks for
  streamed, \* the pieces it has streamed
  stopped,  \* whether it has said it stops
  ended,    \* the cell a stop is held back in: the try it came from
  paid,     \* Tally.paid: the tries that failed
  this,     \* Tally.this: the try in progress
  why,      \* how the last try failed
  told,     \* the most each try was said to cost
  text,     \* the reader: the tries the pieces it holds came from
  spent,    \* the reader: the cost it holds
  end,      \* the reader: what ended the stream, a failure or the try whose stop it is
  served    \* the reader: the try whose upstream it was told of

try == <<streamed, stopped, ended>>
tally == <<paid, this>>
reader == <<text, spent, end, served>>
vars == <<phase, attempt, budget, try, tally, why, told, reader>>

\* What a failure says for the next try: worth asking again, or not, and the room it states.
Again(room) == [again |-> TRUE, room |-> room]
Final(room) == [again |-> FALSE, room |-> room]
NoRoom == 0

Init ==
  /\ phase = "asked" /\ attempt = 1 /\ budget \in Budgets
  /\ streamed = 0 /\ stopped = FALSE /\ ended = None
  /\ paid = 0 /\ this = 0 /\ why = Final(NoRoom)
  /\ told = [a \in 1..MaxAttempts |-> 0]
  /\ text = {} /\ spent = 0 /\ end = None /\ served = 0

Greater(a, b) == IF a > b THEN a ELSE b

----------------------------------------------------------------------------
\* asking, before the first try

Asks ==
  /\ phase = "asked" /\ phase' = "sending"
  /\ UNCHANGED <<attempt, budget, try, tally, why, told, reader>>

\* The configuration does not load, there is no such model, its run is at its cap, or it is
\* spoken to in a way nothing here speaks: nothing is sent.
Unasked ==
  /\ phase = "asked" /\ phase' = "over" /\ end' = Failed
  /\ UNCHANGED <<attempt, budget, try, tally, why, told, text, spent, served>>

----------------------------------------------------------------------------
\* The body of a reply

Answered ==
  /\ phase = "sending" /\ phase' = "streaming"
  /\ UNCHANGED <<attempt, budget, try, tally, why, told, reader>>

Text ==
  /\ phase = "streaming" /\ streamed < Pieces
  /\ streamed' = streamed + 1 /\ text' = text \cup {attempt}
  /\ UNCHANGED <<phase, attempt, budget, stopped, ended, tally, why, told, spent, end, served>>

\* A report is of the whole try so far, and one may come late: the most is what counts.
Usage(cost) ==
  /\ phase = "streaming" /\ told[attempt] # cost
  /\ told' = [told EXCEPT ![attempt] = Greater(@, cost)]
  /\ this' = Greater(this, cost)
  /\ spent' = paid + this'
  /\ UNCHANGED <<phase, attempt, budget, try, paid, why, text, end, served>>

\* A stop may come before the usage and more than once.
Stop ==
  /\ phase = "streaming" /\ stopped' = TRUE /\ ended' = attempt
  /\ UNCHANGED <<phase, attempt, budget, streamed, tally, why, told, reader>>

----------------------------------------------------------------------------
\* How a try ends

\* The body ended, it had stopped, and nothing in it says it failed.  The upstream that
\* served it, where one was named, is told first.
Whole ==
  /\ phase = "streaming" /\ stopped
  /\ phase' = "over"
  /\ end' = IF ended # None THEN ended ELSE attempt
  /\ served' \in {served, attempt}
  /\ UNCHANGED <<attempt, budget, try, tally, why, told, text, spent>>

\* No credential, a request that cannot be sent, a refusal by status, or nobody there.
Refused ==
  /\ phase = "sending" /\ phase' = "failed"
  /\ why' \in {Again(NoRoom)} \cup {Final(room) : room \in Budgets \cup {NoRoom}}
  /\ UNCHANGED <<attempt, budget, try, tally, told, reader>>

\* Quiet for too long, lost, not to be read, closed without a stop, an error in the stream, or
\* a tool call written as text; an overflow said in the stream gives no room.
Broken ==
  /\ phase = "streaming" /\ phase' = "failed"
  /\ why' \in {Again(NoRoom), Final(NoRoom)}
  /\ UNCHANGED <<attempt, budget, try, tally, told, reader>>

\* Prepared::lowered: a smaller output fits, nobody chose the larger one, and it is worth having.
Lowered == Automatic /\ why.room # NoRoom /\ Minimum <= why.room /\ why.room < budget

\* As it would be if what a try cost went with it.
RetryFree ==
  /\ phase = "failed" /\ attempt < MaxAttempts /\ (Lowered \/ why.again)
  /\ phase' = "waiting"
  /\ budget' = IF Lowered THEN why.room ELSE budget
  /\ this' = 0
  /\ text' = {} /\ spent' = paid
  /\ UNCHANGED <<attempt, try, paid, why, told, end, served>>

\* on_retry: the reader retracts, and is told again what the failed tries cost.
Retry ==
  /\ phase = "failed" /\ attempt < MaxAttempts /\ (Lowered \/ why.again)
  /\ phase' = "waiting"
  /\ budget' = IF Lowered THEN why.room ELSE budget
  /\ paid' = paid + this /\ this' = 0
  /\ text' = {} /\ spent' = paid'
  /\ UNCHANGED <<attempt, try, why, told, end, served>>

\* The wait is over.  What held a stop back is not emptied: the next try's own stop fills it.
GoOn ==
  /\ phase = "waiting" /\ phase' = "sending" /\ attempt' = attempt + 1
  /\ streamed' = 0 /\ stopped' = FALSE
  /\ UNCHANGED <<budget, ended, tally, why, told, reader>>

\* As it would be if a try that ran out were left without a word.
GiveUpEarly ==
  /\ phase = "failed" /\ attempt < MaxAttempts /\ ~Lowered /\ ~why.again
  /\ phase' = "over" /\ end' = Failed
  /\ spent' = paid + this
  /\ UNCHANGED <<attempt, budget, try, tally, why, told, text, served>>

\* What every try cost is said once more, and then that it failed.
GiveUp ==
  /\ phase = "failed" /\ (attempt = MaxAttempts \/ (~Lowered /\ ~why.again))
  /\ phase' = "over" /\ end' = Failed
  /\ spent' = paid + this
  /\ UNCHANGED <<attempt, budget, try, tally, why, told, text, served>>

Next == \/ Asks \/ Unasked \/ Answered \/ Text \/ (\E c \in Reports : Usage(c)) \/ Stop
        \/ Whole \/ Refused \/ Broken \/ Retry \/ GoOn \/ GiveUp

Spec == Init /\ [][Next]_vars

\* A body that says nothing for long enough is given up, and so is every wait.
FairSpec == Spec /\ WF_vars(Asks \/ Unasked) /\ WF_vars(Whole \/ Broken) /\ WF_vars(Answered \/ Refused)
                 /\ WF_vars(Retry \/ GiveUp) /\ WF_vars(GoOn)

----------------------------------------------------------------------------
\* Properties

Billed == FoldFunction(LAMBDA a, b : a + b, 0, told)
Bills == [1..MaxAttempts -> Reports \cup {0}]

\* The shape of every variable.
TypeOK ==
  /\ phase \in {"asked", "sending", "streaming", "failed", "waiting", "over"} /\ attempt \in 1..MaxAttempts
  /\ budget \in Budgets /\ streamed \in 0..Pieces /\ stopped \in BOOLEAN
  /\ ended \in 0..MaxAttempts /\ paid \in Nat /\ this \in Reports \cup {0}
  /\ told \in Bills
  /\ text \subseteq 1..MaxAttempts /\ spent \in Nat
  /\ end \in 0..Failed /\ served \in 0..MaxAttempts

\* What the reader is left with as an answer is all of the one try that stopped, ended by that
\* try's own stop, and nothing of the ones before it.
WholeAnswer ==
  end \notin {None, Failed} =>
    stopped /\ end = attempt /\ text = {attempt : p \in 1..streamed} /\ served \in {None, attempt}

\* When the ask is over the reader has been told all of what it cost, failed tries included.
AllSpent == phase = "over" => spent = Billed

\* Every ask is ended by a stop or a failure that is said.
SaysItsEnd == <>(end # None)
=============================================================================
