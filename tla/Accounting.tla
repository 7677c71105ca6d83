------------------------------- MODULE Accounting -------------------------------
(***************************************************************************)
(* What is said of the tries of one ask, twice over: to whoever reads its  *)
(* stream, as what was spent, and to whoever watches its events, as        *)
(* attempts, retries and snapshots of usage.                               *)
(*                                                                         *)
(*   StreamState        the counts of a try, and those of them that a      *)
(*                      provider measured, as the protocol's description   *)
(*                      reports them                                       *)
(*   Tally              the tries that failed and the one in progress, as  *)
(*                      counts: one that is not said counts as none        *)
(*   Trace              the same as measured: what one try leaves unsaid   *)
(*                      is unknown of the whole                            *)
(*   Attempt, Waiting   an event where each begins and where it ends,      *)
(*                      however it ends                                    *)
(*                                                                         *)
(* The columns are the counts of the prompt, which are taken together: the *)
(* other counts go by the same rule each alone.                            *)
(***************************************************************************)
EXTENDS Naturals, Sequences, FiniteSetsExt

CONSTANTS
  Tries,    \* MAX_ATTEMPTS
  Columns,  \* input and cache_read
  Amounts,  \* what a column may be said to be
  Unknown   \* None

AccountingKinds ==
  /\ Tries \in Nat \ {0} /\ IsFiniteSet(Columns)
  /\ Amounts \subseteq Nat /\ 0 \in Amounts /\ Unknown \notin Nat

VARIABLES
  at,        \* where the try is: begun, dispatched, failed, refused, waiting, or the ask over
  try,       \* the try, from one
  held,      \* StreamState.usage
  measured,  \* StreamState.measured_usage
  paid,      \* Tally.paid
  this,      \* Tally.this
  spent,     \* the whole cost as the reader was last told it
  trace,     \* accounting's State: paid, current and active
  snapshot,  \* the last UsageSnapshot
  log,       \* the events of each try
  said       \* the columns each try was ever said to have measured, if it was dispatched

counts == <<held, measured>>
tally == <<paid, this, spent>>
events == <<trace, snapshot, log>>
accountingVars == <<at, try, counts, tally, events, said>>

Zero == [c \in Columns |-> 0]
Unsaid == [c \in Columns |-> Unknown]
Undispatched == Columns

Init ==
  /\ at = "begun" /\ try = 1
  /\ held = Zero /\ measured = Unsaid
  /\ paid = Zero /\ this = Zero /\ spent = Zero
  /\ trace = [paid |-> Zero, current |-> Unsaid, active |-> FALSE] /\ snapshot = Zero
  /\ log = [a \in 1..Tries |-> <<>>] /\ said = [a \in 1..Tries |-> Undispatched]

Plus(a, b) == [c \in Columns |-> a[c] + b[c]]
\* As it would be if what is unknown of a part were nothing.
KnownOf(a, b) == [c \in Columns |-> IF b[c] = Unknown THEN a[c] ELSE a[c] + b[c]]
\* A total of which a part is unknown is unknown.
Known(a, b) == [c \in Columns |-> IF Unknown \in {a[c], b[c]} THEN Unknown ELSE a[c] + b[c]]

Total(t) == IF t.active THEN Known(t.paid, t.current) ELSE t.paid
Notes(t) == trace' = t /\ snapshot' = Total(t)
Tells(event) == log' = [log EXCEPT ![try] = Append(@, event)]

----------------------------------------------------------------------------
\* What a try streams

Prompt(u) == MapThenSumSet(LAMBDA c : u[c], Columns)
\* Usage::observe: the prompt of a report stands unless it is smaller than what was said before.
Observed(u, new) == IF Prompt(new) >= Prompt(u) THEN new ELSE u
\* Usage::measured: what a report leaves out is as it was.
Reported(u, report) == Observed(u, [c \in Columns |-> IF report[c] = Unknown THEN u[c] ELSE report[c]])
\* MeasuredUsage::observe: what is measured is what stands, or else what was measured before and
\* still stands.
Evidence(m, evidence, u) ==
  [c \in Columns |-> IF evidence[c] = u[c] THEN u[c] ELSE IF m[c] = u[c] THEN m[c] ELSE Unknown]

\* Counts the description keeps without saying them.
Keep(report) ==
  /\ at = "dispatched"
  /\ held' = Reported(held, report)
  /\ measured' = Evidence(measured, Unsaid, held')
  /\ UNCHANGED <<at, try, tally, events, said>>

\* A usage delta: the events are told what is measured of it, the reader the whole of the ask, and
\* its settlement is a snapshot.
Report(report, evidence) ==
  /\ at = "dispatched"
  /\ held' = Reported(held, report)
  /\ measured' = Evidence(measured, evidence, held')
  /\ this' = Observed(this, held') /\ spent' = Plus(paid, this') /\ UNCHANGED paid
  /\ Notes([trace EXCEPT !.current = measured'])
  /\ said' = [said EXCEPT ![try] = @ \cup {c \in Columns : measured'[c] # Unknown}]
  /\ UNCHANGED <<at, try, log>>

----------------------------------------------------------------------------
\* Attempt

\* What cannot be sent - for want of an endpoint, a credential or a header - ends a try that was
\* not dispatched, and is not tried again.
Refuse ==
  /\ at = "begun" /\ at' = "refused"
  /\ Tells("refused")
  /\ UNCHANGED <<try, counts, tally, trace, snapshot, said>>

Dispatch ==
  /\ at = "begun" /\ at' = "dispatched"
  /\ held' = Zero /\ measured' = Unsaid
  /\ Tells("dispatched") /\ Notes([paid |-> trace.paid, current |-> Unsaid, active |-> TRUE])
  /\ said' = [said EXCEPT ![try] = {}]
  /\ UNCHANGED <<try, tally>>

Ended == [paid |-> Total(trace), current |-> trace.current, active |-> FALSE]

Succeed ==
  /\ at = "dispatched" /\ at' = "over"
  /\ Tells("succeeded") /\ Notes(Ended)
  /\ UNCHANGED <<try, counts, tally, said>>

Fail ==
  /\ at = "dispatched" /\ at' = "failed"
  /\ Tells("failed") /\ Notes(Ended)
  /\ UNCHANGED <<try, counts, tally, said>>

----------------------------------------------------------------------------
\* Between two tries

\* on_retry comes after the failed try is ended and the next one's events have begun.
Retry ==
  /\ at = "failed" /\ try < Tries
  /\ at' = "waiting" /\ try' = try + 1
  /\ log' = [log EXCEPT ![try'] = <<"scheduled">>]
  /\ paid' = Plus(paid, this) /\ this' = Zero
  /\ IF paid' = Zero THEN UNCHANGED <<spent, snapshot>> ELSE spent' = paid' /\ snapshot' = Total(trace)
  /\ UNCHANGED <<counts, trace, said>>

\* The wait is over, and the next try begins under the same id.
GoOn ==
  /\ at = "waiting" /\ at' = "begun"
  /\ Tells("resumed")
  /\ UNCHANGED <<try, counts, tally, trace, snapshot, said>>

\* No more tries, or none that could help: what all of them cost is said once more.
GiveUp ==
  /\ at \in {"failed", "refused"} /\ at' = "over"
  /\ IF Plus(paid, this) = Zero THEN UNCHANGED <<spent, snapshot>>
     ELSE spent' = Plus(paid, this) /\ snapshot' = Total(trace)
  /\ UNCHANGED <<try, counts, paid, this, trace, log, said>>

\* The ask is let go of where it is: a try or a wait that has not ended is ended as it is dropped.
Drop ==
  /\ at \in {"begun", "dispatched", "waiting"} /\ at' = "over"
  /\ Tells("cancelled")
  /\ IF at = "dispatched" THEN Notes(Ended) ELSE UNCHANGED <<trace, snapshot>>
  /\ UNCHANGED <<try, counts, tally, said>>

Partial == [Columns -> Amounts \cup {Unknown}]

Next == \/ \E r \in Partial : Keep(r) \/ \E e \in Partial : Report(r, e)
        \/ Refuse \/ Dispatch \/ Succeed \/ Fail \/ Retry \/ GoOn \/ GiveUp \/ Drop

----------------------------------------------------------------------------
\* Properties

Counts == [Columns -> Nat]
Maybe == [Columns -> Nat \cup {Unknown}]

\* The shape of every variable.
TypeOK ==
  /\ at \in {"begun", "dispatched", "failed", "refused", "waiting", "over"} /\ try \in 1..Tries
  /\ held \in Counts /\ measured \in Maybe /\ paid \in Counts /\ this \in Counts /\ spent \in Counts
  /\ trace.paid \in Maybe /\ trace.current \in Maybe /\ trace.active \in BOOLEAN
  /\ snapshot \in Maybe /\ said \in [1..Tries -> SUBSET Columns]

\* What the events know of what was used is what the reader was told was spent, however many
\* tries it took and wherever they failed.
Agree == \A c \in Columns : snapshot[c] \in {Unknown, spent[c]}

\* And they know nothing of a column that a try which reached the provider never measured: what
\* is shown is never less than what was used.
NeverLess == \A c \in Columns : snapshot[c] # Unknown => \A a \in 1..Tries : c \in said[a]

\* Every try that was begun is told to have ended, once and last, before the ask is over.
Endings == {"succeeded", "failed", "refused", "cancelled"}
EndedOnce ==
  \A a \in 1..try :
    /\ \A i \in 1..Len(log[a]) : log[a][i] \in Endings => i = Len(log[a])
    /\ at = "over" \/ a < try => log[a] # <<>> /\ log[a][Len(log[a])] \in Endings

SaidInFull == Agree /\ NeverLess /\ EndedOnce
=============================================================================
