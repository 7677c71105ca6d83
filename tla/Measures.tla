-------------------------------- MODULE Measures --------------------------------
(***************************************************************************)
(* The counts of a try's prompt, and those of them that were measured, as  *)
(* the dialects of config/apis.lua make them of what a provider reports.   *)
(*                                                                         *)
(*   inclusive dialects   Completions, Responses and Google say the whole  *)
(*                        prompt and what of it was read from a cache, in  *)
(*                        one report or in several, in one place or two    *)
(*   exclusive dialects   Anthropic and pi say each part, once             *)
(*                                                                         *)
(* What becomes of the counts then is Accounting's: a report of a dialect  *)
(* is a Report there.  A figure that is left out and one that is no count  *)
(* are Unknown.                                                            *)
(***************************************************************************)
EXTENDS Accounting

MeasuresKinds == AccountingKinds /\ Columns = {"input", "cache_read"}

VARIABLES
  inclusive,  \* which of the two the dialect is
  known,      \* scratch.usage_total
  told,       \* the provider: every total and every cached read it said
  fits        \* and whether no report of it was at odds with what was said before

measuresVars == <<accountingVars, inclusive, known, told, fits>>

MeasuresInit ==
  /\ Init /\ inclusive \in BOOLEAN /\ known = Unknown
  /\ told = [totals |-> {}, reads |-> {}] /\ fits = TRUE

MaybeCounts == Amounts \cup {Unknown}
Counted(S) == S \ {Unknown}
Largest(S) == IF Counted(S) = {} THEN Unknown ELSE Max(Counted(S))
Tell(totals, reads) ==
  told' = [totals |-> told.totals \cup Counted(totals), reads |-> told.reads \cup Counted(reads)]

----------------------------------------------------------------------------
\* inclusive_usage

\* A total smaller than the one known is not taken, nor the read that comes with it.
Stale(total) == total # Unknown /\ known # Unknown /\ total < known
Whole(total) == IF total = Unknown \/ Stale(total) THEN known ELSE total

\* As it would be if a read that is said took the place of a larger one.
ReadSaid(total, read) ==
  IF read = Unknown \/ Stale(total) THEN held["cache_read"] ELSE read

\* A read is no less than before.
Read(total, read) == Largest({held["cache_read"], IF Stale(total) THEN Unknown ELSE read})

\* Of a known prompt the read is a part, and the rest is input; until it is known a read stands alone.
Parts(total, read) ==
  LET whole == Whole(total)
      part == Min({Read(total, read), whole})
  IN  IF whole # Unknown THEN [c \in Columns |-> IF c = "input" THEN whole - part ELSE part]
      ELSE IF read # Unknown THEN [held EXCEPT !["cache_read"] = read] ELSE held

\* As it would be if a known prompt were enough to measure its input.
InputOfWhole(whole, parts, read) ==
  [c \in Columns |-> IF c = "input" THEN IF whole # Unknown THEN parts["input"] ELSE Unknown
                     ELSE IF read = parts["cache_read"] THEN read ELSE Unknown]

\* A read is measured if it stands as it was said, and the input if the prompt is known and the
\* read that was taken from it is measured, now or before.
MeasuredOf(whole, parts, read) ==
  [c \in Columns |->
     IF c = "cache_read" THEN IF read = parts[c] THEN read ELSE Unknown
     ELSE IF whole # Unknown /\ parts["cache_read"] \in {read, measured["cache_read"]} THEN parts[c]
     ELSE Unknown]

\* A report of the whole prompt, and of the cached read in one place and the other.
Includes(total, nested, other) ==
  LET read == Largest({nested, other})
      parts == Parts(total, read)
  IN  /\ at = "dispatched" /\ inclusive
      /\ Report(parts, MeasuredOf(Whole(total), parts, read))
      /\ known' = Whole(total)
      /\ fits' = (fits /\ ~Stale(total)
                       /\ (known' # Unknown => Read(total, read) <= known'))
      /\ Tell({total}, {nested, other}) /\ UNCHANGED inclusive

\* message_start and done: what is left out counts as none, and is not measured.
Excludes(input, read) ==
  /\ at = "dispatched" /\ ~inclusive /\ told = [totals |-> {}, reads |-> {}]
  /\ LET evidence == [c \in Columns |-> IF c = "input" THEN input ELSE read]
     IN  Report([c \in Columns |-> IF evidence[c] = Unknown THEN 0 ELSE evidence[c]], evidence)
  /\ Tell({input}, {read}) /\ UNCHANGED <<inclusive, known, fits>>

\* message_delta: the output alone.
SaysOutput ==
  /\ at = "dispatched" /\ ~inclusive
  /\ Report(held, Unsaid) /\ UNCHANGED <<inclusive, known, told, fits>>

MeasuresNext ==
  \/ Dispatch /\ UNCHANGED <<inclusive, known, told, fits>>
  \/ \E total, nested, other \in MaybeCounts : Includes(total, nested, other)
  \/ \E input, read \in MaybeCounts : Excludes(input, read)
  \/ SaysOutput

----------------------------------------------------------------------------
\* Properties

\* The shape of the variables that are not Accounting's.
MeasuresTypeOK ==
  /\ inclusive \in BOOLEAN /\ fits \in BOOLEAN /\ known \in MaybeCounts
  /\ told \in [totals : SUBSET Amounts, reads : SUBSET Amounts]

\* Nothing is said to be measured that the provider did not say, in whatever reports it said it and
\* whatever was wrong with others: a read is one it said, and an input is a total that it said less
\* a read that it said.
MeasuredWasSaid ==
  /\ measured["cache_read"] \in told.reads \cup {Unknown}
  /\ measured["input"] # Unknown =>
       IF inclusive THEN \E t \in told.totals, r \in told.reads : measured["input"] + r = t
       ELSE measured["input"] \in told.totals

\* The prompt is no less than the largest total said, and no more than the largest count that was
\* said of it; where the reports fit, its parts are that total, the cached one is the largest read
\* said, and an input is measured only with the read that it leaves.
PartsOfWhole ==
  inclusive =>
    /\ known = Largest(told.totals)
    /\ known # Unknown => Prompt(held) >= known
    /\ Prompt(held) <= Max(told.totals \cup told.reads \cup {0})
    /\ fits => held["cache_read"] = Max(told.reads \cup {0})
    /\ fits /\ known # Unknown => Prompt(held) = known
    /\ fits /\ measured["input"] # Unknown => measured["cache_read"] # Unknown
=============================================================================
