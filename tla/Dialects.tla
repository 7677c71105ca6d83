-------------------------------- MODULE Dialects --------------------------------
(***************************************************************************)
(* What a provider streams back, as each dialect of config/apis.lua reads  *)
(* it: one event at a time, with what it remembers between events, into    *)
(* deltas; what whoever is told of the deltas puts together; and whether   *)
(* the client takes the reply for an answer.  A delta of arguments does    *)
(* not say which call it is for: it is for the one in progress, the last   *)
(* that was started.                                                       *)
(*                                                                         *)
(* An answer is said piece by piece: text, thinking and its signature,     *)
(* calls and their arguments.  A piece is known by its place in it, a call *)
(* by its number.                                                          *)
(***************************************************************************)
EXTENDS Naturals, Sequences, SequencesExt

CONSTANT Said  \* how many pieces an answer has at most

DialectKinds == Said \in Nat \ {0}

VARIABLES
  dialect,
  answer,   \* the provider: what it has said so far
  ends,     \* and how it ended it, or "no"
  scratch,  \* StreamState.scratch
  holds,    \* what the reader has put together
  tail,     \* of the last events, whether each says that the answer failed
  taken     \* what the client made of the reply: "no" yet, an "answer" or a "failure"

vars == <<dialect, answer, ends, scratch, holds, tail, taken>>

Streams == {"completions", "responses", "anthropic", "google", "pi"}
Endings == {"done", "room", "other", "failed"}
Loose == {"text", "thinking", "signature"}

Init ==
  /\ dialect \in Streams \cup {"decisions"} /\ answer = <<>> /\ ends = "no"
  /\ scratch = [seen |-> {}, called |-> FALSE, stopped |-> FALSE]
  /\ holds = [pieces |-> <<>>, calls |-> <<>>, stop |-> "none"]
  /\ tail = <<>> /\ taken = "no"

----------------------------------------------------------------------------
\* The reader

Delta(is, what) == [is |-> is, what |-> what]
Stop(reason) == <<Delta("stop", reason)>>

InProgress(calls, what) ==
  IF calls = <<>> THEN calls ELSE [calls EXCEPT ![Len(calls)].args = Append(@, what)]

\* carried: what is told, one delta after another; of several stops the last is the one said.
Hear(h, d) ==
  CASE d.is \in Loose -> [h EXCEPT !.pieces = Append(@, d)]
    [] d.is = "start" -> [h EXCEPT !.calls = Append(@, [id |-> d.what, args |-> <<>>])]
    [] d.is = "args"  -> [h EXCEPT !.calls = InProgress(@, d.what)]
    [] d.is = "stop"  -> [h EXCEPT !.stop = d.what]

----------------------------------------------------------------------------
\* on_event of each dialect: what is remembered, and the deltas.  An event has pieces, each with
\* its place and the call it is of, how it says the answer ends, and whether it says it calls.

Reads(s, deltas) == [scratch |-> s, deltas |-> deltas]

Start(p) == IF p.is = "call" THEN <<Delta("start", p.of)>> ELSE <<>>
Args(p) == IF p.is = "args" THEN <<Delta("args", p.at)>> ELSE <<>>
One(p) == IF p.is \in Loose THEN <<Delta(p.is, p.at)>> ELSE Start(p) \o Args(p)
Each(e) == FlattenSeq([i \in DOMAIN e.pieces |-> One(e.pieces[i])])

OrCalls(calls) == IF calls THEN "tool_use" ELSE "end_turn"
Reason(e) == IF e.ends = "room" THEN "length" ELSE OrCalls(e.ends = "done" /\ e.calls)
StopIfSaid(e) == IF e.ends = "no" THEN <<>> ELSE Stop(Reason(e))

Begins(s, of) == [s EXCEPT !.seen = @ \cup {of}, !.called = TRUE]

\* As it would be if every fragment began a call.
FragmentBegins(r, p) ==
  IF p.of = 0 THEN Reads(r.scratch, r.deltas \o One(p))
  ELSE Reads(Begins(r.scratch, p.of), r.deltas \o <<Delta("start", p.of)>> \o Args(p))

\* Calls arrive by index, and the first fragment of each begins it, whatever else it carries.
Fragment(r, p) ==
  IF p.of = 0 THEN Reads(r.scratch, r.deltas \o One(p))
  ELSE IF p.of \in r.scratch.seen THEN Reads(r.scratch, r.deltas \o Args(p))
  ELSE Reads(Begins(r.scratch, p.of), r.deltas \o <<Delta("start", p.of)>> \o Args(p))

Completions(s, e) ==
  LET r == FoldLeft(Fragment, Reads(s, <<>>), e.pieces)
  IN  Reads([r.scratch EXCEPT !.stopped = @ \/ e.ends # "no"], r.deltas \o StopIfSaid(e))

\* As it would be if the sentinel always were a stop, and the one of a turn that is over.
SentinelEnds(s) == Reads(s, Stop("end_turn"))

\* The sentinel is a stop only where none was said.
Sentinel(s) == Reads(s, IF s.stopped THEN <<>> ELSE Stop(OrCalls(s.called)))

\* A completed response with a call among its items waits on it.
Responses(s, e) == Reads(s, Each(e) \o (IF e.ends = "failed" THEN Stop("error") ELSE StopIfSaid(e)))

Anthropic(s, e) == Reads(s, Each(e) \o StopIfSaid(e))

\* A turn that produced a call has not ended, in whichever event it did.
Google(s, e) ==
  LET now == [s EXCEPT !.called = @ \/ \E i \in DOMAIN e.pieces : e.pieces[i].is = "call"]
  IN  Reads(now, Each(e) \o (IF e.ends \in {"no", "room"} THEN StopIfSaid(e)
                             ELSE Stop(OrCalls(now.called))))

Pi(s, e) ==
  Reads(s, Each(e) \o (CASE e.ends = "failed" -> Stop("error")
                         [] e.ends = "other"  -> Stop("aborted")
                         [] OTHER             -> StopIfSaid(e)))

OnEvent(s, e) ==
  CASE dialect = "completions" -> Completions(s, e)
    [] dialect = "responses"   -> Responses(s, e)
    [] dialect = "anthropic"   -> Anthropic(s, e)
    [] dialect = "google"      -> Google(s, e)
    [] dialect = "pi"          -> Pi(s, e)

\* As it would be if only the last event were kept.
KeptOne(fails) == tail' = <<fails>>

\* kept: the last two events.
Kept(fails) == tail' = Append(IF Len(tail) = 2 THEN Tail(tail) ELSE tail, fails)

\* on_event_measured: what is remembered is kept, and the deltas go on in their order.
Takes(r) == scratch' = r.scratch /\ holds' = FoldLeft(Hear, holds, r.deltas)

----------------------------------------------------------------------------
\* The provider

Calls(said) == {said[n].of : n \in DOMAIN said} \ {0}

\* Those that say in an event of its own, with an error in it, that an answer failed.
Apart == {"completions", "anthropic", "google"}

\* How a dialect says an end as the reason of one; Completions may say a failure either way.
EndWords(how) ==
  IF how # "failed" \/ dialect \notin Apart THEN {how}
  ELSE IF dialect = "completions" THEN {how, "no"} ELSE {"no"}

\* What may come next in the answer: in Completions the arguments may come with what begins the
\* call; in Google they do, whole; everywhere else arguments are of a call that was begun.
May(p, begun) ==
  \/ p.is \in {"text", "thinking"}
  \/ p.is = "signature" /\ dialect \in {"anthropic", "google", "pi"}
  \/ p.is = "call" /\ p.of \notin begun /\ 1..p.of - 1 \subseteq begun
  \/ p.is = "args" /\ p.of \in begun /\ dialect # "google"
  \/ p.is = "args" /\ p.of \notin begun /\ 1..p.of - 1 \subseteq begun /\ dialect = "completions"

Kinds == [is : Loose, of : {0}] \cup [is : {"call", "args"}, of : 1..2]

\* A piece, or the two that make a part of Google's that calls.
Part(p) == IF dialect = "google" /\ p.is = "call" THEN <<p, [p EXCEPT !.is = "args"]>> ELSE <<p>>

Sends(pieces, how) ==
  LET said == answer \o pieces
      placed == [i \in DOMAIN pieces |-> [is |-> pieces[i].is, of |-> pieces[i].of, at |-> Len(answer) + i]]
  IN  /\ taken = "no" /\ Len(said) <= Said
      /\ answer' = said /\ ends' = how
      /\ \E word \in EndWords(how) :
           Takes(OnEvent(scratch, [pieces |-> placed, ends |-> word, calls |-> Calls(said) # {}]))
      /\ Kept(how = "failed" /\ dialect \in Apart)
      /\ UNCHANGED <<dialect, taken>>

Says(p) ==
  /\ dialect \in Streams /\ ends = "no" /\ May(p, Calls(answer))
  /\ Sends(Part(p), "no")

\* A chunk of Completions has thinking before text before calls; a candidate of Google has its
\* parts in any order.
Rank(p) == CASE p.is = "thinking" -> 1 [] p.is = "text" -> 2 [] OTHER -> 3

SaysTwo(p, q, how) ==
  /\ dialect \in {"completions", "google"} /\ ends = "no" /\ how # "failed"
  /\ dialect = "completions" => Rank(p) < Rank(q) \/ (Rank(p) = 3 /\ Rank(q) = 3)
  /\ May(p, Calls(answer)) /\ May(q, Calls(answer) \cup Calls(<<p>>))
  /\ Sends(Part(p) \o Part(q), how)

\* The end; Completions may say it again with the usage.
SaysEnd(how) ==
  /\ dialect \in Streams /\ \/ ends = "no"
                            \/ ends = how /\ how # "failed" /\ dialect = "completions"
  /\ Sends(<<>>, how)

\* An event with nothing of the answer in it: the usage, a ping.  At most one follows a failure.
SaysNothing ==
  /\ dialect \in Streams /\ taken = "no"
  /\ Len(tail) = 2 => ~tail[1]
  /\ Kept(FALSE)
  /\ UNCHANGED <<dialect, answer, ends, scratch, holds, taken>>

\* [DONE], which ends Completions if nothing did before.
Done ==
  /\ dialect = "completions" /\ taken = "no"
  /\ Len(tail) = 2 => ~tail[1]
  /\ ends' = IF ends = "no" THEN "done" ELSE ends
  /\ Takes(Sentinel(scratch)) /\ Kept(FALSE)
  /\ UNCHANGED <<dialect, answer, taken>>

\* The one document of the decisions dialect, or what cannot be read as one.
Document(how) ==
  /\ dialect = "decisions" /\ taken = "no" /\ ends = "no" /\ how \in {"done", "failed"}
  /\ ends' = how
  /\ \/ /\ how = "done" /\ answer' = <<[is |-> "text", of |-> 0]>>
        /\ Takes(Reads(scratch, <<Delta("text", 1)>> \o Stop("end_turn")))
     \/ how = "failed" /\ UNCHANGED answer /\ Takes(Reads(scratch, Stop("error")))
  /\ Kept(FALSE)
  /\ UNCHANGED <<dialect, taken>>

\* The body ends, there or anywhere before.  It is an answer if it had a stop, and neither of its
\* last events says it failed.
BodyEnds ==
  /\ taken = "no"
  /\ taken' = IF holds.stop = "none" \/ TRUE \in ToSet(tail) THEN "failure" ELSE "answer"
  /\ UNCHANGED <<dialect, answer, ends, scratch, holds, tail>>

Next ==
  \/ \E p \in Kinds : Says(p)
  \/ \E p, q \in Kinds, how \in Endings \cup {"no"} : SaysTwo(p, q, how)
  \/ \E how \in Endings : SaysEnd(how) \/ Document(how)
  \/ SaysNothing \/ Done \/ BodyEnds

----------------------------------------------------------------------------
\* Properties

\* The shape of every variable.
TypeOK ==
  /\ dialect \in Streams \cup {"decisions"} /\ ends \in Endings \cup {"no"}
  /\ Len(answer) <= Said /\ ToSet(answer) \subseteq Kinds
  /\ holds.stop \in {"none", "end_turn", "tool_use", "length", "aborted", "error"}
  /\ tail \in UNION {[1..n -> BOOLEAN] : n \in 0..2} /\ taken \in {"no", "answer", "failure"}

\* Where in the answer the pieces of a kind are, in their order.
Places(Test(_)) == SelectSeq([n \in DOMAIN answer |-> n], Test)

\* The provider went back to no call once it had begun another.
OneAfterAnother ==
  \A m, n \in DOMAIN answer : m < n /\ 0 \notin {answer[m].of, answer[n].of} => answer[m].of <= answer[n].of

\* The reader has all that was said, once and in its order, whatever came together in one event;
\* every call is begun once; and what it is given for arguments are its own while the provider
\* says one call after another.
PiecesWhole ==
  LET IsLoose(n) == answer[n].of = 0
      IsFirst(n) == answer[n].of # 0 /\ \A m \in 1..n - 1 : answer[m].of # answer[n].of
      ArgsOf(i) == LET Is(n) == answer[n].is = "args" /\ answer[n].of = i IN Places(Is)
      loose == Places(IsLoose)
      first == Places(IsFirst)
  IN  /\ holds.pieces = [n \in DOMAIN loose |-> Delta(answer[loose[n]].is, loose[n])]
      /\ [c \in DOMAIN holds.calls |-> holds.calls[c].id] = [c \in DOMAIN first |-> answer[first[c]].of]
      /\ OneAfterAnother => \A c \in DOMAIN holds.calls : holds.calls[c].args = ArgsOf(holds.calls[c].id)

\* A reply that is taken for an answer is one the provider ended, and it is said to stop for what
\* it was ended for: one cut for want of room never waits on its calls, one that failed is never a
\* turn that is over.
StopsAsMeant ==
  taken = "answer" =>
    /\ ends # "no"
    /\ ends = "done"   => holds.stop = OrCalls(Calls(answer) # {})
    /\ ends = "room"   => holds.stop = "length"
    /\ ends = "other"  => holds.stop \in {"end_turn", "tool_use", "aborted"}
    /\ ends = "failed" => holds.stop = "error"
=============================================================================
