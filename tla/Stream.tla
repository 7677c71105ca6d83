--------------------------------- MODULE Stream ---------------------------------
(***************************************************************************)
(* The parser of a provider's event stream: bytes come in chunks cut       *)
(* anywhere, lines end in CR, LF or CRLF, a blank line ends an event, and  *)
(* a line, an event and the stream may each hold so much.                  *)
(*                                                                         *)
(* A byte is "cr", "lf" or one of Bytes, where "data", "event" and "note"  *)
(* stand for the whole of the field names data: and event: and the colon   *)
(* of a comment, "bom" for a byte order mark and "bad" for what makes a    *)
(* line malformed UTF-8.  A line that begins with another is of a field    *)
(* that is not read.                                                       *)
(***************************************************************************)
EXTENDS Naturals, Sequences, SequencesExt

CONSTANTS
  Bytes,            \* what there is beside line ends
  Line, Event, Total,  \* the limits
  Longest, Chunk    \* bounds: how long the stream, and one chunk of it, is

StreamKinds == {Line, Event, Total, Longest, Chunk} \subseteq Nat

Ends == {"cr", "lf"}

VARIABLES
  text,    \* history: what was let in
  parser,  \* the Parser
  out,     \* the events it has delivered
  over     \* finish was called

vars == <<text, parser, out, over>>

None == <<>>  \* no event, no name, no failure

Init ==
  /\ text = <<>> /\ out = <<>> /\ over = FALSE
  /\ parser = [buffer |-> <<>>, name |-> <<>>, data |-> <<>>, skip |-> FALSE,
               started |-> FALSE, failed |-> "no", held |-> 0, seen |-> 0]

----------------------------------------------------------------------------
\* One line, in a record of the parser and what it has delivered.

\* As it would be if what had been held for an event were not forgotten with it.
TakenHeld(s) ==
  [p |-> [s.p EXCEPT !.name = <<>>, !.data = <<>>],
   out |-> IF s.p.data = <<>> /\ s.p.name = <<>> THEN s.out
           ELSE Append(s.out, [name |-> s.p.name, data |-> s.p.data])]

\* take
Taken(s) ==
  [p |-> [s.p EXCEPT !.held = 0, !.name = <<>>, !.data = <<>>],
   out |-> IF s.p.data = <<>> /\ s.p.name = <<>> THEN s.out
           ELSE Append(s.out, [name |-> s.p.name, data |-> s.p.data])]

Fail(s, why) == [s EXCEPT !.p.failed = why]

\* field
Field(s, line) ==
  LET value == Tail(line)
      held == s.p.held + Len(value) + 1
      counted == [s EXCEPT !.p.held = held]
  IN IF Head(line) = "event" THEN [s EXCEPT !.p.name = value]
     ELSE IF Head(line) # "data" THEN s
     ELSE IF held > Event THEN Fail(counted, "event")
     ELSE [counted EXCEPT !.p.data = Append(@, value)]

\* line: what is buffered, without a mark at the front of the first.
Lined(s) ==
  LET raw  == s.p.buffer
      line == IF ~s.p.started /\ raw # <<>> /\ raw[1] = "bom" THEN Tail(raw) ELSE raw
      read == [s EXCEPT !.p.buffer = <<>>, !.p.started = TRUE]
  IN IF Contains(raw, "bad") THEN Fail([s EXCEPT !.p.buffer = <<>>], "utf8")
     ELSE IF line = <<>> THEN Taken(read)
     ELSE Field(read, line)

\* As it would be if the line feed after a carriage return were a line end of its own.
ByteTwice(s, b) ==
  IF s.p.failed # "no" THEN s
  ELSE IF b \in Ends THEN Lined(s)
  ELSE IF Len(s.p.buffer) >= Line THEN Fail(s, "line")
  ELSE [s EXCEPT !.p.buffer = Append(@, b)]

\* feed, of one byte; the first failure is the last.
Byte(s, b) ==
  LET fresh == [s EXCEPT !.p.skip = FALSE] IN
  IF s.p.failed # "no" THEN s
  ELSE IF s.p.skip /\ b = "lf" THEN fresh
  ELSE IF b \in Ends THEN Lined([s EXCEPT !.p.skip = (b = "cr")])
  ELSE IF Len(s.p.buffer) >= Line THEN Fail(fresh, "line")
  ELSE [fresh EXCEPT !.p.buffer = Append(@, b)]

----------------------------------------------------------------------------
Chunks == UNION {[1..n -> Bytes \cup Ends] : n \in 1..Chunk}

\* feed, of one chunk.
Push ==
  \E chunk \in Chunks :
    /\ ~over /\ parser.failed = "no" /\ Len(text) + Len(chunk) <= Longest
    /\ LET seen == parser.seen + Len(chunk)
           s == [p |-> [parser EXCEPT !.seen = seen], out |-> out]
           t == IF seen > Total THEN Fail(s, "total") ELSE FoldLeft(Byte, s, chunk)
       IN /\ parser' = t.p /\ out' = t.out
          /\ text' = IF seen > Total THEN text ELSE text \o chunk
    /\ UNCHANGED over

\* finish: a last line without an end, and a last event without a blank line.
Finish ==
  /\ ~over /\ over' = TRUE
  /\ LET s == [p |-> parser, out |-> out]
         t == IF parser.buffer = <<>> THEN s ELSE Lined(s)
         u == IF t.p.failed = "no" THEN Taken([t EXCEPT !.p.skip = FALSE]) ELSE t
     IN IF parser.failed = "no" THEN parser' = u.p /\ out' = u.out ELSE UNCHANGED <<parser, out>>
  /\ UNCHANGED text

Next == Push \/ Finish

Spec == Init /\ [][Next]_vars
----------------------------------------------------------------------------
\* What a stream means, read off all of its text at once.

\* Places in the order they have.
InOrder(t, places) == SelectSeq([i \in DOMAIN t |-> i], LAMBDA i : i \in places)

\* Where lines end, where each begins, and the line itself.
LineEnds(t) == {i \in DOMAIN t : t[i] \in Ends /\ ~(t[i] = "lf" /\ i > 1 /\ t[i - 1] = "cr")}
Begin(t, i) ==
  LET j == Max({0} \cup {e \in LineEnds(t) : e < i})
  IN IF j > 0 /\ t[j] = "cr" /\ j < Len(t) /\ t[j + 1] = "lf" THEN j + 2 ELSE j + 1
LineAt(t, i) ==
  LET b == IF Begin(t, i) = 1 /\ t[1] = "bom" THEN 2 ELSE Begin(t, i) IN SubSeq(t, b, i - 1)

Blank(t) == {i \in LineEnds(t) : LineAt(t, i) = <<>>}

\* The lines of one field between a blank line, or the front, and the line that ends at i.
Of(t, i, field) ==
  LET from == Max({0} \cup {b \in Blank(t) : b < i})
      at == {k \in LineEnds(t) : from < k /\ k <= i /\ LineAt(t, k) # <<>> /\ LineAt(t, k)[1] = field}
      row == InOrder(t, at)
  IN [n \in DOMAIN row |-> Tail(LineAt(t, row[n]))]

\* The places at which a stream can be read no further.
Broken(t) ==
  {i \in DOMAIN t \ LineEnds(t) : t[i] \notin Ends /\ i - Begin(t, i) >= Line}
    \cup {i \in LineEnds(t) : \E k \in Begin(t, i)..i - 1 : t[k] = "bad"}
    \cup {i \in LineEnds(t) : FoldLeft(LAMBDA n, v : n + Len(v) + 1, 0, Of(t, i, "data")) > Event}

\* The events of what comes before that.
EventsOf(t) ==
  LET ends == {i \in Blank(t) : \A k \in Broken(t) : i < k}
      at(i) == LET names == Of(t, i, "event")
               IN [name |-> IF names = <<>> THEN <<>> ELSE Last(names), data |-> Of(t, i, "data")]
      row == InOrder(t, ends)
      all == [n \in DOMAIN row |-> at(row[n])]
  IN SelectSeq(all, LAMBDA e : e.name # <<>> \/ e.data # <<>>)

----------------------------------------------------------------------------
\* Properties

\* feed and finish: where the chunks are cut does not matter.  What was delivered is each event
\* whose blank line comes before the first place that cannot be read, though the same chunk holds
\* that place; the parser fails exactly there, or at the chunk that is one too many; and an end
\* counts as the blank line that is missing.
CutsDoNotMatter ==
  LET stopped == parser.failed = "total"
      all == IF over /\ ~stopped THEN text \o <<"cr", "cr">> ELSE text
  IN /\ out = EventsOf(all)
     /\ ~stopped => ((parser.failed # "no") <=> (Broken(all) # {}))
=============================================================================
