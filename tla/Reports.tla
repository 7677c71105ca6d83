--------------------------------- MODULE Reports ---------------------------------
(***************************************************************************)
(* The report of a session: a file under its name, put there whole by a    *)
(* process of the session, told of to whoever started it, and read page by *)
(* page by whoever may ask.  The file outlives the session, and the name   *)
(* passes on.                                                              *)
(*                                                                         *)
(* A report is the length of its lines.  Every process hands in once, and  *)
(* its report is known by it: revision has the pid in it.                  *)
(***************************************************************************)
EXTENDS Kinship, Sequences

CONSTANTS
  Writer,              \* the name that is reported under
  Others,              \* the sessions that stay, each with its .parent and .session note
  Talk,                \* magi.agent_talk
  Tools,               \* the processes that hand in
  Says,                \* what each of them reports, and what is there of an earlier format
  PageLines, PageBytes,
  MaxLives,            \* how many sessions have the name, one after another
  NoReport, Old        \* no file; one of an earlier format

ReportKinds ==
  /\ Writer \in Ids /\ DOMAIN Others = Ids \ {Writer} /\ Talk \in Talks
  /\ \A x \in Ids \ {Writer} : Others[x] \in [up : Ids \cup {Nobody}, run : Runs]
  /\ Says \in [Tools \cup {Old} -> Seq(Nat) \ {<<>>}]
  /\ {PageLines, PageBytes, MaxLives} \subseteq Nat \ {0}
  /\ {NoReport, Old} \cap Tools = {} /\ NoReport # Old

VARIABLES
  up, run,  \* the .parent and .session notes
  life,     \* how many sessions had the name
  file,     \* the .report: who handed it in, where that was, and its lines
  stage,    \* how far each process is: "none", "started", "placed", "kept", "over"
  has,      \* what it holds: whose child it is and its run; and whether its name has passed on
  told,     \* the reports whoever started the session was told of
  look      \* one that reads: who, what it knows, which line is next, and what it was shown

vars == <<up, run, life, file, stage, has, told, look>>

NoLook == [by |-> Nobody]
None == [parent |-> Nobody, run |-> NoRun]

Init ==
  /\ up = [x \in Ids |-> IF x = Writer THEN Nobody ELSE Others[x].up]
  /\ run = [x \in Ids |-> IF x = Writer THEN NoRun ELSE Others[x].run]
  /\ life = 0
  /\ \/ file = [of |-> NoReport]
     \/ file = [of |-> Old, at |-> None, lines |-> Says[Old]]
  /\ stage = [t \in Tools |-> "none"] /\ has = [t \in Tools |-> [at |-> None, its |-> 0, apart |-> FALSE]]
  /\ told = {} /\ look = NoLook

There == run[Writer] # NoRun

\* announce, with what it was started with.
Start(p) ==
  /\ ~There /\ life < MaxLives
  /\ life' = life + 1
  /\ up' = [up EXCEPT ![Writer] = p]
  /\ \E r \in IF p = Nobody THEN Runs \ {Others[x].run : x \in DOMAIN Others} ELSE {run[p]} :
       run' = [run EXCEPT ![Writer] = r]
  /\ UNCHANGED <<file, stage, has, told, look>>

\* forget: the report stays.
End ==
  /\ There
  /\ up' = [up EXCEPT ![Writer] = Nobody] /\ run' = [run EXCEPT ![Writer] = NoRun]
  /\ UNCHANGED <<life, file, stage, has, told, look>>

----------------------------------------------------------------------------
\* hand_in, in a process that may outlive its session

At(t, s) == stage[t] = s
To(t, s) == stage' = [stage EXCEPT ![t] = s]

\* standing, with the parent as it is noted; the run is in the environment too.
Begin(t) ==
  /\ At(t, "none") /\ There /\ To(t, "started")
  /\ has' = [has EXCEPT ![t].at = [parent |-> up[Writer], run |-> run[Writer]], ![t].its = life]
  /\ UNCHANGED <<up, run, life, file, told, look>>

\* session_of: the note before the environment.
Place(t) ==
  /\ At(t, "started") /\ To(t, "placed")
  /\ has' = [has EXCEPT ![t].at.run = IF There THEN run[Writer] ELSE @]
  /\ UNCHANGED <<up, run, life, file, told, look>>

\* keep: a file of its own first, so that the rename is all that others see.
Keep(t) ==
  /\ At(t, "placed") /\ To(t, "kept")
  /\ file' = [of |-> t, at |-> has[t].at, lines |-> Says[t]]
  /\ has' = [has EXCEPT ![t].apart = life # has[t].its]
  /\ UNCHANGED <<up, run, life, told, look>>

\* The note to whoever started it, which goes the way of any message.
Tell(t) ==
  /\ At(t, "kept") /\ To(t, "over")
  /\ told' = IF has[t].at.parent = Nobody THEN told ELSE told \cup {t}
  /\ UNCHANGED <<up, run, life, file, has, look>>

\* It is killed, cannot write, or its note is not taken.
Fail(t) ==
  /\ stage[t] \in {"started", "placed", "kept"} /\ To(t, "over")
  /\ UNCHANGED <<up, run, life, file, has, told, look>>

----------------------------------------------------------------------------
\* read

\* As it would be if the runs were not compared.
BarredByWalls(x, forked) ==
  LET live == Whom(up, run, Writer)
      kept == file.at.run
      them == [id |-> Writer,
               parent |-> IF up[Writer] = Nobody THEN file.at.parent ELSE up[Writer],
               root |-> IF up[Writer] = Nobody /\ ~There /\ kept # NoRun THEN kept ELSE live.root]
      me == Whom(up, run, x)
      relation == IF Writer \in forked THEN "child" ELSE Between(me, them)
  IN ~MayReach(me, relation, Talk)

\* barred
Barred(x, forked) ==
  \/ There /\ file.at.run # NoRun /\ file.at.run # run[Writer]
  \/ BarredByWalls(x, forked)

Bytes(lines, a, b) == LET sum[i \in a - 1..b] == IF i < a THEN 0 ELSE sum[i - 1] + lines[i] + 1 IN sum[b]

\* The last line of the page that begins after first.
PageEnd(lines, first) ==
  LET whole == {last \in first..Len(lines) :
                  /\ last - first <= PageLines
                  /\ last <= first + 1 \/ Bytes(lines, first + 1, last) <= PageBytes}
  IN CHOOSE last \in whole : \A l \in whole : l <= last

\* standing: the copy of the children, in a process for each page.
Look(x) ==
  /\ look.by = Nobody \/ (look.by = x /\ look.its = Nobody /\ ~look.whole)
  /\ LET l == IF look.by = x THEN look
              ELSE [next |-> 1, shown |-> <<>>, whole |-> FALSE, within |-> TRUE]
     IN look' = [by |-> x, its |-> <<life, There>>, forked |-> IF There THEN Children(up, Ids, x) ELSE {},
                 next |-> l.next, shown |-> l.shown, whole |-> l.whole, within |-> l.within]
  /\ UNCHANGED <<up, run, life, file, stage, has, told>>

\* Whoever reads it could ask the session that handed it in, as it was or, in the run it was of,
\* as whoever has the name is; or whoever has it comes or goes while it is looked at, or it was
\* written by a process of an earlier one.
Within(x) ==
  LET me == Whom(up, run, x)
      then == [id |-> Writer, parent |-> file.at.parent, root |-> file.at.run]
  IN \/ MayReach(me, Between(me, then), Talk)
     \/ run[Writer] = file.at.run /\ MayReach(me, Between(me, Whom(up, run, Writer)), Talk)
     \/ file.of = Old \/ has[file.of].apart \/ look.its # <<life, There>>

Read ==
  /\ look.by # Nobody /\ look.its # Nobody
  /\ file.of # NoReport /\ ~Barred(look.by, look.forked)
  /\ LET first == IF look.next - 1 < Len(file.lines) THEN look.next - 1 ELSE Len(file.lines)
         last == PageEnd(file.lines, first)
     IN look' = [look EXCEPT !.shown = @ \o [i \in 1..last - first |-> <<file.of, first + i>>],
                             !.its = Nobody, !.next = last + 1, !.whole = last >= Len(file.lines),
                             !.within = @ /\ Within(look.by)]
  /\ UNCHANGED <<up, run, life, file, stage, has, told>>

Next ==
  \/ \E p \in (Ids \ {Writer}) \cup {Nobody} : Start(p)
  \/ End
  \/ \E t \in Tools : Begin(t) \/ Place(t) \/ Keep(t) \/ Tell(t) \/ Fail(t)
  \/ \E x \in Ids \ {Writer} : Look(x)
  \/ Read

Spec == Init /\ [][Next]_vars

----------------------------------------------------------------------------
\* Properties

\* Nobody reads a report whose writer it could not have asked, whoever has the name by then; that
\* is of processes that end with their session.
WithinWalls == look.by # Nobody => look.within

\* The pages of a report that is not handed in anew while it is read are all of it, each line
\* once and in order.
PagesWhole ==
  look.by # Nobody /\ look.whole =>
    \/ \E i, j \in DOMAIN look.shown : look.shown[i][1] # look.shown[j][1]
    \/ \E r \in {look.shown[i][1] : i \in DOMAIN look.shown} :
         /\ \A i \in DOMAIN look.shown : look.shown[i] = <<r, i>>
         /\ (file.of = r => Len(look.shown) = Len(file.lines))

\* Whoever was told of a report finds it, whatever became of the session, unless another has been
\* handed in.
ToldOfWhatIsThere ==
  \A t \in told : file.of = t \/ \E s \in Tools \ {t} : stage[s] \in {"kept", "over"}
=============================================================================
