--------------------------------- MODULE Branch ---------------------------------
(***************************************************************************)
(* Ending a branch.  A stop reaches one child; below it every session ends *)
(* because the one that started it did, a generation at a time.  Whoever   *)
(* sent the stop looks on, again and again: it lists the project, reads    *)
(* the notes of whom it found, and dials everybody it has ever seen below  *)
(* the child.                                                              *)
(*                                                                         *)
(* The tree is fixed (Starter), and what runs under a name has it for      *)
(* good: names that pass on are the matter of Minting and Signals.         *)
(***************************************************************************)
EXTENDS Kinship

CONSTANTS
  Starter,  \* who starts each session, or Nobody
  Me,       \* who disbands, a main
  Named,    \* what it names
  Keys,     \* the children it holds a secret of
  Run,      \* the run of Me and of all that is below it
  Mortals   \* the sessions that may be killed

BranchKinds == /\ Starter \in [Ids -> Ids \cup {Nobody}] /\ Starter[Me] = Nobody
               /\ Me \in Ids /\ Named \in Ids \ {Me} /\ Keys \subseteq Ids
               /\ Run \notin Ids \cup {NoRun} /\ Mortals \subseteq Ids \ {Me}

VARIABLES
  life,   \* how far each session is
  up,     \* the .parent notes
  run,    \* the .session notes
  stage,  \* how far the disband is
  clock,  \* how long it has looked: GRACE and WAIT end it
  todo,   \* the names this listing, reading or dialling has still to come to
  held,   \* who this listing found
  crew,   \* the Whoms read of them so far
  ever,   \* who was seen below Named at any look
  left,   \* who of them this look found answering
  due     \* history: who below Named was announced as this look began

vars == <<life, up, run, stage, clock, todo, held, crew, ever, left, due>>
project == <<life, up, run>>
looking == <<stage, clock, todo, held, crew, ever, left, due>>

Listening(x) == life[x] \in {"bound", "up", "ending", "bare"}
Over(x) == life[x] \in {"killed", "over"}
Swept(x) == run[x] = NoRun

\* A session and everybody above it, by who started whom and whatever the notes say.
Line(x) ==
  {y \in Ids : \A S \in SUBSET Ids :
     x \in S /\ (\A z \in S : Starter[z] \in Ids => Starter[z] \in S) => y \in S}

\* The line of a session of the branch; empty beside it.
Path(x) == IF Named \in Line(x) THEN Line(x) ELSE {}
Branch == {x \in Ids \ {Named} : Path(x) # {}}

Init ==
  /\ life \in [Ids -> {"none", "up"}] /\ life[Me] = "up"
  /\ \A x \in Ids \ {Me} : life[x] = "up" => life[Starter[x]] = "up"
  /\ up = [x \in Ids |-> IF life[x] = "up" THEN Starter[x] ELSE Nobody]
  /\ run = [x \in Ids |-> IF life[x] = "up" THEN Run ELSE NoRun]
  /\ stage = "none" /\ clock = "early"
  /\ todo = {} /\ held = {} /\ crew = {} /\ ever = {} /\ left = {} /\ due = {}

----------------------------------------------------------------------------
\* The sessions

\* A session that serves has another started.
Start(x) ==
  /\ life[x] = "none" /\ life[Starter[x]] = "up"
  /\ life' = [life EXCEPT ![x] = "coming"]
  /\ UNCHANGED <<up, run, looking>>

\* serving::binding::bind
Bind(x) ==
  /\ life[x] = "coming"
  /\ life' = [life EXCEPT ![x] = "bound"]
  /\ UNCHANGED <<up, run, looking>>

\* announce
Announce(x) ==
  /\ life[x] = "bound"
  /\ life' = [life EXCEPT ![x] = "up"]
  /\ run' = [run EXCEPT ![x] = Run] /\ up' = [up EXCEPT ![x] = Starter[x]]
  /\ UNCHANGED looking

\* The harness of a session ends once the session that started it is gone, and its serve with it.
Follow(x) ==
  /\ Starter[x] \in Ids /\ Over(Starter[x])
  /\ \/ life[x] = "coming" /\ life' = [life EXCEPT ![x] = "over"]
     \/ life[x] \in {"bound", "up"} /\ life' = [life EXCEPT ![x] = "ending"]
  /\ UNCHANGED <<up, run, looking>>

\* The loop is over: forget takes the notes ...
Forget(x) ==
  /\ life[x] = "ending"
  /\ life' = [life EXCEPT ![x] = "bare"]
  /\ up' = [up EXCEPT ![x] = Nobody] /\ run' = [run EXCEPT ![x] = NoRun]
  /\ UNCHANGED looking

\* ... and then the socket goes with the lease.
Release(x) ==
  /\ life[x] = "bare"
  /\ life' = [life EXCEPT ![x] = "over"]
  /\ UNCHANGED <<up, run, looking>>

\* Killed: the socket and the notes stay until somebody sweeps them.
Kill(x) ==
  /\ x \in Mortals /\ life[x] \in {"up", "ending"}
  /\ life' = [life EXCEPT ![x] = "killed"]
  /\ UNCHANGED <<up, run, looking>>

----------------------------------------------------------------------------
\* The disband

\* The gate of stop, in doing::decide; then the call itself, which ends the loop of Named.
Disband ==
  /\ stage = "none"
  /\ IF /\ MayStop(Between(Whom(up, run, Me), Whom(up, run, Named)))
        /\ Named \in Keys
        /\ Listening(Named)
     THEN stage' = "look" /\ life' = [life EXCEPT ![Named] = IF @ = "up" THEN "ending" ELSE @]
     ELSE stage' = "refused" /\ UNCHANGED life
  /\ UNCHANGED <<up, run, clock, todo, held, crew, ever, left, due>>

Tick ==
  /\ stage \notin {"none", "refused", "said"} /\ clock # "wait"
  /\ clock' = IF clock = "early" THEN "grace" ELSE "wait"
  /\ UNCHANGED <<project, stage, todo, held, crew, ever, left, due>>

\* listening: the names in the directory ...
Look ==
  /\ stage = "look" /\ stage' = "list"
  /\ todo' = {x \in Ids : Listening(x) \/ (life[x] = "killed" /\ ~Swept(x))}
  /\ held' = {} /\ crew' = {} /\ left' = {}
  /\ due' = {x \in Branch : life[x] = "up"}
  /\ UNCHANGED <<project, clock, ever>>

\* ... each dialled, and swept by forget_id when it does not answer.
List(x) ==
  /\ stage = "list" /\ x \in todo
  /\ todo' = todo \ {x}
  /\ IF Listening(x) THEN held' = held \cup {x} /\ UNCHANGED <<up, run>>
     ELSE /\ up' = [up EXCEPT ![x] = Nobody] /\ run' = [run EXCEPT ![x] = NoRun]
          /\ UNCHANGED held
  /\ UNCHANGED <<life, stage, clock, crew, ever, left, due>>

Listed ==
  /\ stage = "list" /\ todo = {}
  /\ stage' = "notes" /\ todo' = held /\ held' = {}
  /\ UNCHANGED <<project, clock, crew, ever, left, due>>

\* whom; crew keeps those whose branch belongs to the run of Me.
Read(x) ==
  /\ stage = "notes" /\ x \in todo
  /\ todo' = todo \ {x}
  /\ crew' = crew \cup {w \in {Whom(up, run, x)} : w.root = Run}
  /\ UNCHANGED <<project, stage, clock, held, ever, left, due>>

\* under: the ids of everybody below x, by what was read.
Under(them, x) ==
  {y \in Ids \ {x} : \A S \in SUBSET Ids :
     x \in S /\ (\A w \in them : w.parent \in S => w.id \in S) => y \in S}

\* ever.extend, and answering asks each of them ...
Extend ==
  /\ stage = "notes" /\ todo = {}
  /\ ever' = ever \cup Under(crew, Named)
  /\ stage' = "dial" /\ todo' = ever' /\ crew' = {}
  /\ UNCHANGED <<project, clock, held, left, due>>

\* As it would be if who is left were walked to once more.
DialByWalk(x) ==
  /\ stage = "dial" /\ x \in todo
  /\ todo' = todo \ {x}
  /\ left' = left \cup {y \in {x} : Listening(y) /\ Whom(up, run, y).root = Run}
  /\ UNCHANGED <<project, stage, clock, held, crew, ever, due>>

\* ... on its own socket.
Dial(x) ==
  /\ stage = "dial" /\ x \in todo
  /\ todo' = todo \ {x}
  /\ left' = left \cup {y \in {x} : Listening(y)}
  /\ UNCHANGED <<project, stage, clock, held, crew, ever, due>>

\* over, or a LOOK later again.
Settle ==
  /\ stage = "dial" /\ todo = {}
  /\ stage' = IF \/ clock = "wait"
                 \/ ever = {} /\ clock = "grace"
                 \/ ever # {} /\ left = {}
              THEN "said" ELSE "look"
  /\ UNCHANGED <<project, clock, todo, held, crew, ever, left, due>>

Sessions == \E x \in Ids : Start(x) \/ Bind(x) \/ Announce(x) \/ Follow(x) \/ Forget(x) \/ Release(x) \/ Kill(x)
Looking == Look \/ Listed \/ Extend \/ Settle \/ \E x \in Ids : List(x) \/ Read(x) \/ Dial(x)

Next == Sessions \/ Disband \/ Tick \/ Looking

Spec == Init /\ [][Next]_vars

----------------------------------------------------------------------------
\* Properties

\* Whoever is said to have gone has gone, and was below what was named.
GoneIsGone == stage = "said" => ever \subseteq Branch /\ \A x \in ever \ left : Over(x)

\* Whoever was there as a look began is in the branch of that look, as long as it and everybody
\* between it and what was named have kept their notes.
NobodyMissed ==
  stage \in {"dial", "said"} =>
    \A x \in due : (\A y \in Path(x) : life[y] \in {"up", "ending"}) => x \in ever
=============================================================================
