------------------------------- MODULE MCKinship -------------------------------
(***************************************************************************)
(* What stands in the notes about who answers to whom and for what, by six *)
(* parts that share no state: how an adoption puts it there, what is read  *)
(* off it, a branch that is ended by it, a call that is let through by it, *)
(* what becomes of a question such a call put, and how a session comes by  *)
(* its role.  A behaviour is one of one of them.                           *)
(***************************************************************************)
EXTENDS MCAdoption, TLC

CONSTANTS
  Names, Keys, Deep, Wide, Grafts,                                    \* Roster
  TheRun, Doomed, Tall, Starters, Ender, Ended, Secrets,              \* Branch
  Callers, Talk, Asked, Shifts, AtOnce, Lives, NoKey,                \* Calls
  Pollers, Answers, Askings,                                          \* Tasks
  Records, Plain, Nowhere, Connections, Room, Tellings, Holders        \* Roles

VARIABLES
  part, ups, runs, answering,
  lives, notes, sessions, looks, clock, todo, held, crew, ever, left, due,
  above, of, serving, nth, secret, lent, starter, kept, call, last,
  asked, there, nthAsked, inbox, heard, reports, said,
  coming, nthNamed, roleNote, launch, copy, words, taking, conns, count, shown, sayings, order, broken

R == INSTANCE Roster WITH Ids <- Names, Runs <- Keys, MaxDepth <- Deep, MaxChildren <- Wide,
                          up <- ups, run <- runs, listed <- answering

B == INSTANCE Branch WITH Ids <- Names, Runs <- {TheRun}, MaxDepth <- Tall, MaxChildren <- Wide,
                          Starter <- Starters, Me <- Ender, Named <- Ended, Keys <- Secrets,
                          Run <- TheRun, Mortals <- Doomed,
                          life <- lives, up <- notes, run <- sessions, stage <- looks

C == INSTANCE Calls WITH Ids <- Callers, Runs <- {}, MaxDepth <- Deep, MaxChildren <- Wide,
                         Changes <- Shifts, MaxLives <- Lives,
                         up <- above, run <- of, listening <- serving, life <- nth, key <- secret,
                         parent <- starter, minted <- kept

T == INSTANCE Tasks WITH Sayings <- Answers, MaxLives <- Askings, life <- nthAsked, calls <- reports

N == INSTANCE Roles WITH
       Main <- Plain, Sayings <- Tellings,
       stage <- coming, life <- nthNamed, note <- roleNote, queue <- words, loop <- taking,
       conn <- conns, said <- sayings

ASSUME RosterPartKinds == R!RosterKinds /\ R!KinshipKinds
ASSUME BranchPartKinds == B!BranchKinds /\ B!KinshipKinds
ASSUME CallPartKinds == C!CallKinds /\ C!KinshipKinds /\ T!TaskKinds /\ N!RoleKinds

----------------------------------------------------------------------------
\* The instance that is checked.

CONSTANTS x1, x2, x3, p1, p2

\* The processes that ask after a question are alike, and no property tells them apart.
Alike == Permutations(Pollers)

Anybody == Names \X Names

\* 1 starts 2, 2 starts 3, 3 starts 4; 1 ends the branch at 2.
OneAfterAnother == [x \in Names |-> IF x = 1 THEN Nobody ELSE x - 1]

\* x1 calls x2, or its run: each of the verbs that are told apart, and of the refusals.
CallTo(verb) == [verb |-> verb, who |-> x2, message |-> "short", about |-> "other", from |-> x2,
                 role |-> TRUE, hops |-> TRUE]
CallsOfOne ==
  {x1} \X {CallTo("stop"), CallTo("assign"), CallTo("role"), CallTo("announce"), CallTo("help"),
          [CallTo("stop") EXCEPT !.who = "bad"], [CallTo("assign") EXCEPT !.role = FALSE],
          [CallTo("reply") EXCEPT !.message = "long", !.about = "held"],
          [CallTo("handoff") EXCEPT !.hops = FALSE]}

\* Two names pass to another session, the third does not.
TwoPass == [x \in Callers |-> IF x = x3 THEN 1 ELSE 2]

Role(name, sentence) == [name |-> name, said |-> sentence]
MainRole == Role("main", "")
ThreeRoles == {MainRole, Role("review", "reads"), Role("build", "writes")}
NoRole == Role("nowhere", "nothing")

----------------------------------------------------------------------------
rosterVars == <<ups, runs, answering>>
branching == <<lives, notes, sessions, looks, clock, todo, held, crew, ever, left, due>>
calling == <<above, of, serving, nth, secret, lent, starter, kept, call, last>>
asking == <<asked, there, nthAsked, inbox, heard, reports, said>>
naming == <<coming, nthNamed, roleNote, launch, copy, words, taking, conns, count, shown, sayings, order,
            broken>>

\* The branch is in one of its initial states where it is left alone.
Begins ==
  /\ Init /\ R!Init /\ B!Init /\ C!Init /\ T!Init /\ N!Init
  /\ part \in {"adoption", "roster", "branch", "calls", "task", "role"}
  /\ part # "branch" => \A x \in Names \ {Ender} : lives[x] = "none"

\* A branch is watched, and a call followed, to its end.
Goes ==
  /\ UNCHANGED part
  /\ \/ /\ part = "adoption" /\ Next
        /\ UNCHANGED <<rosterVars, branching, calling, asking, naming>>
     \/ /\ part = "roster" /\ R!Next
        /\ UNCHANGED <<vars, branching, calling, asking, naming>>
     \/ /\ part = "branch" /\ looks # "said" /\ B!Next
        /\ UNCHANGED <<vars, rosterVars, calling, asking, naming>>
     \/ /\ part = "calls" /\ call.stage # "over" /\ C!Next
        /\ UNCHANGED <<vars, rosterVars, branching, asking, naming>>
     \/ /\ part = "task" /\ T!Next
        /\ UNCHANGED <<vars, rosterVars, branching, calling, naming>>
     \/ /\ part = "role" /\ N!Next
        /\ UNCHANGED <<vars, rosterVars, branching, calling, asking>>

Stands == Begins /\ [][Goes]_<<part, vars, rosterVars, branching, calling, asking, naming>>

----------------------------------------------------------------------------
\* Roster: everybody of a run is shown, once, under its parent; a branch, which is what is ended
\* together, is all that is below its root; and family and crew are the same.
AllShown == part = "roster" => R!EverybodyShown /\ R!BranchWhole /\ R!CrewIsFamily

\* Roster: a graft leaves a tree within its bounds.
GraftFits == part = "roster" => R!GraftFits

\* Branch: whoever is said to have gone has gone and was below what was named; and nobody who was
\* there as a look began is missed by it while it and those between have kept their notes.
GoneIsGone == part = "branch" => B!GoneIsGone /\ B!NobodyMissed

\* Calls: what a call stops or names is the caller's own, and a session's own surface is its own;
\* the latter depends on the sessions alone, and is looked at while there is no call.
\* Roles: and what a session is listed for is its own, as it was told last and said whole.
OnlyItsOwn ==
  /\ part = "calls" => C!OnlyItsOwn /\ (call.stage = "none" => C!OwnSurface)
  /\ part = "role" => N!TypeOK /\ N!NoteIsItsOwn /\ N!LastWordStands /\ N!ShownWhole

\* Calls: what the near end lets through the far end does not refuse for who is calling.
GatesAgree == part = "calls" => C!GatesAgree

\* Tasks: what came back first is what is said of a question for as long as it is held, and a task
\* is said to be done with for cause.
TaskStands == part = "task" => T!FirstDecides /\ T!SaidForCause
=============================================================================
