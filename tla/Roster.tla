--------------------------------- MODULE Roster ---------------------------------
(***************************************************************************)
(* The notes of a project as sessions come, take each other on and end,    *)
(* and what is read off them: rosters, branches, and who may speak to whom.*)
(*                                                                         *)
(* directory::adopted writes a parent note whatever the notes say by then, *)
(* so Graft has no guard but who may ask: every ring that two      *)
(* answers at once can make is a state of this module.                     *)
(***************************************************************************)
EXTENDS Kinship, SequencesExt

CONSTANT Grafts  \* who may be grafted under whom: pairs of a child and a parent

RosterKinds == IsFiniteSet(Ids) /\ Ids \subseteq Nat /\ Grafts \subseteq Ids \X Ids

VARIABLES
  up,      \* the .parent notes
  run,     \* the .session notes
  listed   \* the sessions whose socket answers

vars == <<up, run, listed>>

Init == /\ up = [x \in Ids |-> Nobody]
        /\ run = [x \in Ids |-> NoRun]
        /\ listed = {}

\* announce, for a main: a run of its own and no parent note.
Main(x) ==
  /\ x \notin listed
  /\ \E r \in Runs \ {run[y] : y \in Ids} : run' = [run EXCEPT ![x] = r]
  /\ up' = [up EXCEPT ![x] = Nobody]
  /\ listed' = listed \cup {x}

\* announce, for a child of p, after p was let name it.
Child(x, p) ==
  /\ x \notin listed /\ p \in listed
  /\ DepthOf(up, p) + 1 < MaxDepth
  /\ Cardinality(Children(up, listed, p)) < MaxChildren
  /\ run' = [run EXCEPT ![x] = run[p]]
  /\ up' = [up EXCEPT ![x] = p]
  /\ listed' = listed \cup {x}

\* adopted
Graft(x, p) ==
  /\ <<x, p>> \in Grafts /\ x \in listed /\ p \in listed \ {x}
  /\ up' = [up EXCEPT ![x] = p]
  /\ UNCHANGED <<run, listed>>

\* forget, or forget_id for a session found dead: what it started keeps naming it.
End(x) ==
  /\ x \in listed
  /\ up' = [up EXCEPT ![x] = Nobody]
  /\ run' = [run EXCEPT ![x] = NoRun]
  /\ listed' = listed \ {x}

Next == \E x \in Ids : Main(x) \/ End(x) \/ \E p \in Ids : Child(x, p) \/ Graft(x, p)

Spec == Init /\ [][Next]_vars

----------------------------------------------------------------------------
\* directory/sessions.rs

Who(x) == Whom(up, run, x)

\* crew: everyone of one run.
Crew(me) == {x \in listed : Who(x).root = Who(me).root}

InOrder(S) == SetToSortSeq(S, <)
BornTo(held, x) == InOrder({y \in held : up[y] = x})

\* descend, over what was listed so far: x and everything below it that is not listed yet.
Descend(held) ==
  LET walk[at \in Seq([id : held, deep : Nat]) \X held \X Nat] ==
        LET out == at[1]  x == at[2]  deep == at[3]
        IN IF \E i \in DOMAIN out : out[i].id = x THEN out
           ELSE FoldLeft(LAMBDA rows, c : walk[<<rows, c, deep + 1>>],
                         Append(out, [id |-> x, deep |-> deep]), BornTo(held, x))
  IN walk

Roots(held) == InOrder({x \in held : up[x] \notin held})

\* The walk from the roots, which leaves out what a ring swallowed.
Walked(held) == FoldLeft(LAMBDA rows, x : Descend(held)[<<rows, x, 0>>], <<>>, Roots(held))

\* tiered: depth-first from the roots, and then whatever the walk left out.
Tiered(held) ==
  LET walked == Walked(held)
      missed == {x \in held : \A i \in DOMAIN walked : walked[i].id # x}
  IN walked \o [i \in 1..Cardinality(missed) |-> [id |-> InOrder(missed)[i], deep |-> 0]]

\* under: everything below x, nearest first.
Under(held, x) ==
  LET wave[n \in 0..Cardinality(held)] ==
        IF n = 0 THEN [edge |-> <<x>>, out |-> <<>>]
        ELSE LET w == wave[n - 1]
                 next == FoldLeft(LAMBDA got, y :
                            got \o SelectSeq(BornTo(held, y),
                                             LAMBDA z : z # x /\ ~Contains(w.out \o got, z)),
                            <<>>, w.edge)
             IN [edge |-> next, out |-> w.out \o next]
  IN wave[Cardinality(held)].out

----------------------------------------------------------------------------
\* The tree as it is meant: the ancestors and descendants of a session, however far.

Below(x) ==
  LET wider[n \in 0..Cardinality(Ids)] ==
        IF n = 0 THEN {y \in Ids : up[y] = x}
        ELSE LET near == wider[n - 1] IN near \cup {y \in Ids : up[y] \in near}
  IN wider[Cardinality(Ids)]

Above(x) == {y \in Ids : x \in Below(y)}
RingFree == \A x \in Ids : x \notin Below(x)

----------------------------------------------------------------------------
\* Properties

\* tiered: no agent can be made invisible, or listed twice, by a note somebody else wrote, rings
\* included; and without a ring each stands somewhere below its parent, one deeper.
EverybodyShown ==
  \A x \in listed :
    LET held == Crew(x)
        rows == Tiered(held)
    IN /\ Len(rows) = Cardinality(held)
       /\ {rows[i].id : i \in DOMAIN rows} = held
       /\ RingFree => \A i \in DOMAIN rows :
            IF up[rows[i].id] \in held
            THEN \E j \in 1..i - 1 : rows[j] = [id |-> up[rows[i].id], deep |-> rows[i].deep - 1]
            ELSE rows[i].deep = 0

\* under: to end a branch is to end all of it and nothing else, each once, rings included.
BranchWhole ==
  \A x \in listed :
    LET held == listed
        rows == Under(held, x)
        reach[n \in 0..Cardinality(Ids)] ==
          IF n = 0 THEN {y \in held : up[y] = x}
          ELSE LET near == reach[n - 1] IN near \cup {y \in held : up[y] \in near}
    IN /\ ToSet(rows) = reach[Cardinality(Ids)] \ {x}
       /\ IsInjective(rows)

\* A graft that adoptable lets through leaves a tree: no ring, and nothing deeper than the bound
\* that mint holds every branch to.
GraftFits ==
  RingFree /\ (\A z \in listed : Cardinality(Above(z)) < MaxDepth) =>
    \A p, c \in listed :
      Adoptable(up, listed, p, c, 0) =>
        /\ p \notin Below(c)
        /\ \A y \in {c} \cup (listed \cap Below(c)) :
             Cardinality(Above(p)) + 1 + Cardinality(Above(y)) - Cardinality(Above(c)) < MaxDepth

\* Who counts as family is who is in the crew: the walls of policy and the roster of a run never
\* disagree about whom a session stands with.
CrewIsFamily ==
  RingFree => \A x, y \in listed :
    (Between(Who(x), Who(y)) \notin {"main", "cousin"}) <=> (y \in Crew(x))

=============================================================================
