-------------------------------- MODULE Kinship --------------------------------
(***************************************************************************)
(* What the notes of a project directory say about who answers to whom, as *)
(* the functions of directory.rs read it off them, and what policy.rs lets *)
(* two sessions do on the strength of it.                                  *)
(*                                                                         *)
(* up[x] is the .parent note of x, run[x] its .session note and listed the *)
(* sessions whose socket answers.  Notes are written from outside and may  *)
(* form rings; every walk below is bounded for that reason.                *)
(***************************************************************************)
EXTENDS Naturals, FiniteSets

CONSTANTS
  Ids,         \* session ids
  Nobody,      \* no .parent note
  Runs,        \* names of runs
  NoRun,       \* no .session note
  MaxDepth,    \* MAX_DEPTH
  MaxChildren  \* MAX_CHILDREN

ASSUME KinshipKinds == /\ Nobody \notin Ids /\ NoRun \notin Runs
                       /\ Ids \cap Runs = {}
                       /\ MaxDepth \in Nat \ {0} /\ MaxChildren \in Nat

----------------------------------------------------------------------------
\* directory.rs

\* The walk up from id: the session reached after k notes, the ones seen on the way, and whether
\* the loop goes on.
Walk(up, id) ==
  LET walk[k \in 0..MaxDepth + 1] ==
        IF k = 0 THEN [at |-> id, seen |-> {id}, on |-> TRUE]
        ELSE LET w == walk[k - 1] IN
             IF w.on /\ up[w.at] \notin w.seen \cup {Nobody}
             THEN [at |-> up[w.at], seen |-> w.seen \cup {up[w.at]}, on |-> TRUE]
             ELSE [w EXCEPT !.on = FALSE]
  IN walk[MaxDepth + 1]

\* root_of: the top of a branch, or Nobody for a session that answers to nobody.
RootOf(up, id) == LET top == Walk(up, id).at IN IF top = id THEN Nobody ELSE top

\* depth_of: how many ancestors, counted up to MaxDepth.
DepthOf(up, id) ==
  LET above[k \in 1..MaxDepth] ==
        IF k = 1 THEN up[id]
        ELSE LET a == above[k - 1] IN IF a = Nobody THEN Nobody ELSE up[a]
  IN Cardinality({k \in 1..MaxDepth : above[k] # Nobody})

\* children
Children(up, listed, id) == {c \in listed \ {id} : up[c] = id}

Largest(S) == CHOOSE n \in S : \A m \in S : n >= m

\* height_below: the deepest chain of listed sessions below id, never looked for beyond MaxDepth.
HeightBelow(up, listed, id) ==
  LET deepest[g \in 0..MaxDepth] ==
        IF g = 0 THEN [x \in Ids |-> 0]
        ELSE LET less == deepest[g - 1]
             IN [x \in Ids |-> Largest({0} \cup {1 + less[c] : c \in {d \in listed : up[d] = x}})]
  IN deepest[MaxDepth][id]

\* As it would be if the branch that hangs below child were forgotten.
AdoptableShallow(up, listed, parent, child, also) ==
  /\ parent # child
  /\ up[parent] = Nobody /\ up[child] = Nobody
  /\ RootOf(up, parent) # child
  /\ DepthOf(up, parent) + 1 < MaxDepth
  /\ Cardinality(Children(up, listed, parent)) + also < MaxChildren

\* pending::adoptable: both mains, no ring, the grafted branch inside MaxDepth, and room beside
\* the also that have a name and have not come up.
Adoptable(up, listed, parent, child, also) ==
  /\ parent # child
  /\ up[parent] = Nobody /\ up[child] = Nobody
  /\ RootOf(up, parent) # child
  /\ DepthOf(up, parent) + 1 + HeightBelow(up, listed, child) < MaxDepth
  /\ Cardinality(Children(up, listed, parent)) + also < MaxChildren

----------------------------------------------------------------------------
\* policy.rs

\* directory::whom, with tree_root settled: the run of the top of the branch, or the top's name.
Whom(up, run, id) ==
  LET top == IF RootOf(up, id) = Nobody THEN id ELSE RootOf(up, id)
  IN [id |-> id, parent |-> up[id], root |-> IF run[top] = NoRun THEN top ELSE run[top]]

\* As it would be if two absent parents were compared as equal.
BetweenOrphans(me, them) ==
  IF me.id = them.id THEN "myself"
  ELSE IF me.parent = them.id THEN "parent"
  ELSE IF them.parent = me.id THEN "child"
  ELSE IF me.parent = them.parent THEN "sibling"
  ELSE IF me.root = them.root THEN "kin"
  ELSE IF them.parent = Nobody THEN "main"
  ELSE "cousin"

\* between: how them stands to me, both of one project.  The first line that applies decides.
Between(me, them) ==
  IF me.id = them.id THEN "myself"
  ELSE IF me.parent = them.id THEN "parent"
  ELSE IF them.parent = me.id THEN "child"
  ELSE IF me.parent # Nobody /\ me.parent = them.parent THEN "sibling"
  ELSE IF me.root = them.root THEN "kin"
  ELSE IF them.parent = Nobody THEN "main"
  ELSE "cousin"

Talks == {"mains", "instance", "project"}

\* may_at, for a session that stands in relation to me.
MayStop(relation) == relation = "child"

MayReach(me, relation, talk) ==
  \/ relation \in {"myself", "parent", "child"}
  \/ relation \in {"sibling", "kin"} /\ talk \in {"instance", "project"}
  \/ relation = "main" /\ (me.parent = Nobody \/ talk = "project")
  \/ relation = "cousin" /\ talk = "project"

\* One may reach the other at the same settings as the other may reach it.
MutualReach(me, them) ==
  \A talk \in Talks :
    MayReach(me, Between(me, them), talk) <=> MayReach(them, Between(them, me), talk)
=============================================================================
