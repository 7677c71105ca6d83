-------------------------------- MODULE Minting --------------------------------
(***************************************************************************)
(* Naming a child and its coming up.                                       *)
(*                                                                         *)
(*   mint       a call on the parent's socket, answered on a thread of its *)
(*              own: depth, room, a free name, <id>.reserved with O_EXCL;  *)
(*              the reply goes out, and only then does the loop learn of   *)
(*              the child                                                  *)
(*   the child  started by the harness with that name: binds its socket,   *)
(*              takes the reservation down, writes <id>.parent             *)
(*                                                                         *)
(* Each look at the directory is a step.  A mint is known by its secret;   *)
(* the child it names is the mint from then on.                            *)
(***************************************************************************)
EXTENDS Kinship, Sequences

CONSTANTS
  Mints,    \* the calls of mint there may be
  Unheld,   \* those of them for which no try to reserve a name need succeed
  Roots,    \* the sessions that are up to begin with, each a main
  NoMint    \* no reservation, no name

ASSUME MintingKinds == /\ NoMint \notin Mints \cup Ids
                       /\ Roots \subseteq Ids /\ Unheld \subseteq Mints

VARIABLES
  up,        \* the .parent notes
  listed,    \* the sessions whose socket answers
  reserved,  \* the .reserved files, and which call made each
  old,       \* the reservations past FRESH
  bare,      \* history: some reservation has run out, or a name was handed out without one
  minted,    \* About.minted of each session: the secret it holds for each id
  stage,     \* how far each call, and then its child, has come
  queue,     \* what Then::Minted has been sent to the loop of each session
  by,        \* the session a call is made on
  on,        \* and which process that is: a root, or the child of which call
  name,      \* the name it picked, or the stale one it is letting go
  heard,     \* the minted of the session as the call found it
  ran,       \* the children it found running
  taken      \* the names it will not pick

calls == <<by, on, name, heard, ran, taken>>
disk == <<up, listed, reserved, old, bare>>
keys == <<minted, queue>>
vars == <<disk, keys, stage, calls>>

AtCall == {"count", "coming", "look", "held", "drop", "pick"}
AtChild == {"bound", "released", "up"}
Stages == {"none", "deep", "full", "named", "told", "failed", "gone"} \cup AtCall \cup AtChild

Init ==
  /\ up = [x \in Ids |-> Nobody] /\ listed = Roots
  /\ reserved = [x \in Ids |-> NoMint] /\ old = {} /\ bare = FALSE
  /\ minted = [x \in Ids |-> [c \in Ids |-> NoMint]] /\ queue = [x \in Ids |-> <<>>]
  /\ stage = [m \in Mints |-> "none"]
  /\ by = [m \in Mints |-> NoMint] /\ on = [m \in Mints |-> NoMint] /\ name = [m \in Mints |-> NoMint]
  /\ heard = [m \in Mints |-> {}] /\ ran = [m \in Mints |-> {}] /\ taken = [m \in Mints |-> {}]

Step(m, from, to) == stage[m] = from /\ stage' = [stage EXCEPT ![m] = to]
Fresh(x) == reserved[x] # NoMint /\ x \notin old

\* The sessions that answer calls: the roots, and the children that have announced themselves.
Up == {m \in Mints : stage[m] = "up"}
Serving == Roots \cup {name[m] : m \in Up}

\* A root ends no sooner than the checking does.
Process(p) == IF \E m \in Up : name[m] = p THEN CHOOSE m \in Up : name[m] = p ELSE NoMint
Ended(m) == on[m] # NoMint /\ on[m] \notin Up

----------------------------------------------------------------------------
\* answering.rs, the mint verb

\* The call finds what the session knows at that moment, and counts its ancestors.
Call(m, p) ==
  /\ p \in Serving
  /\ Step(m, "none", IF DepthOf(up, p) + 1 >= MaxDepth THEN "deep" ELSE "count")
  /\ by' = [by EXCEPT ![m] = p] /\ on' = [on EXCEPT ![m] = Process(p)]
  /\ heard' = [heard EXCEPT ![m] = {x \in Ids : minted[p][x] # NoMint}]
  /\ UNCHANGED <<disk, keys, name, ran, taken>>

CountRunning(m) ==
  /\ Step(m, "count", "coming")
  /\ ran' = [ran EXCEPT ![m] = Children(up, listed, by[m])]
  /\ UNCHANGED <<disk, keys, by, on, name, heard, taken>>

\* coming: named, and holding a fresh reservation still.
CountComing(m) ==
  /\ LET coming == {x \in heard[m] : Fresh(x)}
     IN Step(m, "coming", IF Cardinality(ran[m]) + Cardinality(coming) >= MaxChildren
                          THEN "full" ELSE "look")
  /\ heard' = [heard EXCEPT ![m] = {}] /\ ran' = [ran EXCEPT ![m] = {}]
  /\ UNCHANGED <<disk, keys, by, on, name, taken>>

\* free_beside: who is listening comes first.
Look(m) ==
  /\ Step(m, "look", "held")
  /\ taken' = [taken EXCEPT ![m] = listed \cup {by[m]}]
  /\ UNCHANGED <<disk, keys, by, on, name, heard, ran>>

\* reserved::taken, an entry that has gone stale ...
FindStale(m) ==
  \E x \in old :
    /\ Step(m, "held", "drop")
    /\ name' = [name EXCEPT ![m] = x]
    /\ UNCHANGED <<disk, keys, by, on, heard, ran, taken>>

\* ... is let go by its path, whoever holds it by now.
DropStale(m) ==
  /\ Step(m, "drop", "held")
  /\ reserved' = [reserved EXCEPT ![name[m]] = NoMint] /\ old' = old \ {name[m]}
  /\ name' = [name EXCEPT ![m] = NoMint]
  /\ UNCHANGED <<up, listed, keys, by, on, heard, ran, taken, bare>>

\* And the others are names to stay away from.
ReadHeld(m) ==
  /\ old = {}
  /\ Step(m, "held", "pick")
  /\ taken' = [taken EXCEPT ![m] = @ \cup {x \in Ids : Fresh(x)}]
  /\ UNCHANGED <<disk, keys, by, on, name, heard, ran>>

\* As it would be without create_new.
ReserveOver(m) ==
  \E x \in Ids \ taken[m] :
    /\ Step(m, "pick", "named")
    /\ reserved' = [reserved EXCEPT ![x] = m] /\ name' = [name EXCEPT ![m] = x]
    /\ taken' = [taken EXCEPT ![m] = {}]
    /\ UNCHANGED <<up, listed, old, keys, by, on, heard, ran, bare>>

\* reserve: one more name to stay away from, or the name.
Reserve(m) ==
  \E x \in Ids \ taken[m] :
    /\ stage[m] = "pick"
    /\ IF reserved[x] = NoMint
       THEN /\ Step(m, "pick", "named")
            /\ reserved' = [reserved EXCEPT ![x] = m] /\ name' = [name EXCEPT ![m] = x]
            /\ taken' = [taken EXCEPT ![m] = {}]
       ELSE taken' = [taken EXCEPT ![m] = @ \cup {x}] /\ UNCHANGED <<stage, reserved, name>>
    /\ UNCHANGED <<up, listed, old, keys, by, on, heard, ran, bare>>

\* As many tries as there are end so too: what could not be reserved is handed out all the same,
\* one that is taken where all are.
ReserveNot(m) ==
  \E x \in Ids :
    /\ m \in Unheld
    /\ x \notin taken[m] \/ Ids \subseteq taken[m]
    /\ Step(m, "pick", "named")
    /\ name' = [name EXCEPT ![m] = x] /\ taken' = [taken EXCEPT ![m] = {}]
    /\ bare' = TRUE
    /\ UNCHANGED <<up, listed, reserved, old, keys, by, on, heard, ran>>

\* talk: the reply is written, and then Then::Minted sent to the loop of the process that answers;
\* the harness may start the child from here on.
Answer(m) ==
  /\ Step(m, "named", "told")
  /\ queue' = [queue EXCEPT ![by[m]] = Append(@, m)]
  /\ UNCHANGED <<disk, minted, calls>>

Take(p) ==
  /\ queue' = [queue EXCEPT ![p] = Tail(@)]
  /\ minted' = [minted EXCEPT ![p][name[Head(queue[p])]] = Head(queue[p])]
  /\ UNCHANGED <<disk, stage, calls>>

\* As it would be if the loop had no room for a child that came up before it looked.
KeepEarly(p) == queue[p] # <<>> /\ stage[Head(queue[p])] = "told" /\ Take(p)

\* The loop takes the first, over what it held for an earlier child of that name.
Keep(p) == queue[p] # <<>> /\ Take(p)

----------------------------------------------------------------------------
\* The child: main.rs and announce

\* The lock beside the socket lets one session in.
Bind(m) ==
  /\ Step(m, "told", IF name[m] \in listed THEN "failed" ELSE "bound")
  /\ listed' = listed \cup {name[m]}
  /\ UNCHANGED <<up, reserved, old, bare, keys, calls>>

\* As it would be if a session that came up left its reservation to go stale.
ReleaseNothing(m) ==
  /\ Step(m, "bound", "released")
  /\ UNCHANGED <<disk, keys, calls>>

\* announce: reserved::release first ...
Release(m) ==
  /\ Step(m, "bound", "released")
  /\ reserved' = [reserved EXCEPT ![name[m]] = NoMint] /\ old' = old \ {name[m]}
  /\ UNCHANGED <<up, listed, keys, calls, bare>>

\* ... and the parent note last.
WriteNote(m) ==
  /\ Step(m, "released", "up")
  /\ up' = [up EXCEPT ![name[m]] = by[m]]
  /\ UNCHANGED <<listed, reserved, old, keys, calls, bare>>

----------------------------------------------------------------------------
\* What goes wrong

\* forget, or forget_id once it is found dead.  The calls it was answering are over, and what its
\* loop held of secrets, or had still to take, is gone with it.
End(m) ==
  /\ stage[m] = "up"
  /\ up' = [up EXCEPT ![name[m]] = Nobody] /\ listed' = listed \ {name[m]}
  /\ stage' = [n \in Mints |-> IF n = m \/ (by[n] = name[m] /\ stage[n] \in AtCall \cup {"named"})
                               THEN "gone" ELSE stage[n]]
  /\ minted' = [minted EXCEPT ![name[m]] = [c \in Ids |-> NoMint]]
  /\ queue' = [queue EXCEPT ![name[m]] = <<>>]
  /\ UNCHANGED <<reserved, old, bare, calls>>

\* The harness starts nothing, or what it started dies before it binds.
Lose(m) ==
  /\ Step(m, "told", "failed")
  /\ UNCHANGED <<disk, keys, calls>>

\* FRESH after a reservation whose child is not coming.
Age(x) ==
  /\ Fresh(x) /\ stage[reserved[x]] \in {"gone", "failed"}
  /\ old' = old \cup {x} /\ bare' = TRUE
  /\ UNCHANGED <<up, listed, reserved, keys, stage, calls>>

Answering(m) ==
  \/ \E p \in Ids : Call(m, p)
  \/ CountRunning(m) \/ CountComing(m) \/ Look(m) \/ FindStale(m) \/ DropStale(m)
  \/ ReadHeld(m) \/ Reserve(m) \/ ReserveNot(m) \/ Answer(m)
Rising(m) == Bind(m) \/ Release(m) \/ WriteNote(m)

Next == \/ \E m \in Mints : Answering(m) \/ Rising(m) \/ End(m) \/ Lose(m)
        \/ \E x \in Ids : Age(x) \/ Keep(x)

Spec == Init /\ [][Next]_vars
FairSpec == Spec /\ \A p \in Ids : WF_vars(Keep(p))

----------------------------------------------------------------------------
\* Properties

\* The shape of every variable.
TypeOK ==
  /\ up \in [Ids -> Ids \cup {Nobody}] /\ listed \subseteq Ids
  /\ reserved \in [Ids -> Mints \cup {NoMint}] /\ old \subseteq Ids /\ bare \in BOOLEAN
  /\ minted \in [Ids -> [Ids -> Mints \cup {NoMint}]]
  /\ queue \in [Ids -> Seq(Mints)]
  /\ stage \in [Mints -> Stages]
  /\ by \in [Mints -> Ids \cup {NoMint}] /\ on \in [Mints -> Mints \cup {NoMint}]
  /\ name \in [Mints -> Ids \cup {NoMint}]
  /\ heard \in [Mints -> SUBSET Ids] /\ ran \in [Mints -> SUBSET Ids] /\ taken \in [Mints -> SUBSET Ids]

\* Two sessions naming children at the same moment are not both handed one name: of the children
\* that have a name and have not taken their reservation down, no two have the same.  It holds
\* until a reservation runs out, the stale ones being let go by path, or a name is handed out
\* without one.
OneComing ==
  ~bare => \A m, n \in Mints :
    stage[m] \in {"named", "told", "bound"} /\ stage[n] \in {"named", "told", "bound"} /\ name[m] = name[n]
      => m = n

\* Nobody is refused for want of room before it has named as many children as it may have: one on
\* its way up is never counted both as running and as coming, because announce takes the
\* reservation down before it writes the note.  It holds until a name is handed out that another
\* child has had, which the reservation is then taken for.
NeverOvercounted ==
  LET Had(n) == name[n] # NoMint /\ stage[n] \in {"named", "told", "failed", "gone"} \cup AtChild
  IN (\A m, n \in Mints : Had(m) /\ Had(n) /\ name[m] = name[n] => m = n) =>
       \A m \in Mints :
         stage[m] = "full" => Cardinality({n \in Mints : Had(n) /\ by[n] = by[m]}) >= MaxChildren

\* A child that is up can be stopped by who started it: the loop of the process that named it comes
\* to hold its own secret, not that of an earlier child of the name, unless either ends before, or
\* that loop is told of another call that was handed the name while its child came up or was up.
\* It holds, too, until a reservation runs out or a name is handed out without one.
KeyArrives ==
  \A m \in Mints :
    LET held == minted[by[m]][name[m]]
    IN stage[m] = "up" ~>
         (bare \/ stage[m] # "up" \/ Ended(m) \/ held = m \/ (held # NoMint /\ stage[held] \in {"told", "failed"}))
=============================================================================
