---------------------------------- MODULE Calls ----------------------------------
(***************************************************************************)
(* One call of the tool and its two ends.  The near end is a process that  *)
(* lives for the one call: it copies where its session stands, refuses     *)
(* what is worth refusing and dials.  The far end is whoever serves under  *)
(* the name by then; it places the caller by its process and by the notes, *)
(* and decides again.                                                      *)
(*                                                                         *)
(* Names pass on: life[x] counts who has had the name.  A secret is known  *)
(* by who made it and whom it stops, which nothing in the code reads off   *)
(* it.  Everything is of one project.                                      *)
(***************************************************************************)
EXTENDS Kinship

CONSTANTS
  Talk,     \* magi.agent_talk, the same at both ends
  Asked,    \* the calls there may be, each of a session and of Arguments
  MaxLives, \* how many sessions have each name, one after another
  Changes,  \* how much may change among the sessions while a call is under way
  AtOnce,   \* how many a fan-out reaches
  NoKey     \* no secret

VARIABLES
  up,        \* the .parent notes
  run,       \* the .session notes
  listening, \* the sessions whose socket answers
  life,      \* which session has each name
  key,       \* About.token of each session
  lent,      \* About.adopted_token
  parent,    \* About.parent, as the loop last read it
  minted,    \* About.minted
  call,      \* the call under way
  last       \* history: what the far end did for it, and whether anything changed meanwhile

vars == <<up, run, listening, life, key, lent, parent, minted, call, last>>
sessions == <<up, run, listening, life, key, lent, parent, minted>>

----------------------------------------------------------------------------
\* verbs.rs: the tables

Verbs == {"help", "whoami", "list", "crew", "about", "role", "assign", "status", "verbs", "send", "ask",
          "reply", "announce", "report", "task", "adopt", "attention", "trouble", "handoff", "claim",
          "release", "claims", "watch", "unwatch", "inbox", "stop", "disband"}
Alone == {"help", "whoami", "list", "crew", "inbox", "claims", "claim", "release", "announce", "trouble",
          "reply", "role", "task", "report"}
NamesARole == {"role", "assign"}
Speaks == {"send", "ask", "reply", "announce", "attention", "trouble", "handoff"}
Quotes == {"reply", "claim", "release", "task"}

\* What answers a verb without a call.
Here == {"help", "whoami", "list", "crew", "inbox", "claim", "release", "claims", "watch", "unwatch",
         "task", "report"}
Fanned == {"announce", "trouble"}

\* A message is short, or longer than a role or a message may be; about is a message held or not,
\* from says who sent it; hops whether what came in may be handed on.
Arguments == [verb : Verbs, who : Ids \cup {"", "bad"}, message : {"", "short", "long"},
              about : {"", "held", "other"}, from : Ids, role : BOOLEAN, hops : BOOLEAN]

CallKinds == /\ Talk \in Talks /\ MaxLives \in [Ids -> Nat] /\ {Changes, AtOnce} \subseteq Nat
             /\ NoKey \notin Ids /\ Asked \subseteq Ids \X Arguments

\* answer: what is missing.
Missing(a) ==
  \/ a.verb \in Speaks /\ a.message = ""
  \/ a.verb \in Quotes /\ a.about = ""
  \/ a.verb \in NamesARole /\ ~a.role

\* answering, and the arms of answer: who a call is made to, "" when that is not said.
Aim(a, x) ==
  CASE a.verb = "reply" /\ a.about = "held" -> a.from
    [] a.verb = "role" -> x
    [] OTHER -> a.who

\* The verb decide is given.
Decided(a) == IF a.verb = "disband" THEN "stop" ELSE a.verb

\* Reach, at the near end and at the far one.
May(me, relation, verb) == IF verb = "stop" THEN MayStop(relation) ELSE MayReach(me, relation, Talk)

----------------------------------------------------------------------------
\* doing.rs

\* Standing::whom
Standing(c) == [Whom(up, run, c.by) EXCEPT !.parent = c.parent]
\* As it would be if the near end asked how it stands to the other.
StandsTurned(c, w) == IF w \in c.forked THEN "child" ELSE Between(Whom(up, run, w), Standing(c))

\* Standing::stands: the copy of the children comes first.
Stands(c, w) == IF w \in c.forked THEN "child" ELSE Between(Standing(c), Whom(up, run, w))

\* decide, in the order of its lines; "" for a call worth making.
Refusal(c, w) ==
  LET v == Decided(c.asked)
      long == c.asked.message = "long"
      relation == Stands(c, w)
  IN IF w = "bad" THEN "name"
     ELSE IF v = "assign" /\ relation # "child" THEN "assign"
     ELSE IF v \in NamesARole /\ long THEN "size"
     ELSE IF ~May(Standing(c), relation, v) THEN "wall"
     ELSE IF v \notin NamesARole /\ long THEN "size"
     ELSE IF v = "handoff" /\ ~c.asked.hops THEN "hops"
     ELSE IF v = "stop" /\ c.minted[w] = NoKey THEN "secret"
     ELSE ""

\* What decide takes along to prove the call with.
Token(c, w) == IF Decided(c.asked) \in {"stop", "assign"} THEN c.minted[w] ELSE NoKey

\* said: what the far end is asked.
Frame(v) == CASE v = "about" -> "identity"
              [] v \in {"status", "verbs", "stop", "adopt"} -> v
              [] v \in NamesARole -> "role"
              [] OTHER -> "tell"

----------------------------------------------------------------------------
\* serving/callers.rs and answering.rs

Anybody == {"verbs", "client", "adopted"}
OwnOnly == {"mint", "minted", "inbox", "tool"}

\* As it would be if a process were whoever its environment says.
CallerAsNamed(verb, w, kin, claimed) == claimed

\* caller_of: w's own process, or whom the environment names, who is never w.
Caller(verb, w, kin, claimed) ==
  IF (kin = "session" \/ (kin = "spawner" /\ verb = "mint")) /\ claimed \in {w, Nobody} THEN w
  ELSE IF claimed # w THEN claimed ELSE Nobody

\* As it would be if a secret of an earlier holder of the name were taken.
ProvenByName(w, token) == token # NoKey /\ token.whom = w

\* proven
Proven(w, token) == token # NoKey /\ token \in {key[w], lent[w]}

\* roles::refused, the walls and the arms of answer; "" when it is done.
Answer(w, verb, kin, claimed, token) ==
  LET x == Caller(verb, w, kin, claimed)
      me == [Whom(up, run, w) EXCEPT !.parent = parent[w]]
      caller == Whom(up, run, x)
      relation == Between(me, caller)
      theirs == Between(caller, me)
  IN IF verb \in Anybody THEN ""
     ELSE IF x = Nobody THEN "nobody"
     ELSE IF verb \in OwnOnly /\ relation # "myself" THEN "own"
     ELSE IF verb = "role" /\ ~(relation = "myself" \/ (theirs = "child" /\ Proven(w, token))) THEN "unproven"
     ELSE IF verb # "tool" /\ ~May(caller, theirs, verb) THEN "wall"
     ELSE IF verb = "adopt" /\ ~Adoptable(up, listening, w, x, 0) THEN "graft"
     ELSE IF verb = "stop" /\ ~Proven(w, token) THEN "unproven"
     ELSE ""

----------------------------------------------------------------------------
NoCall == [stage |-> "none"]
Over == [stage |-> "over"]
Nothing == [did |-> "nothing", changes |-> 0]
None == [x \in Ids |-> NoKey]

Init ==
  /\ up = [x \in Ids |-> Nobody] /\ run = [x \in Ids |-> NoRun]
  /\ listening = {} /\ life = [x \in Ids |-> 0]
  /\ key = None /\ lent = None
  /\ parent = [x \in Ids |-> Nobody] /\ minted = [x \in Ids |-> None]
  /\ call = NoCall /\ last = Nothing

\* Everything below that changes a session is counted while a call is under way.
Changed == IF call.stage = "none" THEN UNCHANGED last
           ELSE last.changes < Changes /\ last' = [last EXCEPT !.changes = @ + 1]

Begun(x, by, what, secret) ==
  /\ x \notin listening /\ life[x] < MaxLives[x]
  /\ listening' = listening \cup {x} /\ life' = [life EXCEPT ![x] = @ + 1]
  /\ up' = [up EXCEPT ![x] = by] /\ parent' = [parent EXCEPT ![x] = by]
  /\ run' = [run EXCEPT ![x] = what]
  /\ key' = [key EXCEPT ![x] = secret]
  /\ Changed /\ UNCHANGED <<lent, call>>

\* A session somebody starts: a main, of a run of its own.
Rise(x) == Begun(x, Nobody, <<x, life[x] + 1>>, NoKey) /\ UNCHANGED minted

\* mint, and the child coming up with the secret (Minting has the steps).
Secret(p, c, its) == [made |-> <<p, life[p]>>, whom |-> c, its |-> its]

Fork(p, c) ==
  /\ p \in listening /\ DepthOf(up, p) + 1 < MaxDepth
  /\ LET secret == Secret(p, c, life[c] + 1) IN
       /\ Begun(c, p, run[p], secret)
       /\ minted' = [minted EXCEPT ![p][c] = secret]

\* An adoption that both agreed to (Adoption has the steps); the child's loop has yet to read whose
\* it is.
Graft(p, c) ==
  /\ {p, c} \subseteq listening /\ Adoptable(up, listening, p, c, 0)
  /\ up' = [up EXCEPT ![c] = p]
  /\ LET secret == Secret(p, c, life[c]) IN
       /\ lent' = [lent EXCEPT ![c] = secret] /\ minted' = [minted EXCEPT ![p][c] = secret]
  /\ Changed /\ UNCHANGED <<run, listening, life, key, parent, call>>

\* The tick of the loop.
Tick(x) ==
  /\ x \in listening /\ parent[x] # up[x]
  /\ parent' = [parent EXCEPT ![x] = up[x]]
  /\ Changed /\ UNCHANGED <<up, run, listening, life, key, lent, minted, call>>

\* forget, or forget_id once it is found dead; what it knew is gone with its process.
Gone(x) ==
  /\ listening' = listening \ {x}
  /\ up' = [up EXCEPT ![x] = Nobody] /\ run' = [run EXCEPT ![x] = NoRun]
  /\ key' = [key EXCEPT ![x] = NoKey] /\ lent' = [lent EXCEPT ![x] = NoKey]
  /\ parent' = [parent EXCEPT ![x] = Nobody] /\ minted' = [minted EXCEPT ![x] = None]
  /\ UNCHANGED life

End(x) == x \in listening /\ Gone(x) /\ Changed /\ UNCHANGED call

----------------------------------------------------------------------------
\* The near end

At(stage) == call.stage = stage
To(stage) == call' = [call EXCEPT !.stage = stage]

\* tool.rs: a process of x's harness, told what to do; verbs::answer looks at the words first.
Ask(x, a) ==
  /\ call.stage = "none" /\ x \in listening
  /\ LET plain == a.verb \in Here \/ Missing(a) \/ (a.verb \notin Fanned /\ Aim(a, x) = "")
     IN call' = IF plain THEN Over
                ELSE [stage |-> "notes", by |-> x, its |-> life[x], asked |-> a, forked |-> {},
                      parent |-> Nobody, minted |-> None, todo |-> {}, dialled |-> x, token |-> NoKey]
  /\ last' = Nothing /\ UNCHANGED sessions

\* standing: children and parent_of off the notes ...
CopyNotes ==
  /\ call.stage = "notes"
  /\ call' = [call EXCEPT !.stage = "secrets", !.parent = up[call.by],
                          !.forked = Children(up, listening, call.by)]
  /\ UNCHANGED <<sessions, last>>

\* ... and minted_by, which only the serve of its own harness answers.
Vouched == call.by \in listening /\ life[call.by] = call.its

CopyMinted ==
  /\ call.stage = "secrets"
  /\ LET c == [call EXCEPT !.minted = IF Vouched THEN minted[call.by] ELSE None]
     IN call' = IF c.asked.verb \in Fanned THEN [c EXCEPT !.stage = "fan"]
                ELSE [c EXCEPT !.stage = "decide", !.todo = {Aim(c.asked, c.by)}]
  /\ UNCHANGED <<sessions, last>>

\* fanned: everybody of the run but this session (Sending has what allow counts).
Fan ==
  /\ call.stage = "fan"
  /\ LET crew == {x \in listening \ {call.by} : Whom(up, run, x).root = Standing(call).root}
     IN call' = IF call.asked.message = "long" \/ Cardinality(crew) \notin 1..AtOnce THEN Over
                ELSE [call EXCEPT !.stage = "decide", !.todo = crew]
  /\ UNCHANGED <<sessions, last>>

Left(w) == IF call.todo = {w} THEN Over
           ELSE [call EXCEPT !.stage = "decide", !.todo = @ \ {w}, !.token = NoKey]

\* decide: refused here, or on its way with its token.
Decide(w) ==
  /\ call.stage = "decide" /\ w \in call.todo
  /\ call' = IF Refusal(call, w) # "" THEN Left(w)
             ELSE [call EXCEPT !.stage = "dial", !.dialled = w, !.token = Token(call, w)]
  /\ UNCHANGED <<sessions, last>>

\* Each the other's parent by the notes: an orphan started a child that has the name of whoever
\* started the orphan.
Ring(w) == up[w] = call.by /\ up[call.by] = w

\* carried: the far end, as it is by now.
Carry(w) ==
  /\ call.stage = "dial" /\ w = call.dialled
  /\ call' = Left(w)
  /\ LET verb == Frame(Decided(call.asked))
         kin == IF w = call.by /\ Vouched THEN "session" ELSE "stranger"
         why == Answer(w, verb, kin, call.by, call.token)
     IN IF w \notin listening THEN UNCHANGED <<sessions, last>>
        ELSE /\ last' = [did |-> IF why = "" THEN verb ELSE why, changes |-> last.changes,
                         odd |-> parent[w] # up[w] \/ Ring(w),
                         on |-> w, its |-> life[w], kin |-> kin, by |-> <<call.by, call.its>>,
                         token |-> call.token]
             /\ IF verb = "stop" /\ why = "" THEN Gone(w) ELSE UNCHANGED sessions

Next ==
  \/ \E x \in Ids : Rise(x) \/ Tick(x) \/ End(x)
  \/ \E asked \in Asked : Ask(asked[1], asked[2])
  \/ \E p, c \in Ids : Fork(p, c) \/ Graft(p, c)
  \/ CopyNotes \/ CopyMinted \/ Fan
  \/ \E w \in Ids \cup {"bad"} : Decide(w)
  \/ \E w \in Ids : Carry(w)

Spec == Init /\ [][Next]_vars

----------------------------------------------------------------------------
\* Properties

\* What a call stops is the session its own session started or took on, not another that has the
\* name by now, nor on the word of a session that has the caller's name by now; and what a session
\* is for is said by itself or by who started it.
OnlyItsOwn ==
  LET proved == last.token # NoKey /\ last.token.made = last.by /\ last.token.whom = last.on
                /\ last.token.its = last.its
  IN /\ last.did = "stop" => proved
     /\ last.did = "role" => proved \/ last.kin = "session"

\* A session names children, shows its secrets and its inbox and runs the tool for its own
\* processes only.
OwnSurface ==
  \A w \in listening, verb \in OwnOnly, kin \in {"session", "spawner", "stranger"},
     claimed \in Ids \cup {Nobody} :
    Answer(w, verb, kin, claimed, NoKey) = "" =>
      (kin = "session" \/ (kin = "spawner" /\ verb = "mint")) /\ claimed \in {w, Nobody}

\* What the near end lets through the far end does not refuse for who is calling, unless somebody
\* came, went or was taken on meanwhile, or the two are a ring.  An assign goes out without a secret
\* too, and is refused where one was needed.
GatesAgree ==
  last.did \in {"nobody", "own", "wall", "unproven"} /\ last.changes = 0 /\ ~last.odd =>
    last.did = "unproven" /\ last.token = NoKey
=============================================================================
