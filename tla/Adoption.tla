------------------------------- MODULE Adoption -------------------------------
(***************************************************************************)
(* One running session taking another on: asked for by the one that wants  *)
(* a parent, answered by the person at the other, and then handed over.    *)
(*                                                                         *)
(*   the asker   writes <id>.adopting (whom it asked, a fresh nonce), calls *)
(*               adopt, and later answers adopted by taking its own note    *)
(*   the asked   puts the question to its person; on a yes a thread of its  *)
(*               own withdraws, checks, hands over, writes <asker>.parent   *)
(*                                                                         *)
(* An ask is known by its nonce, and goes through the stages below.  The   *)
(* threads of several answers run at once, so a step is one call on the    *)
(* directory.  adoptable is one step: it reads notes and writes none.      *)
(***************************************************************************)
EXTENDS Kinship

CONSTANTS
  Asks,        \* the askings there may be: records [from, to, nonce]
  NoAsk,       \* no note, no secret
  Mortals,     \* sessions whose name another session may take over
  AskedAtOnce  \* ASKED_AT_ONCE, how many questions wait for one person

ASSUME AdoptionKinds ==
  /\ NoAsk \notin Asks /\ Mortals \subseteq Ids
  /\ \A n \in Asks : n.from \in Ids /\ n.to \in Ids \ {n.from}

VARIABLES
  up,        \* the .parent notes
  note,      \* the .adopting notes
  aside,     \* <id>.adopting.taken.<pid>, where serve moves its note to take it
  stage,     \* how far each ask has come
  gaveUp,    \* the hand-overs the asked side no longer waits for
  token,     \* About.adopted_token: the secret of which ask each session holds
  minted,    \* About.minted: the asks whose secret their asked side holds
  delivered, \* the asks whose Then::Adopted the loop of the asker took
  life,      \* 1 once another session has the name
  born,      \* in which life of its asker an ask was made
  late       \* the asks made after the asked side had come past its withdrawal

vars == <<up, note, aside, stage, gaveUp, token, minted, delivered, life, born, late>>

Opposite(m, n) == m.from = n.to /\ m.to = n.from

AtAsked == {"yes", "unlink", "check"}
AtAsker == {"offer", "move", "reread", "putback", "discard", "drop", "recheck"}
Granted == {"granted", "written", "done"}
Stages == {"none", "noted", "put", "refused"} \cup AtAsked \cup AtAsker \cup Granted

Init ==
  /\ up = [x \in Ids |-> Nobody]
  /\ note = [x \in Ids |-> NoAsk] /\ aside = [x \in Ids |-> NoAsk]
  /\ stage = [n \in Asks |-> "none"]
  /\ gaveUp = {} /\ minted = {} /\ delivered = {} /\ late = {}
  /\ token = [x \in Ids |-> NoAsk]
  /\ life = [x \in Ids |-> 0] /\ born = [n \in Asks |-> 0]

Step(n, from, to) == stage[n] = from /\ stage' = [stage EXCEPT ![n] = to]

May(n) == Adoptable(up, Ids, n.to, n.from, 0)

----------------------------------------------------------------------------
\* The asker asks

\* pending::asked replaces any earlier asking.
AskNote(n) ==
  /\ Step(n, "none", "noted")
  /\ note' = [note EXCEPT ![n.from] = n]
  /\ born' = [born EXCEPT ![n] = life[n.from]]
  /\ late' = IF \E m \in Asks : Opposite(m, n) /\ stage[m] \notin {"none", "noted", "put", "yes"}
             THEN late \cup {n} ELSE late
  /\ UNCHANGED <<up, aside, gaveUp, token, minted, delivered, life>>

Waiting(p) == {n \in Asks : n.to = p /\ stage[n] = "put"}

\* adopt, and the loop that holds the question: one per asker and AskedAtOnce at most.
Put(n) ==
  /\ stage[n] = "noted"
  /\ LET older == {m \in Waiting(n.to) : m.from = n.from}
         held  == Waiting(n.to) \ older
     IN stage' = [m \in Asks |->
          IF m = n THEN IF May(n) /\ Cardinality(held) < AskedAtOnce THEN "put" ELSE "refused"
          ELSE IF May(n) /\ m \in older THEN "refused" ELSE stage[m]]
  /\ UNCHANGED <<up, note, aside, gaveUp, token, minted, delivered, life, born, late>>

----------------------------------------------------------------------------
\* The asked side: main/adopting.rs

Accept(n) ==
  /\ Step(n, "put", "yes")
  /\ UNCHANGED <<up, note, aside, gaveUp, token, minted, delivered, life, born, late>>

Decline(n) ==
  /\ Step(n, "put", "refused")
  /\ UNCHANGED <<up, note, aside, gaveUp, token, minted, delivered, life, born, late>>

\* As it would be if the session's own asking were left standing.
WithdrawNothing(n) ==
  /\ Step(n, "yes", "check")
  /\ UNCHANGED <<up, note, aside, gaveUp, token, minted, delivered, life, born, late>>

\* pending::withdraw: the session's own asking of the asker goes, and only that one is looked for.
Withdraw(n) ==
  /\ Step(n, "yes", IF note[n.to] # NoAsk /\ note[n.to].to = n.from THEN "unlink" ELSE "check")
  /\ UNCHANGED <<up, note, aside, gaveUp, token, minted, delivered, life, born, late>>

Unlink(n) ==
  /\ Step(n, "unlink", "check")
  /\ note' = [note EXCEPT ![n.to] = NoAsk]
  /\ UNCHANGED <<up, aside, gaveUp, token, minted, delivered, life, born, late>>

\* As it would be if the note were written before the asker was reached.
CheckAndWrite(n) ==
  /\ Step(n, "check", IF born[n] = life[n.from] /\ May(n) THEN "offer" ELSE "refused")
  /\ up' = IF born[n] = life[n.from] /\ May(n) THEN [up EXCEPT ![n.from] = n.to] ELSE up
  /\ UNCHANGED <<note, aside, gaveUp, token, minted, delivered, life, born, late>>

\* took: still the session that asked, and still adoptable.
Check(n) ==
  /\ Step(n, "check", IF born[n] = life[n.from] /\ May(n) THEN "offer" ELSE "refused")
  /\ UNCHANGED <<up, note, aside, gaveUp, token, minted, delivered, life, born, late>>

\* hand_over fails: not reached, or not answered in time.  The asker may be at any step by then.
GiveUp(n) ==
  /\ stage[n] \in AtAsker \cup {"granted"}
  /\ gaveUp' = gaveUp \cup {n}
  /\ UNCHANGED <<up, note, aside, stage, token, minted, delivered, life, born, late>>

\* directory::adopted, whatever the notes say by now.
WriteNote(n) ==
  /\ Step(n, "granted", "written") /\ n \notin gaveUp
  /\ up' = [up EXCEPT ![n.from] = n.to]
  /\ UNCHANGED <<note, aside, gaveUp, token, minted, delivered, life, born, late>>

\* The secret goes among those of the children, one to an id.
Insert(n) ==
  /\ Step(n, "written", "done")
  /\ minted' = {m \in minted : m.from # n.from \/ m.to # n.to} \cup {n}
  /\ UNCHANGED <<up, note, aside, gaveUp, token, delivered, life, born, late>>

----------------------------------------------------------------------------
\* The asker answers adopted: pending::consume, and adoptable once more

ReadNote(n) ==
  /\ Step(n, "offer", IF note[n.from] = n THEN "move" ELSE "refused")
  /\ UNCHANGED <<up, note, aside, gaveUp, token, minted, delivered, life, born, late>>

\* Whatever the note is by now is moved, over what another answer may have moved.
MoveAside(n) ==
  /\ Step(n, "move", IF note[n.from] = NoAsk THEN "refused" ELSE "reread")
  /\ IF note[n.from] = NoAsk THEN UNCHANGED <<note, aside>>
     ELSE /\ aside' = [aside EXCEPT ![n.from] = note[n.from]]
          /\ note' = [note EXCEPT ![n.from] = NoAsk]
  /\ UNCHANGED <<up, gaveUp, token, minted, delivered, life, born, late>>

Reread(n) ==
  /\ Step(n, "reread", IF aside[n.from] = n THEN "drop" ELSE "putback")
  /\ UNCHANGED <<up, note, aside, gaveUp, token, minted, delivered, life, born, late>>

\* hard_link, which never replaces a note that is there.
PutBack(n) ==
  /\ Step(n, "putback", "discard")
  /\ note' = IF note[n.from] = NoAsk THEN [note EXCEPT ![n.from] = aside[n.from]] ELSE note
  /\ UNCHANGED <<up, aside, gaveUp, token, minted, delivered, life, born, late>>

Discard(n) ==
  /\ \/ Step(n, "discard", "refused")
     \/ Step(n, "drop", "recheck")
  /\ aside' = [aside EXCEPT ![n.from] = NoAsk]
  /\ UNCHANGED <<up, note, gaveUp, token, minted, delivered, life, born, late>>

Recheck(n) ==
  /\ Step(n, "recheck", IF May(n) THEN "granted" ELSE "refused")
  /\ UNCHANGED <<up, note, aside, gaveUp, token, minted, delivered, life, born, late>>

\* As it would be if only the harness were told.
DeliverNoSecret(n) ==
  /\ stage[n] \in Granted /\ n \notin delivered /\ born[n] = life[n.from]
  /\ delivered' = delivered \cup {n}
  /\ UNCHANGED <<up, note, aside, stage, gaveUp, token, minted, life, born, late>>

\* The loop takes Then::Adopted, after the reply has gone out.
Deliver(n) ==
  /\ stage[n] \in Granted /\ n \notin delivered /\ born[n] = life[n.from]
  /\ delivered' = delivered \cup {n}
  /\ token' = [token EXCEPT ![n.from] = n]
  /\ UNCHANGED <<up, note, aside, stage, gaveUp, minted, life, born, late>>

----------------------------------------------------------------------------
\* x ends and another session takes its name: what x left is swept, what it waited for is over.
Renew(x) ==
  /\ x \in Mortals /\ life[x] = 0
  /\ life' = [life EXCEPT ![x] = 1]
  /\ up' = [up EXCEPT ![x] = Nobody]
  /\ note' = [note EXCEPT ![x] = NoAsk] /\ aside' = [aside EXCEPT ![x] = NoAsk]
  /\ token' = [token EXCEPT ![x] = NoAsk]
  /\ minted' = {n \in minted : n.to # x}
  /\ gaveUp' = gaveUp \cup {n \in Asks : n.to = x /\ stage[n] \in AtAsker \cup {"granted"}}
  /\ stage' = [n \in Asks |->
       IF (n.from = x /\ stage[n] \in AtAsker) \/ (n.to = x /\ stage[n] \in AtAsked \cup {"put"})
       THEN "refused"
       ELSE IF n.to = x /\ stage[n] = "written" THEN "done" ELSE stage[n]]
  /\ UNCHANGED <<delivered, born, late>>

Asking(n) == AskNote(n) \/ Put(n)
Answering(n) == Accept(n) \/ Decline(n) \/ Withdraw(n) \/ Unlink(n) \/ Check(n)
                \/ GiveUp(n) \/ WriteNote(n) \/ Insert(n)
Taking(n) == ReadNote(n) \/ MoveAside(n) \/ Reread(n) \/ PutBack(n) \/ Discard(n)
             \/ Recheck(n) \/ Deliver(n)

Next == \/ \E n \in Asks : Asking(n) \/ Answering(n) \/ Taking(n)
        \/ \E x \in Ids : Renew(x)

Spec == Init /\ [][Next]_vars

----------------------------------------------------------------------------
\* Properties

\* The shape of every variable.
TypeOK ==
  /\ up \in [Ids -> Ids \cup {Nobody}]
  /\ note \in [Ids -> Asks \cup {NoAsk}] /\ aside \in [Ids -> Asks \cup {NoAsk}]
  /\ token \in [Ids -> Asks \cup {NoAsk}]
  /\ stage \in [Asks -> Stages]
  /\ gaveUp \subseteq Asks /\ minted \subseteq Asks /\ delivered \subseteq Asks /\ late \subseteq Asks
  /\ life \in [Ids -> {0, 1}] /\ born \in [Asks -> {0, 1}]

\* No name has changed hands.
SameHands == \A x \in Ids : life[x] = 0

\* As long as no name has changed hands, nobody is made a child that did not ask for it and take
\* it: the parent a note names is one this very session asked, whose person said yes, and whose
\* hand-over it took with the nonce it left.
Consent ==
  SameHands =>
    \A x \in Ids : up[x] # Nobody =>
      \E n \in Asks : n.from = x /\ n.to = up[x] /\ stage[n] \in {"written", "done"}

\* No session has asked a second time.
Once == \A m, n \in Asks : m.from = n.from /\ stage[m] # "none" /\ stage[n] # "none" => m = n

\* Two sessions that have asked each other do not both take the other on, whichever steps of the
\* two answers meet, as long as neither asked before.  Of an ask made only after the other side
\* withdrew, see NotBoth.
NoSwap ==
  Once => \A m, n \in Asks \ late :
    Opposite(m, n) /\ born[m] = life[m.from] /\ born[n] = life[n.from]
      => ~(stage[m] \in Granted /\ stage[n] \in Granted)

\* Once every answer is through, and as long as no name has changed hands and nobody asked twice,
\* the parent a note names holds the secret its child goes by, so that it may stop it.  Two parents
\* that answer one asker write the note and hand the secret over each in its own time.
StopKey ==
  SameHands /\ Once /\ (\A n \in Asks : \/ stage[n] \in {"none", "noted", "put", "refused"}
                                          \/ n \in delivered \cap minted) =>
    \A x \in Ids : up[x] # Nobody => token[x] \in minted /\ token[x].to = up[x]

\* Two sessions taking each other on at once cannot both succeed.
NotBoth ==
  \A m, n \in Asks : Opposite(m, n) => ~(stage[m] = "done" /\ stage[n] = "done")
=============================================================================
