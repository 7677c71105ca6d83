---------------------------- MODULE AdoptionProofs ----------------------------
(***************************************************************************)
(* What Adoption guarantees for every set of sessions and askings: the     *)
(* shape of its state, that nobody is made a child without its consent     *)
(* until a name changes hands, and that two sessions that asked each other *)
(* do not both take the other on until one asks a second time; and, of the *)
(* walls of Kinship, that reach goes both ways and stopping down only.     *)
(*                                                                         *)
(* And of five other parts of the run of MCKinship, for all their bounds:  *)
(* a question's answer stands (Tasks), whoever is said to have gone has    *)
(* gone and nobody is missed (Branch), the two ends of a call agree and    *)
(* nothing is done to what is not the caller's own (Calls), a session is   *)
(* listed for what it was told (Roles), and an adoption that is let        *)
(* through makes no ring and nobody too deep (Roster).                     *)
(***************************************************************************)
EXTENDS MCKinship, Sequences, FiniteSetTheorems, WellFoundedInduction, TLAPS

----------------------------------------------------------------------------
\* The walls of policy, for every two sessions, whatever their notes say.

\* What directory::whom says of a session.
Whoms == [id : Ids, parent : Ids \cup {Nobody}, root : Ids \cup Runs]

\* may_at: a session that may be told something may answer.  Roster!AnswerGoesBack is this for
\* the sessions of one directory.
THEOREM ReachIsMutual ==
  ASSUME NEW me \in Whoms, NEW them \in Whoms
  PROVE  MutualReach(me, them)
<1>1. CASE me.id = them.id
  BY <1>1 DEF MutualReach, Between, MayReach
<1>2. CASE me.id # them.id /\ (me.parent = them.id \/ them.parent = me.id)
  BY <1>2 DEF MutualReach, Between, MayReach
<1>3. CASE me.id # them.id /\ me.parent # them.id /\ them.parent # me.id
  <2>1. CASE me.parent # Nobody /\ me.parent = them.parent
    BY <1>3, <2>1 DEF MutualReach, Between, MayReach
  <2>2. CASE ~(me.parent # Nobody /\ me.parent = them.parent) /\ me.root = them.root
    BY <1>3, <2>2 DEF MutualReach, Between, MayReach
  <2>3. CASE ~(me.parent # Nobody /\ me.parent = them.parent) /\ me.root # them.root
    BY <1>3, <2>3 DEF MutualReach, Between, MayReach, Talks
  <2>4. QED
    BY <2>1, <2>2, <2>3
<1>4. QED
  BY <1>1, <1>2, <1>3

\* between: only a child may be stopped, so that of two sessions which do not answer to each other
\* at most one may stop the other, and never one that is not recorded as its parent.
THEOREM StopsDownOnly ==
  ASSUME NEW me \in Whoms, NEW them \in Whoms, MayStop(Between(me, them))
  PROVE  /\ them.parent = me.id
         /\ ~MayStop(Between(them, me))
BY KinshipKinds DEF MayStop, Between, Whoms

----------------------------------------------------------------------------
\* The shape of the state

LEMMA InitTypeOK == Init => TypeOK
BY DEF Init, TypeOK, Stages

LEMMA StepTypeOK == TypeOK /\ [Next]_vars => TypeOK'
<1> SUFFICES ASSUME TypeOK, [Next]_vars
             PROVE  TypeOK'
  OBVIOUS
<1> USE AdoptionKinds DEF TypeOK, Stages, AtAsked, AtAsker, Granted, Step
<1>1. ASSUME NEW n \in Asks, Asking(n)
      PROVE  TypeOK'
  <2>1. CASE AskNote(n)
    BY <2>1 DEF AskNote
  <2>2. CASE Put(n)
    <3>1. \A m \in Asks : stage'[m] \in {"put", "refused", stage[m]}
      BY <2>2 DEF Put
    <3>2. stage' \in [Asks -> Stages]
      BY <2>2, <3>1 DEF Put
    <3>3. QED
      BY <2>2, <3>2 DEF Put
  <2>3. QED
    BY <1>1, <2>1, <2>2 DEF Asking
<1>2. ASSUME NEW n \in Asks, Answering(n)
      PROVE  TypeOK'
  <2>1. CASE Accept(n) \/ Decline(n) \/ Check(n) \/ Withdraw(n)
    BY <2>1 DEF Accept, Decline, Check, Withdraw
  <2>2. CASE Unlink(n) \/ GiveUp(n)
    BY <2>2 DEF Unlink, GiveUp
  <2>3. CASE WriteNote(n)
    BY <2>3 DEF WriteNote
  <2>4. CASE Insert(n)
    BY <2>4 DEF Insert
  <2>5. QED
    BY <1>2, <2>1, <2>2, <2>3, <2>4 DEF Answering
<1>3. ASSUME NEW n \in Asks, Taking(n)
      PROVE  TypeOK'
  <2>1. CASE ReadNote(n) \/ Reread(n) \/ Recheck(n)
    BY <2>1 DEF ReadNote, Reread, Recheck
  <2>2. CASE MoveAside(n)
    BY <2>2 DEF MoveAside
  <2>3. CASE PutBack(n)
    BY <2>3 DEF PutBack
  <2>4. CASE Discard(n) \/ Deliver(n)
    BY <2>4 DEF Discard, Deliver
  <2>5. QED
    BY <1>3, <2>1, <2>2, <2>3, <2>4 DEF Taking
<1>4. ASSUME NEW x \in Ids, Renew(x)
      PROVE  TypeOK'
  <2>1. \A n \in Asks : stage'[n] \in {"refused", "done", stage[n]}
    BY <1>4 DEF Renew
  <2>2. stage' \in [Asks -> Stages]
    BY <1>4, <2>1 DEF Renew
  <2>3. QED
    BY <1>4, <2>2 DEF Renew
<1>5. CASE UNCHANGED vars
  BY <1>5 DEF vars
<1>6. QED
  BY <1>1, <1>2, <1>3, <1>4, <1>5 DEF Next

\* Every variable keeps its shape (Adoption!TypeOK), for any askings among any sessions.
THEOREM Typed == Spec => []TypeOK
BY InitTypeOK, StepTypeOK, PTL DEF Spec

----------------------------------------------------------------------------
\* Consent, while no name changes hands: nothing but WriteNote touches a parent note, and the
\* stage of the ask it was written for never goes back.

\* A name that has changed hands never changes back, so what SameHands keeps is enough.
ConsentInv == TypeOK /\ Consent

LEMMA StepConsent == ConsentInv /\ [Next]_vars => ConsentInv'
<1> SUFFICES ASSUME ConsentInv, [Next]_vars
             PROVE  ConsentInv'
  OBVIOUS
<1>1. TypeOK'
  BY StepTypeOK DEF ConsentInv
<1>2. ASSUME SameHands'
      PROVE  SameHands /\ \A x \in Ids : ~Renew(x)
  <2> USE <1>2, AdoptionKinds DEF ConsentInv, TypeOK, SameHands
  <2>1. \A x \in Ids : ~Renew(x)
    BY DEF Renew
  <2>2. UNCHANGED life
    BY <2>1 DEF Next, vars, Asking, Answering, Taking, AskNote, Put, Accept, Decline, Withdraw,
           Unlink, Check, GiveUp, WriteNote, Insert, ReadNote, MoveAside, Reread, PutBack, Discard,
           Recheck, Deliver
  <2>3. QED
    BY <2>1, <2>2
<1>3. Consent'
  <2> SUFFICES ASSUME SameHands'
               PROVE  Consent'
    BY DEF Consent
  <2> DEFINE Kept(n) == stage[n] \in {"written", "done"} => stage'[n] \in {"written", "done"}
  <2> USE <1>2, AdoptionKinds DEF ConsentInv, TypeOK
  <2>1. ASSUME NEW n \in Asks, WriteNote(n)
        PROVE  Consent'
    <3>1. stage'[n] = "written" /\ up' = [up EXCEPT ![n.from] = n.to]
      BY <2>1 DEF WriteNote, Step
    <3>2. \A m \in Asks : Kept(m)
      BY <2>1 DEF WriteNote, Step
    <3>3. QED
      BY <3>1, <3>2 DEF Consent
  <2>2. ASSUME \A n \in Asks : ~WriteNote(n)
        PROVE  Consent'
    <3>1. up' = up
      BY <2>2 DEF Next, vars, Asking, Answering, Taking, AskNote, Put, Accept, Decline, Withdraw,
           Unlink, Check, GiveUp, Insert, ReadNote, MoveAside, Reread, PutBack, Discard, Recheck,
           Deliver
    <3>2. ASSUME NEW m \in Asks
          PROVE  Kept(m)
      <4>1. CASE \E n \in Asks : Asking(n)
        BY <4>1 DEF Asking, AskNote, Put, Step, Waiting
      <4>2. CASE \E n \in Asks : Answering(n)
        BY <4>2 DEF Answering, Accept, Decline, Withdraw, Unlink, Check, GiveUp, WriteNote, Insert, Step
      <4>3. CASE \E n \in Asks : Taking(n)
        BY <4>3 DEF Taking, ReadNote, MoveAside, Reread, PutBack, Discard, Recheck, Deliver, Step
      <4>4. CASE UNCHANGED vars
        BY <4>4 DEF vars
      <4>5. QED
        BY <4>1, <4>2, <4>3, <4>4 DEF Next
    <3>3. QED
      BY <3>1, <3>2 DEF Consent
  <2>3. QED
    BY <2>1, <2>2
<1>4. QED
  BY <1>1, <1>3 DEF ConsentInv

\* As long as no name has changed hands, nobody is made a child that did not ask and take the
\* hand-over (Adoption!Consent).
THEOREM Consented == Spec => []Consent
<1>1. Init => ConsentInv
  BY InitTypeOK DEF Init, ConsentInv, Consent
<1>2. ConsentInv => Consent
  BY DEF ConsentInv
<1>3. QED
  BY <1>1, <1>2, StepConsent, PTL DEF Spec

----------------------------------------------------------------------------
\* NoSwap, while each session has asked once.

\* The asker's note has been taken for the ask, or will never be.
Taken == {"reread", "drop", "recheck"} \cup Granted

\* The asked side has withdrawn its own asking.
Past == {"check", "offer", "move"} \cup Taken

\* A note is where its ask says, and only there.
Placed ==
  /\ \A x \in Ids : note[x] # NoAsk => note[x].from = x
  /\ \A x \in Ids : aside[x] # NoAsk => aside[x].from = x /\ stage[aside[x]] \in {"reread", "drop"}
  /\ \A n \in Asks : stage[n] = "reread" => aside[n.from] = n
  /\ \A n \in Asks : stage[n] \notin {"putback", "discard"}
  /\ \A n \in Asks : note[n.from] = n => stage[n] \notin {"none"} \cup Taken

\* Of two opposite askings, once one is past its withdrawal the other is either taken already or
\* has lost its note for good, and never are both taken.
OneWay ==
  \A m, n \in Asks \ late :
    Opposite(m, n) =>
      /\ stage[m] \in Past /\ stage[n] \notin Taken => note[n.from] # n
      /\ ~(stage[m] \in Taken /\ stage[n] \in Taken)

\* What Put and Renew may do to the stage of an ask.
Unmoved(n) == stage'[n] = stage[n]
Queued(n) == stage[n] \in {"noted", "put"} /\ stage'[n] \in {"put", "refused"}
Dropped(n, x) == /\ stage'[n] = "refused"
                 /\ (n.from = x /\ stage[n] \in AtAsker) \/ stage[n] \in AtAsked \cup {"put"}
Through(n) == stage[n] = "written" /\ stage'[n] = "done"

SwapInv == TypeOK /\ (Once => Placed /\ OneWay)

\* An ask that was made stays made.
LEMMA StepsOn ==
  ASSUME TypeOK, [Next]_vars, NEW n \in Asks, stage[n] # "none"
  PROVE  stage'[n] # "none"
<1> USE DEF TypeOK, Step
<1>1. CASE \E m \in Asks : Asking(m)
  BY <1>1 DEF Asking, AskNote, Put, Waiting
<1>2. CASE \E m \in Asks : Answering(m)
  BY <1>2 DEF Answering, Accept, Decline, Withdraw, Unlink, Check, GiveUp, WriteNote, Insert
<1>3. CASE \E m \in Asks : Taking(m)
  BY <1>3 DEF Taking, ReadNote, MoveAside, Reread, PutBack, Discard, Recheck, Deliver
<1>4. CASE \E x \in Ids : Renew(x)
  BY <1>4 DEF Renew
<1>5. CASE UNCHANGED vars
  BY <1>5 DEF vars
<1>6. QED
  BY <1>1, <1>2, <1>3, <1>4, <1>5 DEF Next

LEMMA StepOnce == TypeOK /\ [Next]_vars /\ Once' => Once
BY StepsOn DEF Once

LEMMA StepPlaced == Once /\ Once' /\ TypeOK /\ Placed /\ [Next]_vars => Placed'
<1> SUFFICES ASSUME Once, Once', TypeOK, Placed, [Next]_vars
             PROVE  Placed'
  OBVIOUS
<1> USE AdoptionKinds DEF Once, TypeOK, Placed, Taken, Stages, AtAsked, AtAsker, Granted, Step
<1>1. ASSUME NEW n \in Asks, Asking(n)
      PROVE  Placed'
  <2>1. CASE AskNote(n)
    BY <2>1 DEF AskNote
  <2>2. CASE Put(n)
    <3>1. UNCHANGED <<note, aside>>
      BY <2>2 DEF Put
    <3>2. \A m \in Asks : Unmoved(m) \/ Queued(m)
      BY <2>2 DEF Put, Waiting, Unmoved, Queued
    <3>3. QED
      BY <3>1, <3>2 DEF Unmoved, Queued
  <2>3. QED
    BY <1>1, <2>1, <2>2 DEF Asking
<1>2. ASSUME NEW n \in Asks, Answering(n)
      PROVE  Placed'
  <2>1. CASE Accept(n) \/ Decline(n) \/ Check(n) \/ Withdraw(n)
    BY <2>1 DEF Accept, Decline, Check, Withdraw
  <2>2. CASE Unlink(n) \/ GiveUp(n)
    BY <2>2 DEF Unlink, GiveUp
  <2>3. CASE WriteNote(n) \/ Insert(n)
    BY <2>3 DEF WriteNote, Insert
  <2>4. QED
    BY <1>2, <2>1, <2>2, <2>3 DEF Answering
<1>3. ASSUME NEW n \in Asks, Taking(n)
      PROVE  Placed'
  <2>1. CASE ReadNote(n) \/ Recheck(n)
    BY <2>1 DEF ReadNote, Recheck
  <2>2. CASE Reread(n)
    BY <2>2 DEF Reread
  <2>3. CASE MoveAside(n)
    <3>1. CASE note[n.from] = NoAsk
      BY <2>3, <3>1 DEF MoveAside
    <3>2. CASE note[n.from] # NoAsk
      <4> DEFINE moved == note[n.from]
      <4>0. moved \in Asks /\ moved.from = n.from /\ note[moved.from] = moved
        BY <3>2
      <4>a. stage[moved] # "none" /\ stage[n] = "move"
        BY <2>3, <4>0 DEF MoveAside
      <4>1. note[n.from] = n
        BY <4>0, <4>a
      <4>2. /\ n.from \in Ids /\ n # NoAsk
            /\ note' = [note EXCEPT ![n.from] = NoAsk]
            /\ aside' = [aside EXCEPT ![n.from] = n]
            /\ stage' = [stage EXCEPT ![n] = "reread"]
        BY <2>3, <3>2, <4>1 DEF MoveAside
      <4>3. \A x \in Ids : note'[x] # NoAsk => note'[x].from = x
        BY <4>2
      <4>4. \A x \in Ids :
              aside'[x] # NoAsk => aside'[x].from = x /\ stage'[aside'[x]] \in {"reread", "drop"}
        BY <4>2
      <4>5. \A m \in Asks : stage'[m] = "reread" => aside'[m.from] = m
        BY <4>2, <4>1
      <4>6. \A m \in Asks : stage'[m] \notin {"putback", "discard"}
        BY <4>2
      <4>7. \A m \in Asks : note'[m.from] = m => stage'[m] \notin {"none"} \cup Taken
        BY <4>2
      <4>8. QED
        BY <4>3, <4>4, <4>5, <4>6, <4>7
    <3>3. QED
      BY <3>1, <3>2
  <2>4. CASE PutBack(n)
    BY <2>4 DEF PutBack
  <2>5. CASE Discard(n) \/ Deliver(n)
    BY <2>5 DEF Discard, Deliver
  <2>6. QED
    BY <1>3, <2>1, <2>2, <2>3, <2>4, <2>5 DEF Taking
<1>4. ASSUME NEW x \in Ids, Renew(x)
      PROVE  Placed'
  <2>1. note' = [note EXCEPT ![x] = NoAsk] /\ aside' = [aside EXCEPT ![x] = NoAsk]
    BY <1>4 DEF Renew
  <2>2. \A m \in Asks : Unmoved(m) \/ Dropped(m, x) \/ Through(m)
    BY <1>4 DEF Renew, Unmoved, Dropped, Through
  <2>3. \A m \in Asks : m.from = x => stage'[m] \notin AtAsker
    BY <1>4 DEF Renew
  <2>4. \A y \in Ids : aside'[y] # NoAsk => aside'[y].from = y /\ stage'[aside'[y]] \in {"reread", "drop"}
    <3> SUFFICES ASSUME NEW y \in Ids, aside'[y] # NoAsk
                 PROVE  aside'[y].from = y /\ stage'[aside'[y]] \in {"reread", "drop"}
      OBVIOUS
    <3>1. y # x /\ aside'[y] = aside[y] /\ aside[y] \in Asks /\ aside[y].from = y
      BY <2>1
    <3>2. QED
      BY <3>1, <2>2 DEF Unmoved, Dropped, Through
  <2>5. \A y \in Ids : note'[y] # NoAsk => note'[y].from = y
    BY <2>1
  <2>6. \A n \in Asks : stage'[n] = "reread" => aside'[n.from] = n
    BY <2>1, <2>2, <2>3 DEF Unmoved, Dropped, Through
  <2>7. \A n \in Asks : stage'[n] \notin {"putback", "discard"}
    BY <2>2 DEF Unmoved, Dropped, Through
  <2>8. \A n \in Asks : note'[n.from] = n => stage'[n] \notin {"none"} \cup Taken
    <3> SUFFICES ASSUME NEW n \in Asks, note'[n.from] = n
                 PROVE  stage'[n] \notin {"none"} \cup Taken
      OBVIOUS
    <3>1. note[n.from] = n
      BY <2>1
    <3>2. QED
      BY <3>1, <2>2 DEF Unmoved, Dropped, Through
  <2>9. QED
    BY <2>4, <2>5, <2>6, <2>7, <2>8
<1>5. CASE UNCHANGED vars
  BY <1>5 DEF vars
<1>6. QED
  BY <1>1, <1>2, <1>3, <1>4, <1>5 DEF Next

LEMMA StepOneWay == Once /\ Once' /\ TypeOK /\ Placed /\ OneWay /\ [Next]_vars => OneWay'
<1> SUFFICES ASSUME Once, Once', TypeOK, Placed, OneWay, [Next]_vars,
                    NEW m \in Asks \ late', NEW n \in Asks \ late', Opposite(m, n)
             PROVE  /\ stage'[m] \in Past /\ stage'[n] \notin Taken => note'[n.from] # n
                    /\ ~(stage'[m] \in Taken /\ stage'[n] \in Taken)
  BY DEF OneWay, Opposite
<1>0. m \notin late /\ n \notin late
  BY DEF Next, vars, Asking, Answering, Taking, AskNote, Put, Accept, Decline, Withdraw, Unlink, Check,
         GiveUp, WriteNote, Insert, ReadNote, MoveAside, Reread, PutBack, Discard, Recheck, Deliver, Renew
<1>a. /\ stage[m] \in Past /\ stage[n] \notin Taken => note[n.from] # n
      /\ stage[n] \in Past /\ stage[m] \notin Taken => note[m.from] # m
      /\ ~(stage[m] \in Taken /\ stage[n] \in Taken)
  BY <1>0 DEF OneWay, Opposite
<1>b. m # n /\ m.from = n.to /\ m.to = n.from /\ m.from \in Ids /\ n.from \in Ids
  BY AdoptionKinds DEF Opposite
<1> USE <1>a, <1>b, AdoptionKinds DEF Once, TypeOK, Placed, Taken, Past, Stages, AtAsked, AtAsker, Granted, Step
<1>1. ASSUME NEW k \in Asks, Asking(k)
      PROVE  /\ stage'[m] \in Past /\ stage'[n] \notin Taken => note'[n.from] # n
             /\ ~(stage'[m] \in Taken /\ stage'[n] \in Taken)
  <2>1. CASE AskNote(k)
    <3>1. CASE k = n
      <4>1. stage[m] \in {"none", "noted", "put", "yes"}
        BY <2>1, <3>1 DEF AskNote, Opposite
      <4>2. QED
        BY <2>1, <3>1, <4>1 DEF AskNote
    <3>2. CASE k # n
      BY <2>1, <3>2 DEF AskNote
    <3>3. QED
      BY <3>1, <3>2
  <2>2. CASE Put(k)
    <3>1. UNCHANGED <<note, aside>>
      BY <2>2 DEF Put
    <3>2. \A l \in Asks : Unmoved(l) \/ Queued(l)
      BY <2>2 DEF Put, Waiting, Unmoved, Queued
    <3>3. QED
      BY <3>1, <3>2 DEF Unmoved, Queued
  <2>3. QED
    BY <1>1, <2>1, <2>2 DEF Asking
<1>2. ASSUME NEW k \in Asks, Answering(k)
      PROVE  /\ stage'[m] \in Past /\ stage'[n] \notin Taken => note'[n.from] # n
             /\ ~(stage'[m] \in Taken /\ stage'[n] \in Taken)
  <2>1. CASE Accept(k) \/ Decline(k) \/ Check(k) \/ GiveUp(k)
    BY <2>1 DEF Accept, Decline, Check, GiveUp
  <2>2. CASE Withdraw(k)
    BY <2>2 DEF Withdraw
  <2>3. CASE Unlink(k)
    BY <2>3 DEF Unlink
  <2>4. CASE WriteNote(k) \/ Insert(k)
    BY <2>4 DEF WriteNote, Insert
  <2>5. QED
    BY <1>2, <2>1, <2>2, <2>3, <2>4 DEF Answering
<1>3. ASSUME NEW k \in Asks, Taking(k)
      PROVE  /\ stage'[m] \in Past /\ stage'[n] \notin Taken => note'[n.from] # n
             /\ ~(stage'[m] \in Taken /\ stage'[n] \in Taken)
  <2>1. CASE ReadNote(k) \/ Recheck(k) \/ Reread(k)
    BY <2>1 DEF ReadNote, Recheck, Reread
  <2>2. CASE MoveAside(k)
    <3>1. CASE note[k.from] = NoAsk
      BY <2>2, <3>1 DEF MoveAside
    <3>2. CASE note[k.from] # NoAsk
      <4> DEFINE moved == note[k.from]
      <4>0. moved \in Asks /\ moved.from = k.from /\ note[moved.from] = moved
        BY <3>2
      <4>a. stage[moved] # "none" /\ stage[k] = "move"
        BY <2>2, <4>0 DEF MoveAside
      <4>1. note[k.from] = k
        BY <4>0, <4>a
      <4>2. stage[k] = "move" /\ stage' = [stage EXCEPT ![k] = "reread"] /\ note' = [note EXCEPT ![k.from] = NoAsk]
        BY <2>2, <3>2 DEF MoveAside
      <4>3. QED
        BY <4>1, <4>2
    <3>3. QED
      BY <3>1, <3>2
  <2>3. CASE PutBack(k)
    BY <2>3 DEF PutBack
  <2>4. CASE Discard(k) \/ Deliver(k)
    BY <2>4 DEF Discard, Deliver
  <2>5. QED
    BY <1>3, <2>1, <2>2, <2>3, <2>4 DEF Taking
<1>4. ASSUME NEW x \in Ids, Renew(x)
      PROVE  /\ stage'[m] \in Past /\ stage'[n] \notin Taken => note'[n.from] # n
             /\ ~(stage'[m] \in Taken /\ stage'[n] \in Taken)
  <2>1. note' = [note EXCEPT ![x] = NoAsk]
    BY <1>4 DEF Renew
  <2>2. \A l \in Asks : Unmoved(l) \/ Dropped(l, x) \/ Through(l)
    BY <1>4 DEF Renew, Unmoved, Dropped, Through
  <2>3. stage'[m] \in Taken => stage[m] \in Taken
    BY <2>2 DEF Unmoved, Dropped, Through
  <2>4. stage'[n] \in Taken => stage[n] \in Taken
    BY <2>2 DEF Unmoved, Dropped, Through
  <2>5. ASSUME stage'[m] \in Past, stage'[n] \notin Taken
        PROVE  note'[n.from] # n
    <3>1. stage[m] \in Past
      BY <2>2, <2>5 DEF Unmoved, Dropped, Through
    <3>2. stage[n] \notin Taken \/ n.from = x
      BY <2>2, <2>5 DEF Unmoved, Dropped, Through
    <3>3. QED
      BY <2>1, <3>1, <3>2
  <2>6. QED
    BY <2>3, <2>4, <2>5
<1>5. CASE UNCHANGED vars
  BY <1>5 DEF vars
<1>6. QED
  BY <1>1, <1>2, <1>3, <1>4, <1>5 DEF Next

\* Two sessions that have asked each other do not both take the other on (Adoption!NoSwap), as long
\* as nobody has asked twice: a second asking lets consume put a withdrawn note back.
THEOREM Swapless == Spec => []NoSwap
<1>1. Init => SwapInv
  BY InitTypeOK, AdoptionKinds DEF Init, SwapInv, Placed, OneWay, Taken, Past, Granted
<1>2. SwapInv /\ [Next]_vars => SwapInv'
  BY StepTypeOK, StepOnce, StepPlaced, StepOneWay DEF SwapInv
<1>3. SwapInv => NoSwap
  BY DEF SwapInv, OneWay, NoSwap, Taken
<1>4. QED
  BY <1>1, <1>2, <1>3, PTL DEF Spec

----------------------------------------------------------------------------
\* StopKey, while no name changes hands and each session has asked once: a session holds the
\* secret of the one ask its loop was told of.
Keyed ==
  \A n \in delivered :
    stage[n] # "none" /\ (SameHands /\ Once => token[n.from] = n)

LEMMA StepKeyed == TypeOK /\ Keyed /\ [Next]_vars => Keyed'
<1> SUFFICES ASSUME TypeOK, Keyed, [Next]_vars
             PROVE  Keyed'
  OBVIOUS
<1>1. ASSUME NEW n \in Asks, stage[n] # "none"
      PROVE  stage'[n] # "none"
  BY <1>1, StepsOn
<1>2. Once' => Once
  BY StepOnce
<1>3. ASSUME NEW n \in Asks, Deliver(n)
      PROVE  Keyed'
  <2>1. /\ n.from \in Ids /\ stage[n] # "none"
        /\ delivered' = delivered \cup {n} /\ token' = [token EXCEPT ![n.from] = n]
        /\ stage' = stage /\ life' = life
    BY <1>3, AdoptionKinds DEF Deliver, Granted
  <2>2. SUFFICES ASSUME NEW m \in delivered'
                 PROVE  stage[m] # "none" /\ (SameHands /\ Once => token'[m.from] = m)
    BY <2>1 DEF Keyed, SameHands, Once
  <2>3. m \in Asks /\ stage[m] # "none"
    BY <2>1 DEF TypeOK, Keyed
  <2>4. ASSUME SameHands, Once
        PROVE  token'[m.from] = m
    <3>1. CASE m = n
      BY <2>1, <3>1 DEF TypeOK
    <3>2. CASE m # n
      BY <2>1, <2>3, <2>4, <3>2 DEF TypeOK, Keyed, Once
    <3>3. QED
      BY <3>1, <3>2
  <2>5. QED
    BY <2>3, <2>4
<1>4. ASSUME NEW x \in Ids, Renew(x)
      PROVE  Keyed'
  BY <1>1, <1>4 DEF Renew, Keyed, TypeOK, SameHands
<1>5. ASSUME \A n \in Asks : ~Deliver(n), \A x \in Ids : ~Renew(x)
      PROVE  Keyed'
  <2>1. UNCHANGED <<delivered, token, life>>
    BY <1>5 DEF Next, vars, Asking, Answering, Taking, AskNote, Put, Accept, Decline, Withdraw,
           Unlink, Check, GiveUp, WriteNote, Insert, ReadNote, MoveAside, Reread, PutBack, Discard,
           Recheck
  <2>2. QED
    BY <1>1, <1>2, <2>1 DEF Keyed, SameHands, TypeOK
<1>6. QED
  BY <1>3, <1>4, <1>5

\* Once every answer is through, a parent holds the secret its child goes by, as long as no name
\* has changed hands and nobody has asked twice (Adoption!StopKey).
THEOREM ParentsHoldTheKey == Spec => []StopKey
<1>1. Init => ConsentInv /\ Keyed
  BY InitTypeOK DEF Init, ConsentInv, Consent, Keyed
<1>2. ConsentInv /\ Keyed /\ [Next]_vars => ConsentInv' /\ Keyed'
  BY StepConsent, StepKeyed DEF ConsentInv
<1>3. ASSUME ConsentInv, Keyed
      PROVE  StopKey
  <2>1. SUFFICES ASSUME SameHands, Once,
                        \A n \in Asks : \/ stage[n] \in {"none", "noted", "put", "refused"}
                                        \/ n \in delivered \cap minted,
                        NEW x \in Ids, up[x] # Nobody
                 PROVE  token[x] \in minted /\ token[x].to = up[x]
    BY DEF StopKey
  <2>2. PICK n \in Asks : n.from = x /\ n.to = up[x] /\ stage[n] \in {"written", "done"}
    BY <1>3, <2>1 DEF ConsentInv, Consent
  <2>3. n \in delivered /\ n \in minted
    BY <2>1, <2>2
  <2>4. QED
    BY <1>3, <2>1, <2>2, <2>3 DEF Keyed
<1>4. QED
  BY <1>1, <1>2, <1>3, PTL DEF Spec

\* A set of numbers that is not empty has a least.
LEMMA LeastNat ==
  ASSUME NEW X \in SUBSET Nat, X # {}
  PROVE  \E n \in X : \A m \in X : n <= m
<1> DEFINE Less == {pair \in Nat \X Nat : pair[1] < pair[2]}
<1>1. IsWellFoundedOn(Less, Nat)
  BY NatLessThanWellFounded DEF OpToRel
<1>2. PICK n \in X : \A m \in X : ~(<<m, n>> \in Less)
  <2> HIDE DEF Less
  <2>1. QED
    BY <1>1, WFMin
<1>3. \A m \in X : ~(m < n)
  <2>1. SUFFICES ASSUME NEW m \in X, m < n
                 PROVE  FALSE
    OBVIOUS
  <2>2. <<m, n>> \in Less
    BY <2>1
  <2>3. QED
    BY <2>2, <1>2
<1>4. QED
  BY <1>3

----------------------------------------------------------------------------
\* Tasks.

TaskStates == {"nothing", "submitted", "rejected", "working", "completed", "input_required", "failed",
               "canceled"}

\* A call that is under way with sorts having come.
CallsOf(sorts) ==
  [stage : {"none", "page", "look", "dial", "status"}, next : Nat \ {0}, copy : Seq(sorts), due : TaskStates]

\* What a call knows agrees with what came back first when it began: until its copy is whole that is
\* still the first row, and its copy begins with it.
CallDue(c, rows) ==
  c.due # "nothing" =>
    /\ c.stage \in {"page", "look"}
    /\ c.copy # <<>> => T!Means(c.copy[1]) = c.due
    /\ c.stage = "look" => c.copy # <<>>
    /\ c.stage = "page" => rows # <<>> /\ T!Means(rows[1]) = c.due
    /\ c.stage = "page" /\ c.copy = <<>> => c.next = 1

\* What came of the question, and what of it the calls have copied.
TaskHeard ==
  /\ heard \in [sorts : SUBSET T!Sorts, all : Nat] /\ inbox \in Seq(heard.sorts)
  /\ said \in [state : TaskStates, due : TaskStates]
  /\ reports \in [Pollers -> CallsOf(heard.sorts)]
  /\ asked = "no" => said.due = "nothing"
  /\ \A t \in Pollers : asked = "no" => reports[t].stage = "none"

\* The inductive invariant of what is said of a question.
TaskInv == TaskHeard /\ (\A t \in Pollers : CallDue(reports[t], inbox)) /\ T!FirstDecides /\ T!SaidForCause

\* It holds at the start.
LEMMA TaskBegins == T!Init => TaskInv
<1> SUFFICES ASSUME T!Init
             PROVE  TaskInv
  OBVIOUS
<1>1. inbox \in Seq(heard.sorts) /\ T!NoCall \in CallsOf(heard.sorts)
  BY DEF T!Init, T!NoCall, CallsOf, TaskStates
<1>2. TaskHeard
  BY <1>1 DEF T!Init, TaskHeard, T!NoCall, TaskStates
<1>3. \A t \in Pollers : CallDue(reports[t], inbox)
  BY DEF T!Init, CallDue, T!NoCall
<1>4. T!FirstDecides /\ T!SaidForCause
  BY DEF T!Init, T!FirstDecides, T!SaidForCause
<1>5. QED
  BY <1>2, <1>3, <1>4 DEF TaskInv

\* A copy with a page of the rows.
WithPage(c, s, k, n) == c \o SubSeq(s, k, n)

\* It is one of S, begins as the copy did, or with the first row of the page.
PageTaken(S, c, s, k, n) ==
  /\ WithPage(c, s, k, n) \in Seq(S) /\ WithPage(c, s, k, n) # <<>>
  /\ WithPage(c, s, k, n)[1] = IF c = <<>> THEN s[k] ELSE c[1]

\* What a page adds to a copy.
LEMMA PageAdds ==
  ASSUME NEW S, NEW s \in Seq(S), NEW c \in Seq(S), NEW k \in Nat \ {0}, NEW n \in k..Len(s)
  PROVE  PageTaken(S, c, s, k, n)
<1> DEFINE page == SubSeq(s, k, n)
<1>1. page \in Seq(S) /\ Len(page) = n - k + 1 /\ page[1] = s[k] /\ Len(page) > 0
  OBVIOUS
<1> HIDE DEF page
<1>2. c \o page \in Seq(S) /\ Len(c \o page) = Len(c) + Len(page)
  BY <1>1
<1>3. c # <<>> => (c \o page)[1] = c[1]
  BY <1>1
<1>4. c = <<>> => (c \o page)[1] = page[1]
  BY <1>1
<1>5. c \o page # <<>>
  BY <1>1, <1>2
<1> USE DEF page
<1>6. QED
  BY <1>1, <1>2, <1>3, <1>4, <1>5 DEF WithPage, PageTaken

\* What is left once one is taken out.
LEMMA WithoutOne ==
  ASSUME NEW S, NEW s \in Seq(S), NEW i \in DOMAIN s
  PROVE  T!RemoveAt(s, i) \in Seq(S)
<1> DEFINE front == SubSeq(s, 1, i - 1)
           back == SubSeq(s, i + 1, Len(s))
<1>1. front \in Seq(S) /\ back \in Seq(S)
  OBVIOUS
<1> HIDE DEF front, back
<1>2. front \o back \in Seq(S)
  BY <1>1
<1> USE DEF front, back
<1>3. QED
  BY <1>2 DEF T!RemoveAt

\* A call with what it has copied.
LEMMA CopiedCall ==
  ASSUME NEW S, NEW c \in CallsOf(S)
  PROVE  /\ T!Copied(c) \in CallsOf(S) /\ T!Copied(c).stage = "look"
         /\ T!Copied(c).copy = c.copy /\ T!Copied(c).due = c.due
<1> DEFINE rows == Seq(S)
<1>1. c \in [stage : {"none", "page", "look", "dial", "status"}, next : Nat \ {0}, copy : rows, due : TaskStates]
  BY DEF CallsOf
<1> HIDE DEF rows
<1>2. /\ T!Copied(c) \in [stage : {"none", "page", "look", "dial", "status"}, next : Nat \ {0}, copy : rows,
                         due : TaskStates]
      /\ T!Copied(c).stage = "look" /\ T!Copied(c).copy = c.copy /\ T!Copied(c).due = c.due
  BY <1>1 DEF T!Copied
<1> USE DEF rows
<1>3. QED
  BY <1>2 DEF CallsOf

\* One call goes on, and nothing else changes but what is said.
LEMMA TaskCall ==
  ASSUME TaskInv, NEW t \in Pollers, NEW c \in CallsOf(heard.sorts), CallDue(c, inbox),
         T!At(t, c), UNCHANGED <<asked, there, nthAsked, inbox, heard>>,
         asked = "no" => c.stage = "none" /\ UNCHANGED said,
         said' \in [state : TaskStates, due : TaskStates],
         T!FirstDecides', T!SaidForCause'
  PROVE  TaskInv'
<1>0. TaskHeard /\ \A q \in Pollers : CallDue(reports[q], inbox)
  BY DEF TaskInv
<1>1. \A q \in Pollers : reports'[q] = IF q = t THEN c ELSE reports[q]
  BY <1>0 DEF TaskHeard, T!At
<1>2. reports' \in [Pollers -> CallsOf(heard'.sorts)]
  BY <1>0 DEF TaskHeard, T!At
<1>3. TaskHeard'
  BY <1>0, <1>1, <1>2 DEF TaskHeard
<1>4. \A q \in Pollers : CallDue(reports'[q], inbox')
  BY <1>0, <1>1 DEF CallDue
<1>5. QED
  BY <1>3, <1>4 DEF TaskInv

\* A call that says something is over.
LEMMA TaskReport ==
  ASSUME TaskInv, NEW t \in Pollers, NEW state \in TaskStates, T!Report(t, state),
         UNCHANGED <<asked, there, nthAsked, inbox, heard>>, reports[t].stage # "none",
         reports[t].due # "nothing" => state = reports[t].due,
         state = "completed" => "answer" \in heard.sorts,
         state = "canceled" => "release" \in heard.sorts,
         state = "input_required" => "question" \in heard.sorts,
         state = "failed" => "trouble" \in heard.sorts \/ reports[t].due = "nothing"
  PROVE  TaskInv'
<1>1. TaskHeard /\ asked # "no"
  BY DEF TaskInv, TaskHeard
<1>2. T!NoCall \in CallsOf(heard.sorts) /\ CallDue(T!NoCall, inbox)
  BY <1>1 DEF T!NoCall, CallsOf, TaskStates, CallDue
<1>3. T!At(t, T!NoCall) /\ said' = [state |-> state, due |-> reports[t].due]
  BY DEF T!Report
<1>4. reports[t].due \in TaskStates
  BY <1>1 DEF TaskHeard, CallsOf
<1>5. said'.state = state /\ said'.due = reports[t].due /\ said' \in [state : TaskStates, due : TaskStates]
  BY <1>3, <1>4
<1>6. T!FirstDecides' /\ T!SaidForCause'
  BY <1>5 DEF T!FirstDecides, T!SaidForCause
<1>7. QED
  BY <1>1, <1>2, <1>3, <1>5, <1>6, TaskCall

\* Every step keeps it.
LEMMA TaskStep == TaskInv /\ T!Next => TaskInv'
<1> SUFFICES ASSUME TaskInv, T!Next
             PROVE  TaskInv'
  OBVIOUS
<1>0. TaskHeard /\ (\A t \in Pollers : CallDue(reports[t], inbox)) /\ T!FirstDecides /\ T!SaidForCause
  BY DEF TaskInv
<1>1. CASE T!Ask \/ T!End \/ T!Start
  <2>0. UNCHANGED <<inbox, heard, reports>>
    BY <1>1 DEF T!Ask, T!End, T!Start
  <2>1. asked' = asked \/ (asked' # "no" /\ asked = "no")
    <3>1. asked' = asked \/ (asked = "no" /\ asked' \in {"yes", "rejected"})
      BY <1>1, Zenon DEF T!Ask, T!End, T!Start
    <3>2. QED
      BY <3>1
  <2>2. said' = said \/ (asked = "no" /\ \E s \in {"submitted", "rejected"} : said' = [said EXCEPT !.state = s])
    BY <1>1 DEF T!Ask, T!End, T!Start
  <2>3. said' \in [state : TaskStates, due : TaskStates] /\ said'.due = said.due
    BY <1>0, <2>2 DEF TaskHeard, TaskStates
  <2>4. TaskHeard'
    BY <1>0, <2>0, <2>1, <2>3 DEF TaskHeard
  <2>5. \A t \in Pollers : CallDue(reports'[t], inbox')
    BY <1>0, <2>0
  <2>6. said' = said \/ (said'.state \in {"submitted", "rejected"} /\ said'.due = "nothing")
    BY <1>0, <2>2, <2>3 DEF TaskHeard
  <2>7. T!FirstDecides' /\ T!SaidForCause'
    <3>1. CASE said' = said
      BY <1>0, <2>0, <3>1 DEF T!FirstDecides, T!SaidForCause
    <3>2. CASE said'.state \in {"submitted", "rejected"} /\ said'.due = "nothing"
      BY <3>2 DEF T!FirstDecides, T!SaidForCause
    <3>3. QED
      BY <2>6, <3>1, <3>2
  <2>8. QED
    BY <2>4, <2>5, <2>7 DEF TaskInv
<1>2. ASSUME NEW sort \in T!Sorts, T!Say(sort)
      PROVE  TaskInv'
  <2>1. /\ heard' = [sorts |-> heard.sorts \cup {sort}, all |-> heard.all + 1]
        /\ inbox' = Append(inbox, sort) /\ UNCHANGED <<asked, there, nthAsked, reports, said>>
    BY <1>2 DEF T!Say
  <2>2. heard'.sorts = heard.sorts \cup {sort} /\ heard' \in [sorts : SUBSET T!Sorts, all : Nat]
    BY <1>0, <2>1 DEF TaskHeard
  <2>3. \A s \in Seq(heard.sorts) : s \in Seq(heard'.sorts)
    BY <2>2
  <2>4. inbox' \in Seq(heard'.sorts)
    BY <1>0, <2>1, <2>2, <2>3 DEF TaskHeard
  <2>5. reports' \in [Pollers -> CallsOf(heard'.sorts)]
    BY <1>0, <2>1, <2>3 DEF TaskHeard, CallsOf
  <2>6. TaskHeard'
    BY <1>0, <2>1, <2>2, <2>4, <2>5 DEF TaskHeard
  <2>7. inbox # <<>> => inbox' # <<>> /\ inbox'[1] = inbox[1]
    BY <1>0, <2>1 DEF TaskHeard
  <2>8. \A t \in Pollers : CallDue(reports'[t], inbox')
    BY <1>0, <2>1, <2>7 DEF CallDue
  <2>9. T!FirstDecides' /\ T!SaidForCause'
    BY <1>0, <2>1, <2>2 DEF T!FirstDecides, T!SaidForCause
  <2>10. QED
    BY <2>6, <2>8, <2>9 DEF TaskInv
<1>3. ASSUME NEW i \in 1..Answers, T!Take(i)
      PROVE  TaskInv'
  <2>1. /\ i \in DOMAIN inbox /\ inbox' = T!RemoveAt(inbox, i)
        /\ reports' = [t \in Pollers |-> T!Torn(reports[t])]
        /\ UNCHANGED <<asked, there, nthAsked, heard, said>>
    BY <1>3 DEF T!Take
  <2>2. inbox' \in Seq(heard.sorts)
    <3>1. inbox \in Seq(heard.sorts)
      BY <1>0 DEF TaskHeard
    <3>2. QED
      BY <2>1, <3>1, WithoutOne
  <2>3. ASSUME NEW t \in Pollers
        PROVE  /\ T!Torn(reports[t]) \in CallsOf(heard.sorts) /\ T!Torn(reports[t]).stage = reports[t].stage
               /\ CallDue(T!Torn(reports[t]), inbox')
    <3>1. reports[t] \in CallsOf(heard.sorts) /\ CallDue(reports[t], inbox)
      BY <1>0 DEF TaskHeard
    <3>2. QED
      BY <3>1 DEF T!Torn, CallsOf, CallDue, TaskStates
  <2>4. TaskHeard'
    BY <1>0, <2>1, <2>2, <2>3 DEF TaskHeard
  <2>5. \A t \in Pollers : CallDue(reports'[t], inbox')
    BY <2>1, <2>3 DEF CallDue
  <2>6. QED
    BY <1>0, <2>1, <2>4, <2>5 DEF TaskInv, T!FirstDecides, T!SaidForCause
<1>4. ASSUME NEW t \in Pollers,
             T!Copy(t) \/ T!NextPage(t) \/ T!Skip(t) \/ T!Cut(t) \/ T!LookBack(t) \/ T!Dial(t) \/ T!Status(t)
      PROVE  TaskInv'
  <2>0. /\ reports[t] \in CallsOf(heard.sorts) /\ CallDue(reports[t], inbox) /\ inbox \in Seq(heard.sorts)
        /\ heard.sorts \subseteq T!Sorts /\ said \in [state : TaskStates, due : TaskStates]
        /\ UNCHANGED <<asked, there, nthAsked, inbox, heard>>
        /\ asked = "no" => reports[t].stage = "none"
    BY <1>0, <1>4 DEF TaskHeard, T!Copy, T!NextPage, T!Skip, T!Cut, T!LookBack, T!Dial, T!Status
  <2>1. UNCHANGED said => T!FirstDecides' /\ T!SaidForCause'
    BY <1>0, <2>0 DEF T!FirstDecides, T!SaidForCause
  <2>2. CASE T!Copy(t)
    <3> DEFINE c == [stage |-> "page", next |-> 1, copy |-> <<>>,
                     due |-> IF inbox = <<>> THEN "nothing" ELSE T!Means(inbox[1])]
    <3>1. T!At(t, c) /\ UNCHANGED said /\ asked = "yes"
      BY <2>2 DEF T!Copy
    <3>2. inbox # <<>> => T!Means(inbox[1]) \in TaskStates
      BY <2>0 DEF T!Means, TaskStates
    <3> DEFINE due0 == IF inbox = <<>> THEN "nothing" ELSE T!Means(inbox[1])
    <3>3. due0 \in TaskStates /\ (due0 # "nothing" => inbox # <<>> /\ T!Means(inbox[1]) = due0)
      BY <3>2 DEF TaskStates
    <3> HIDE DEF due0
    <3>4. c = [stage |-> "page", next |-> 1, copy |-> <<>>, due |-> due0]
      BY DEF due0
    <3> HIDE DEF c
    <3>5. c \in CallsOf(heard.sorts)
      <4>1. <<>> \in Seq(heard.sorts)
        OBVIOUS
      <4>2. QED
        BY <3>3, <3>4, <4>1 DEF CallsOf
    <3>6. CallDue(c, inbox)
      BY <3>3, <3>4 DEF CallDue
    <3>7. T!At(t, c)
      BY <3>1
    <3>8. QED
      BY <2>0, <2>1, <3>1, <3>5, <3>6, <3>7, TaskCall
  <2>3. CASE T!NextPage(t)
    <3>1. reports[t].stage = "page" /\ UNCHANGED said
      BY <2>3 DEF T!NextPage
    <3>2. CASE reports[t].next > Len(inbox)
      <4> DEFINE c == T!Copied(reports[t])
      <4>1. T!At(t, c)
        BY <2>3, <3>2 DEF T!NextPage
      <4>2. reports[t].copy = <<>> => reports[t].due = "nothing"
        BY <2>0, <3>1, <3>2 DEF CallDue
      <4>3. c \in CallsOf(heard.sorts) /\ c.stage = "look" /\ c.copy = reports[t].copy /\ c.due = reports[t].due
        BY <2>0, CopiedCall
      <4> HIDE DEF c
      <4>5. CallDue(c, inbox)
        BY <2>0, <4>2, <4>3 DEF CallDue
      <4>6. QED
        BY <2>0, <2>1, <3>1, <4>1, <4>3, <4>5, TaskCall
    <3>3. CASE ~(reports[t].next > Len(inbox))
      <4>1. PICK n \in reports[t].next..Len(inbox) :
              T!At(t, [reports[t] EXCEPT !.next = n + 1, !.copy = @ \o SubSeq(inbox, reports[t].next, n)])
        BY <2>3, <3>3 DEF T!NextPage
      <4> DEFINE more == WithPage(reports[t].copy, inbox, reports[t].next, n)
                 c == [reports[t] EXCEPT !.next = n + 1, !.copy = more]
      <4>2. reports[t].copy \in Seq(heard.sorts) /\ reports[t].next \in Nat \ {0}
        BY <2>0 DEF CallsOf
      <4>3. /\ more \in Seq(heard.sorts) /\ more # <<>>
            /\ more[1] = IF reports[t].copy = <<>> THEN inbox[reports[t].next] ELSE reports[t].copy[1]
        <5>1. inbox \in Seq(heard.sorts)
          BY <2>0
        <5>2. PageTaken(heard.sorts, reports[t].copy, inbox, reports[t].next, n)
          BY <4>2, <5>1, PageAdds, Zenon
        <5>3. QED
          BY <5>2 DEF PageTaken
      <4> HIDE DEF more
      <4>4. n + 1 \in Nat \ {0}
        BY <4>2
      <4>5. c \in CallsOf(heard.sorts)
        BY <2>0, <4>3, <4>4 DEF CallsOf
      <4>6. CallDue(c, inbox)
        <5>1. c.stage = "page" /\ c.copy = more /\ c.due = reports[t].due
          BY <2>0, <3>1 DEF CallsOf
        <5> HIDE DEF c
        <5>2. QED
          BY <2>0, <3>1, <4>3, <5>1 DEF CallDue
      <4>7. T!At(t, c)
        BY <4>1 DEF more, WithPage
      <4> HIDE DEF c
      <4>8. QED
        BY <2>0, <2>1, <3>1, <4>5, <4>6, <4>7, TaskCall
    <3>4. QED
      BY <3>2, <3>3
  <2>4. CASE T!Skip(t) \/ T!Cut(t)
    <3> DEFINE c == IF T!Skip(t) THEN [T!Torn(reports[t]) EXCEPT !.next = @ + 1] ELSE T!Copied(T!Torn(reports[t]))
    <3>1. T!At(t, c) /\ UNCHANGED said /\ reports[t].stage = "page"
      BY <2>4 DEF T!Skip, T!Cut
    <3> DEFINE torn == T!Torn(reports[t])
    <3>2. torn \in CallsOf(heard.sorts) /\ torn.due = "nothing"
      BY <2>0, <3>1 DEF CallsOf, T!Torn, TaskStates
    <3> HIDE DEF torn
    <3>3. c \in CallsOf(heard.sorts) /\ c.due = "nothing"
      <4>1. [torn EXCEPT !.next = @ + 1] \in CallsOf(heard.sorts) /\ [torn EXCEPT !.next = @ + 1].due = "nothing"
        BY <3>2 DEF CallsOf
      <4>2. T!Copied(torn) \in CallsOf(heard.sorts) /\ T!Copied(torn).due = "nothing"
        BY <3>2, CopiedCall
      <4>3. QED
        BY <4>1, <4>2 DEF torn
    <3> HIDE DEF c
    <3>4. QED
      BY <2>0, <2>1, <3>1, <3>3, TaskCall DEF CallDue
  <2>5. CASE T!LookBack(t)
    <3>1. reports[t].stage = "look"
      BY <2>5 DEF T!LookBack
    <3>2. CASE reports[t].copy = <<>>
      <4> DEFINE c == [reports[t] EXCEPT !.stage = "dial"]
      <4>1. T!At(t, c) /\ UNCHANGED said
        BY <2>5, <3>2 DEF T!LookBack
      <4>2. c \in CallsOf(heard.sorts) /\ CallDue(c, inbox)
        BY <2>0, <3>1, <3>2 DEF CallsOf, CallDue
      <4> HIDE DEF c
      <4>3. QED
        BY <2>0, <2>1, <3>1, <4>1, <4>2, TaskCall
    <3>3. CASE reports[t].copy # <<>>
      <4> DEFINE state == T!Means(reports[t].copy[1])
      <4>1. T!Report(t, state)
        BY <2>5, <3>3 DEF T!LookBack, T!Back
      <4>2. reports[t].copy[1] \in heard.sorts
        BY <2>0, <3>3 DEF CallsOf
      <4>3. /\ state \in TaskStates
            /\ state = "completed" => "answer" \in heard.sorts
            /\ state = "canceled" => "release" \in heard.sorts
            /\ state = "input_required" => "question" \in heard.sorts
            /\ state = "failed" => "trouble" \in heard.sorts
        BY <2>0, <4>2 DEF T!Means, T!Sorts, TaskStates
      <4>4. reports[t].due # "nothing" => state = reports[t].due
        BY <2>0, <3>3 DEF CallDue
      <4> HIDE DEF state
      <4>5. QED
        BY <2>0, <3>1, <4>1, <4>3, <4>4, TaskReport
    <3>4. QED
      BY <3>2, <3>3
  <2>6. CASE T!Dial(t)
    <3>1. reports[t].stage = "dial" /\ reports[t].due = "nothing"
      BY <2>0, <2>6 DEF T!Dial, CallDue
    <3>2. CASE T!Report(t, "failed")
      BY <2>0, <3>1, <3>2, TaskReport DEF TaskStates
    <3>3. CASE T!At(t, [reports[t] EXCEPT !.stage = "status"]) /\ UNCHANGED said
      <4> DEFINE c == [reports[t] EXCEPT !.stage = "status"]
      <4>1. c \in CallsOf(heard.sorts) /\ CallDue(c, inbox)
        BY <2>0, <3>1 DEF CallsOf, CallDue
      <4>2. T!At(t, c)
        BY <3>3
      <4> HIDE DEF c
      <4>3. QED
        BY <2>0, <2>1, <3>1, <3>3, <4>1, <4>2, TaskCall
    <3>4. QED
      BY <2>6, <3>2, <3>3 DEF T!Dial
  <2>7. CASE T!Status(t)
    <3>1. reports[t].stage = "status" /\ reports[t].due = "nothing"
      BY <2>0, <2>7 DEF T!Status, CallDue
    <3>2. T!Report(t, "working") \/ T!Report(t, "submitted")
      BY <2>7 DEF T!Status
    <3>3. QED
      BY <2>0, <3>1, <3>2, TaskReport DEF TaskStates
  <2>8. QED
    BY <1>4, <2>2, <2>3, <2>4, <2>5, <2>6, <2>7
<1>5. QED
  BY <1>1, <1>2, <1>3, <1>4 DEF T!Next

\* For any number of messages, of sessions that have the name and of calls at a time: what came back
\* first of a question decides what is said of it, as long as it is held and copied whole, and none
\* is said to be done with, or to have failed, without cause (task in verbs/tasking.rs).
THEOREM TasksStand == Stands => []TaskStands
<1>1. Begins => TaskInv
  BY TaskBegins DEF Begins
<1>2. TaskInv /\ [Goes]_<<part, vars, rosterVars, branching, calling, asking, naming>> =>
        TaskInv'
  <2> SUFFICES ASSUME TaskInv, [Goes]_<<part, vars, rosterVars, branching, calling, asking, naming>>
               PROVE  TaskInv'
    OBVIOUS
  <2>1. CASE T!Next
    BY <2>1, TaskStep
  <2>2. CASE UNCHANGED asking
    BY <2>2 DEF asking, TaskInv, TaskHeard, CallDue, T!FirstDecides, T!SaidForCause
  <2>3. QED
    BY <2>1, <2>2 DEF Goes
<1>3. TaskInv => TaskStands
  BY DEF TaskInv, TaskStands
<1>4. QED
  BY <1>1, <1>2, <1>3, PTL DEF Stands

----------------------------------------------------------------------------
\* Branch.

\* Kinship!Walk, as far as it is known: n steps of it.
Strides(walk, n, ns, id) ==
  [k \in 0..n |->
     IF k = 0 THEN [at |-> id, seen |-> {id}, on |-> TRUE]
     ELSE IF walk[k - 1].on /\ ns[walk[k - 1].at] \notin walk[k - 1].seen \cup {Nobody}
          THEN [at |-> ns[walk[k - 1].at], seen |-> walk[k - 1].seen \cup {ns[walk[k - 1].at]}, on |-> TRUE]
          ELSE [walk[k - 1] EXCEPT !.on = FALSE]]

\* There is such a walk of every length.
LEMMA Walks ==
  ASSUME NEW ns, NEW id
  PROVE  \A n \in Nat : \E walk : walk = Strides(walk, n, ns, id)
<1> DEFINE step(w) == IF w.on /\ ns[w.at] \notin w.seen \cup {Nobody}
             THEN [at |-> ns[w.at], seen |-> w.seen \cup {ns[w.at]}, on |-> TRUE]
             ELSE [w EXCEPT !.on = FALSE]
           begin == [at |-> id, seen |-> {id}, on |-> TRUE]
           Fit(n, walk) == walk = [k \in 0..n |-> IF k = 0 THEN begin ELSE step(walk[k - 1])]
           Short == {n \in Nat : ~\E walk : Fit(n, walk)}
<1>1. SUFFICES ASSUME Short # {}
               PROVE  FALSE
  BY DEF Strides
<1> HIDE DEF step, begin
<1>2. PICK n \in Short : \A m \in Short : n <= m
  BY <1>1, LeastNat
<1>3. n # 0
  <2>1. Fit(0, [k \in 0..0 |-> begin])
    OBVIOUS
  <2>2. QED
    BY <2>1
<1>4. PICK walk : Fit(n - 1, walk)
  <2>1. n - 1 \in Nat /\ ~(n <= n - 1)
    BY <1>2, <1>3
  <2>2. n - 1 \notin Short
    <3> HIDE DEF Short
    <3>1. QED
      BY <1>2, <2>1
  <2>3. QED
    BY <2>1, <2>2
<1> DEFINE more == [k \in 0..n |-> IF k = n THEN step(walk[n - 1]) ELSE walk[k]]
<1>5. Fit(n, more)
  <2>1. \A k \in 0..n : more[k] = IF k = 0 THEN begin ELSE step(more[k - 1])
    BY <1>2, <1>3, <1>4
  <2>2. QED
    BY <2>1
<1>6. QED
  BY <1>2, <1>5

\* What becomes of the walk: it stays where the notes lead to.
LEMMA WalkStays ==
  ASSUME NEW ns, NEW Here, NEW id \in Here,
         \A z \in Here : ns[z] # Nobody => ns[z] \in Here
  PROVE  B!Walk(ns, id).at \in Here
<1> DEFINE top == Tall + 1
           walked == CHOOSE walk : walk = Strides(walk, top, ns, id)
<1>1. Tall \in Nat /\ top \in Nat
  BY BranchPartKinds DEF B!KinshipKinds
<1>2. \E walk : walk = Strides(walk, top, ns, id)
  BY <1>1, Walks
<1>3. walked = Strides(walked, top, ns, id)
  BY <1>2
<1>4. B!Walk(ns, id) = walked[top]
  BY DEF B!Walk, Strides
<1> DEFINE Out == {k \in 0..top : walked[k].at \notin Here}
<1> HIDE DEF walked
<1>5. SUFFICES ASSUME Out # {}
               PROVE  FALSE
  BY <1>1, <1>4
<1>6. PICK n \in Out : \A m \in Out : n <= m
  <2>1. Out \in SUBSET Nat
    BY <1>1
  <2> HIDE DEF Out
  <2>2. QED
    BY <1>5, <2>1, LeastNat
<1>7. CASE n = 0
  <2>1. walked[0] = [at |-> id, seen |-> {id}, on |-> TRUE]
    BY <1>1, <1>3 DEF Strides
  <2>2. QED
    BY <1>6, <1>7, <2>1
<1>8. CASE n # 0
  <2> DEFINE w == walked[n - 1]
  <2>1. n - 1 \in 0..top /\ ~(n <= n - 1) /\ n \in 0..top
    BY <1>1, <1>6, <1>8
  <2>2. w.at \in Here
    <3>1. n - 1 \notin Out
      <4> HIDE DEF Out
      <4>1. QED
        BY <1>6, <2>1
    <3>2. QED
      BY <2>1, <3>1
  <2>3. walked[n] = IF w.on /\ ns[w.at] \notin w.seen \cup {Nobody}
                    THEN [at |-> ns[w.at], seen |-> w.seen \cup {ns[w.at]}, on |-> TRUE]
                    ELSE [w EXCEPT !.on = FALSE]
    BY <1>3, <1>8, <2>1 DEF Strides
  <2> HIDE DEF w
  <2>4. walked[n].at \in {w.at, ns[w.at]} /\ (walked[n].at # w.at => ns[w.at] # Nobody)
    BY <2>3
  <2>5. walked[n].at \in Here
    BY <2>2, <2>4
  <2>6. QED
    BY <1>6, <2>5
<1>9. QED
  BY <1>7, <1>8

\* Who has a note that leads to nobody but sessions of the run is read as one of the run.
LEMMA RootIsRun ==
  ASSUME NEW ns, NEW rs, NEW Here, NEW id \in Here, Nobody \notin Here,
         \A z \in Here : (ns[z] # Nobody => ns[z] \in Here) /\ rs[z] = TheRun
  PROVE  B!Whom(ns, rs, id).root = TheRun
<1>1. B!Walk(ns, id).at \in Here
  BY WalkStays
<1>2. TheRun # NoRun
  BY BranchPartKinds DEF B!BranchKinds
<1> DEFINE at == B!Walk(ns, id).at
<1>3. B!RootOf(ns, id) = IF at = id THEN Nobody ELSE at
  BY DEF B!RootOf
<1> HIDE DEF at
<1>4. at \in Here
  BY <1>1 DEF at
<1>5. (IF B!RootOf(ns, id) = Nobody THEN id ELSE B!RootOf(ns, id)) = at
  BY <1>3, <1>4
<1>6. B!Whom(ns, rs, id).root = IF rs[at] = NoRun THEN at ELSE rs[at]
  BY <1>5 DEF B!Whom
<1>7. QED
  BY <1>2, <1>4, <1>6

\* What is read of a session is its own note, and its name.
LEMMA ReadOf ==
  ASSUME NEW ns, NEW rs, NEW id
  PROVE  B!Whom(ns, rs, id).id = id /\ B!Whom(ns, rs, id).parent = ns[id]
BY DEF B!Whom

\* What the assumption of the run says of the branch.
LEMMA BranchKindsHold ==
  /\ Starters \in [Names -> Names \cup {Nobody}] /\ Starters[Ender] = Nobody
  /\ Ender \in Names /\ Ended \in Names \ {Ender} /\ Doomed \subseteq Names \ {Ender}
  /\ TheRun \notin Names \cup {NoRun} /\ Nobody \notin Names
BY BranchPartKinds DEF B!BranchKinds, B!KinshipKinds

\* The line of a session is within the names, has the session, and whoever started one of it.
LEMMA LineCloses ==
  ASSUME NEW x \in Names
  PROVE  /\ B!Line(x) \in SUBSET Names /\ x \in B!Line(x)
         /\ \A z \in B!Line(x) : Starters[z] \in Names => Starters[z] \in B!Line(x)
<1>1. B!Line(x) \in SUBSET Names /\ x \in B!Line(x)
  BY DEF B!Line
<1>2. ASSUME NEW z \in B!Line(x), Starters[z] \in Names, NEW S \in SUBSET Names,
             x \in S, \A y \in S : Starters[y] \in Names => Starters[y] \in S
      PROVE  Starters[z] \in S
  BY <1>2 DEF B!Line
<1>3. QED
  BY <1>1, <1>2 DEF B!Line

\* It is the least such set.
LEMMA LineLeast ==
  ASSUME NEW x \in Names, NEW S \in SUBSET Names, x \in S,
         \A z \in S : Starters[z] \in Names => Starters[z] \in S
  PROVE  B!Line(x) \subseteq S
BY DEF B!Line

\* Whoever is in it, but for the session itself, started one of it.
LEMMA LineStarts ==
  ASSUME NEW x \in Names, NEW y \in B!Line(x), y # x
  PROVE  \E z \in B!Line(x) : Starters[z] = y
<1> DEFINE rest == B!Line(x) \ {y}
<1>1. SUFFICES ASSUME \A z \in B!Line(x) : Starters[z] # y
               PROVE  FALSE
  OBVIOUS
<1>2. rest \in SUBSET Names /\ x \in rest
  BY LineCloses
<1>3. \A z \in rest : Starters[z] \in Names => Starters[z] \in rest
  BY <1>1, LineCloses
<1> HIDE DEF rest
<1>4. B!Line(x) \subseteq rest
  BY <1>2, <1>3, LineLeast
<1>5. QED
  BY <1>4 DEF rest

\* Who is found below what was named, by notes that say who started whom, is of the branch.
LEMMA FoundBelow ==
  ASSUME NEW them, \A w \in them : w.id \in Names /\ w.parent \in {Starters[w.id], Nobody}
  PROVE  B!Under(them, Ended) \subseteq B!Branch
<1> DEFINE S == {y \in Names : Ended \in B!Line(y)}
<1>1. Ended \in Names /\ Nobody \notin Names
  BY BranchKindsHold
<1>2. S \in SUBSET Names /\ Ended \in S
  BY <1>1, LineCloses
<1>3. ASSUME NEW w \in them, w.parent \in S
      PROVE  w.id \in S
  <2>1. w.id \in Names /\ Starters[w.id] = w.parent /\ w.parent \in Names
          /\ Ended \in B!Line(w.parent)
    BY <1>1, <1>3
  <2>2. B!Line(w.id) \in SUBSET Names /\ w.parent \in B!Line(w.id)
        /\ \A z \in B!Line(w.id) : Starters[z] \in Names => Starters[z] \in B!Line(w.id)
    BY <2>1, LineCloses
  <2>3. B!Line(w.parent) \subseteq B!Line(w.id)
    BY <2>1, <2>2, LineLeast
  <2>4. QED
    BY <2>1, <2>3
<1> HIDE DEF S
<1>4. B!Under(them, Ended) \subseteq S \ {Ended}
  BY <1>2, <1>3 DEF B!Under
<1>5. ASSUME NEW y \in S
      PROVE  y \in Names /\ B!Path(y) # {}
  BY LineCloses DEF S, B!Path
<1>6. QED
  BY <1>4, <1>5 DEF B!Branch

\* Whoever's line was read, whole, is found.
LEMMA LineFound ==
  ASSUME NEW them, NEW x \in B!Branch,
         \A y \in B!Path(x) : \E w \in them : w.id = y /\ w.parent = Starters[y]
  PROVE  x \in B!Under(them, Ended)
<1>1. x \in Names /\ x # Ended /\ Ended \in B!Line(x) /\ B!Path(x) = B!Line(x)
  BY DEF B!Branch, B!Path
<1>2. SUFFICES ASSUME NEW S \in SUBSET Names, Ended \in S, \A w \in them : w.parent \in S =>
        w.id \in S,
                      x \notin S
               PROVE  FALSE
  BY <1>1 DEF B!Under
<1> DEFINE Here == B!Line(x) \ S
<1>3. Here \in SUBSET Names /\ x \in Here
  BY <1>1, <1>2, LineCloses
<1>4. \A z \in Here : Starters[z] \in Names => Starters[z] \in Here
  BY <1>1, <1>2, LineCloses
<1> HIDE DEF Here
<1>5. B!Line(x) \subseteq Here
  BY <1>1, <1>3, <1>4, LineLeast
<1>6. QED
  BY <1>1, <1>2, <1>5 DEF Here

\* A session that has come, and one that has the notes it was announced with.
Come(x) == lives[x] \notin {"none", "coming"}
Grown(x) == lives[x] \notin {"none", "coming", "bound"}
Alive(x) == lives[x] \in {"up", "ending"}
Kept(x) == notes[x] = Starters[x] /\ sessions[x] = TheRun
Ways == {"none", "coming", "bound", "up", "ending", "bare", "killed", "over"}

BranchShape ==
  /\ lives \in [Names -> Ways]
  /\ notes \in [Names -> Names \cup {Nobody}] /\ sessions \in [Names -> {TheRun, NoRun}]
  /\ \A x \in Names : notes[x] \in {Starters[x], Nobody}
  /\ looks \in {"none", "refused", "look", "list", "notes", "dial", "said"}
  /\ todo \in SUBSET Names /\ held \in SUBSET Names /\ ever \in SUBSET Names
     /\ due \in SUBSET Names

\* Who starts another has been announced, and has its notes for as long as it lives; and so has
\* who
\* was there as a look began.
Rooted ==
  /\ \A x \in Names : lives[x] = "up" => Kept(x)
  /\ \A x \in Names : Starters[x] \in Names /\ lives[x] # "none" =>
       Grown(Starters[x]) /\ (Alive(Starters[x]) => Kept(Starters[x]))
  /\ \A x \in due : Grown(x) /\ (Alive(x) => Kept(x))

\* Whom a look has come across has come, and what it has read of them was theirs.
Found ==
  /\ \A x \in held \cup ever : Come(x)
  /\ looks \in {"list", "notes"} => \A x \in todo : Come(x)
  /\ \A w \in crew : w.id \in Names /\ w.parent \in {Starters[w.id], Nobody} /\ Come(w.id)
  /\ ever \subseteq B!Branch

\* Who did not answer has gone.
Silent ==
  /\ looks = "dial" => \A x \in ever \ (left \cup todo) : B!Over(x)
  /\ looks = "said" => \A x \in ever \ left : B!Over(x)

\* A look comes across the whole line of whom it is to find, if that has lived through it.
Chain(x) == \A y \in B!Path(x) : Alive(y)
Missing ==
  /\ due \subseteq B!Branch
  /\ \A x \in due : Chain(x) =>
       /\ looks = "list" => B!Path(x) \subseteq todo \cup held
       /\ looks = "notes" => \A y \in B!Path(x) : y \in todo \/ \E w \in crew : w.id = y
          /\ w.parent = Starters[y]
       /\ looks \in {"dial", "said"} => x \in ever

BranchInv == BranchShape /\ Rooted /\ Found /\ Silent /\ Missing

\* It holds at the start, with any part of the tree up.
LEMMA BranchBegins == B!Init => BranchInv
<1> SUFFICES ASSUME B!Init
             PROVE  BranchInv
  OBVIOUS
<1>1. /\ lives \in [Names -> {"none", "up"}] /\ lives[Ender] = "up"
      /\ \A x \in Names \ {Ender} : lives[x] = "up" => lives[Starters[x]] = "up"
      /\ notes = [x \in Names |-> IF lives[x] = "up" THEN Starters[x] ELSE Nobody]
      /\ sessions = [x \in Names |-> IF lives[x] = "up" THEN TheRun ELSE NoRun]
      /\ looks = "none" /\ todo = {} /\ held = {} /\ crew = {} /\ ever = {} /\ left = {}
         /\ due = {}
  BY DEF B!Init
<1>2. BranchShape
  BY <1>1, BranchKindsHold DEF BranchShape, Ways
<1>3. Rooted
  <2>1. \A x \in Names : lives[x] = "up" => Kept(x)
    BY <1>1 DEF Kept
  <2>2. \A x \in Names : Starters[x] \in Names /\ lives[x] # "none" => x # Ender
          /\ lives[x] = "up"
    BY <1>1, BranchKindsHold
  <2>3. \A x \in Names : Starters[x] \in Names /\ lives[x] # "none" => lives[Starters[x]] = "up"
    BY <1>1, <2>2
  <2>4. QED
    BY <1>1, <2>1, <2>3 DEF Rooted, Grown
<1>4. Found /\ Silent /\ Missing
  BY <1>1 DEF Found, Silent, Missing
<1>5. QED
  BY <1>2, <1>3, <1>4 DEF BranchInv

\* What time does to every session: it has come, grown and gone for good.
Ages ==
  \A x \in Names :
    /\ Come(x) => Come(x)'
    /\ Grown(x) => Grown(x)'
    /\ B!Over(x) => B!Over(x)'
    /\ Alive(x)' => lives[x] # "none"
    /\ Grown(x) /\ Alive(x)' => Alive(x)

\* A line that is alive was.
LEMMA ChainWas ==
  ASSUME BranchInv, Ages, NEW x \in due, due' = due, Chain(x)'
  PROVE  Chain(x)
<1>1. x \in Names /\ B!Path(x) = B!Line(x) /\ Grown(x)
  BY DEF BranchInv, BranchShape, Rooted, Missing, B!Branch, B!Path
<1>2. SUFFICES ASSUME NEW y \in B!Path(x)
               PROVE  Alive(y)
  BY DEF Chain
<1>3. y \in Names /\ Alive(y)'
  BY <1>1, <1>2, LineCloses DEF Chain
<1>4. CASE y = x
  BY <1>1, <1>3, <1>4 DEF Ages
<1>5. CASE y # x
  <2>1. PICK z \in B!Line(x) : Starters[z] = y
    BY <1>1, <1>2, <1>5, LineStarts
  <2>2. z \in Names /\ Alive(z)'
    BY <1>1, <2>1, LineCloses DEF Chain
  <2>3. lives[z] # "none"
    BY <2>2 DEF Ages
  <2>4. Grown(y)
    BY <1>3, <2>1, <2>2, <2>3 DEF BranchInv, Rooted
  <2>5. QED
    BY <1>3, <2>4 DEF Ages
<1>6. QED
  BY <1>4, <1>5

\* What a look knows is not changed by what becomes of the sessions.
LEMMA BranchAges ==
  ASSUME BranchInv, Ages, BranchShape', Rooted',
         UNCHANGED <<looks, todo, held, crew, ever, left, due>>
  PROVE  BranchInv'
<1>1. Found'
  <2>1. \A x \in Names : Come(x) => Come(x)'
    BY DEF Ages
  <2>2. QED
    BY <2>1 DEF BranchInv, BranchShape, Found
<1>2. Silent'
  <2>1. \A x \in Names : B!Over(x) => B!Over(x)'
    BY DEF Ages
  <2>2. QED
    BY <2>1 DEF BranchInv, BranchShape, Silent
<1>3. Missing'
  <2>1. \A x \in due : Chain(x)' => Chain(x)
    BY ChainWas
  <2>2. QED
    BY <2>1 DEF BranchInv, Missing
<1>4. QED
  BY <1>1, <1>2, <1>3 DEF BranchInv

\* A session comes up, ends, or is killed.
LEMMA BranchLives ==
  ASSUME BranchInv, NEW x \in Names,
         \/ B!Start(x) \/ B!Bind(x) \/ B!Announce(x) \/ B!Follow(x) \/ B!Forget(x)
            \/ B!Release(x)
         \/ B!Kill(x)
  PROVE  BranchInv'
<1>0. BranchShape /\ Rooted
  BY DEF BranchInv
<1>1. lives \in [Names -> Ways] /\ notes \in [Names -> Names \cup {Nobody}]
      /\ sessions \in [Names -> {TheRun, NoRun}]
  BY <1>0 DEF BranchShape
<1>2. UNCHANGED <<looks, todo, held, crew, ever, left, due>>
  BY DEF B!Start, B!Bind, B!Announce, B!Follow, B!Forget, B!Release, B!Kill, B!looking
<1>3. PICK way \in Ways :
        /\ lives' = [lives EXCEPT ![x] = way]
        /\ \/ lives[x] = "none" /\ way = "coming" /\ lives[Starters[x]] = "up"
           \/ lives[x] = "coming" /\ way \in {"bound", "over"}
           \/ lives[x] = "bound" /\ way \in {"up", "ending"}
           \/ lives[x] = "up" /\ way \in {"ending", "killed"}
           \/ lives[x] = "ending" /\ way \in {"bare", "killed"}
           \/ lives[x] = "bare" /\ way = "over"
        /\ \/ UNCHANGED <<notes, sessions>> /\ way # "up"
           \/ /\ way = "up"
              /\ notes' = [notes EXCEPT ![x] = Starters[x]]
                 /\ sessions' = [sessions EXCEPT ![x] = TheRun]
           \/ /\ way = "bare"
              /\ notes' = [notes EXCEPT ![x] = Nobody]
                 /\ sessions' = [sessions EXCEPT ![x] = NoRun]
  BY DEF Ways, B!Start, B!Bind, B!Announce, B!Follow, B!Forget, B!Release, B!Kill
<1>4. lives'[x] = way /\ \A y \in Names : y # x => lives'[y] = lives[y]
  BY <1>1, <1>3
<1>5. \A y \in Names : y # x => notes'[y] = notes[y] /\ sessions'[y] = sessions[y]
  BY <1>1, <1>3
<1>6. /\ way = "up" => notes'[x] = Starters[x] /\ sessions'[x] = TheRun
      /\ way \notin {"up", "bare"} => notes'[x] = notes[x] /\ sessions'[x] = sessions[x]
      /\ notes'[x] \in {notes[x], Starters[x], Nobody}
  BY <1>1, <1>3
<1>7. Ages
  BY <1>3, <1>4 DEF Ages, Come, Grown, Alive, B!Over
<1>8. BranchShape'
  <2>1. lives' \in [Names -> Ways]
    BY <1>1, <1>3
  <2>2. notes' \in [Names -> Names \cup {Nobody}] /\ sessions' \in [Names -> {TheRun, NoRun}]
    BY <1>1, <1>3, BranchKindsHold
  <2>3. \A y \in Names : notes'[y] \in {Starters[y], Nobody}
    BY <1>0, <1>5, <1>6 DEF BranchShape
  <2>4. QED
    BY <1>0, <1>2, <2>1, <2>2, <2>3 DEF BranchShape
<1>9. \A y \in Names : Grown(y) /\ (Alive(y) => Kept(y)) => Grown(y)' /\ (Alive(y)' => Kept(y)')
  <2>1. \A y \in Names : y # x => (Grown(y)' <=> Grown(y)) /\ (Alive(y)' <=> Alive(y))
          /\ (Kept(y)' <=> Kept(y))
    BY <1>4, <1>5 DEF Grown, Alive, Kept
  <2>2. Grown(x) /\ Alive(x)' => Alive(x) /\ way = "ending"
    BY <1>3, <1>4 DEF Grown, Alive
  <2>3. way = "ending" => (Kept(x)' <=> Kept(x))
    BY <1>6 DEF Kept
  <2>4. Grown(x) => Grown(x)'
    BY <1>7 DEF Ages
  <2>5. QED
    BY <2>1, <2>2, <2>3, <2>4
<1>10. Rooted'
  <2>1. \A y \in Names : lives'[y] = "up" => Kept(y)'
    BY <1>0, <1>4, <1>5, <1>6 DEF Rooted, Kept
  <2>2. ASSUME NEW y \in Names, Starters[y] \in Names, lives'[y] # "none"
        PROVE  Grown(Starters[y])' /\ (Alive(Starters[y])' => Kept(Starters[y])')
    <3>1. Grown(Starters[y]) /\ (Alive(Starters[y]) => Kept(Starters[y]))
      <4>1. CASE lives[y] # "none"
        BY <1>0, <2>2, <4>1 DEF Rooted
      <4>2. CASE lives[y] = "none"
        <5>1. y = x
          BY <1>4, <2>2, <4>2
        <5>2. lives[Starters[y]] = "up"
          BY <1>3, <4>2, <5>1
        <5>3. QED
          BY <1>0, <2>2, <5>2 DEF Rooted, Grown
      <4>3. QED
        BY <4>1, <4>2
    <3>2. QED
      BY <1>9, <2>2, <3>1
  <2>3. \A y \in due' : Grown(y)' /\ (Alive(y)' => Kept(y)')
    BY <1>0, <1>2, <1>9 DEF BranchShape, Rooted
  <2>4. QED
    BY <2>1, <2>2, <2>3 DEF Rooted
<1>11. QED
  BY <1>2, <1>7, <1>8, <1>10, BranchAges

\* The stop is sent, or refused, and the clock goes on.
LEMMA BranchStops ==
  ASSUME BranchInv, B!Disband \/ B!Tick
  PROVE  BranchInv'
<1>0. BranchShape /\ Rooted /\ Found /\ Silent /\ Missing
  BY DEF BranchInv
<1>1. CASE B!Tick
  <2>1. UNCHANGED <<lives, notes, sessions, looks, todo, held, crew, ever, left, due>>
    BY <1>1 DEF B!Tick, B!project
  <2>2. BranchShape' /\ Rooted'
    BY <1>0, <2>1 DEF BranchShape, Rooted, Grown, Alive, Kept
  <2>3. Found' /\ Silent'
    BY <1>0, <2>1 DEF Found, Silent, Come, B!Over
  <2>4. Missing'
    BY <1>0, <2>1 DEF Missing, Chain, Alive
  <2>5. QED
    BY <2>2, <2>3, <2>4 DEF BranchInv
<1>2. CASE B!Disband
  <2>1. /\ looks = "none" /\ looks' \in {"look", "refused"}
        /\ lives' = lives \/ lives' = [lives EXCEPT ![Ended] = IF lives[Ended] = "up" THEN "ending" ELSE lives[Ended]]
        /\ UNCHANGED <<notes, sessions, todo, held, crew, ever, left, due>>
    BY <1>2 DEF B!Disband
  <2>2. lives \in [Names -> Ways] /\ Ended \in Names
    BY <1>0, BranchKindsHold DEF BranchShape
  <2>3. \A y \in Names : lives'[y] = lives[y] \/ (lives[y] = "up" /\ lives'[y] = "ending")
    BY <2>1, <2>2
  <2>4. lives' \in [Names -> Ways]
    BY <2>1, <2>2 DEF Ways
  <2>5. BranchShape'
    BY <1>0, <2>1, <2>4 DEF BranchShape
  <2>6. \A y \in Names : /\ Kept(y)' <=> Kept(y)
                         /\ Grown(y)' <=> Grown(y)
                         /\ Alive(y)' <=> Alive(y)
                         /\ Come(y)' <=> Come(y)
                         /\ lives'[y] = "up" => lives[y] = "up"
                         /\ lives'[y] # "none" => lives[y] # "none"
    BY <2>1, <2>3 DEF Kept, Grown, Alive, Come
  <2>7. Rooted'
    <3>1. \A y \in due : y \in Names
      BY <1>0 DEF BranchShape
    <3>2. QED
      BY <1>0, <2>1, <2>6, <3>1 DEF Rooted
  <2>8. Found'
    BY <1>0, <2>1, <2>6 DEF BranchShape, Found
  <2>9. Silent' /\ Missing'
    BY <1>0, <2>1 DEF Silent, Missing
  <2>10. QED
    BY <2>5, <2>7, <2>8, <2>9 DEF BranchInv
<1>3. QED
  BY <1>1, <1>2

\* A look begins, with whoever is there.
LEMMA BranchLooks ==
  ASSUME BranchInv, B!Look
  PROVE  BranchInv'
<1>0. BranchShape /\ Rooted /\ Found /\ Silent /\ Missing
  BY DEF BranchInv
<1>1. /\ looks' = "list" /\ held' = {} /\ crew' = {} /\ left' = {}
      /\ todo' = {x \in Names : B!Listening(x) \/ (lives[x] = "killed" /\ ~B!Swept(x))}
      /\ due' = {x \in B!Branch : lives[x] = "up"}
      /\ UNCHANGED <<lives, notes, sessions, ever>>
  BY DEF B!Look, B!project
<1>2. BranchShape'
  BY <1>0, <1>1 DEF BranchShape, B!Branch
<1>3. \A x \in todo' : x \in Names /\ Come(x)
  BY <1>1 DEF B!Listening, Come
<1>4. Rooted'
  <2>1. \A x \in due' : x \in Names /\ lives[x] = "up"
    BY <1>1 DEF B!Branch
  <2>2. \A x \in due' : Grown(x) /\ Kept(x)
    BY <1>0, <2>1 DEF Rooted, Grown
  <2>3. QED
    BY <1>0, <1>1, <2>2 DEF Rooted, Grown, Alive, Kept
<1>5. Found'
  BY <1>0, <1>1, <1>3 DEF Found, Come
<1>6. Silent'
  BY <1>1 DEF Silent
<1>7. Missing'
  <2>1. ASSUME NEW x \in due', Chain(x)'
        PROVE  B!Path(x) \subseteq todo'
    <3>1. x \in Names
      BY <1>1 DEF B!Branch
    <3>2. B!Path(x) \subseteq Names
      BY <3>1, LineCloses DEF B!Path
    <3>3. \A y \in B!Path(x) : lives[y] \in {"up", "ending"}
      BY <1>1, <2>1 DEF Chain, Alive
    <3>4. QED
      BY <1>1, <3>2, <3>3 DEF B!Listening
  <2>2. QED
    BY <1>1, <2>1 DEF Missing
<1>8. QED
  BY <1>2, <1>4, <1>5, <1>6, <1>7 DEF BranchInv

\* A name of the listing is dialled, and swept where it does not answer.
LEMMA BranchLists ==
  ASSUME BranchInv, NEW x \in Names, B!List(x)
  PROVE  BranchInv'
<1>0. BranchShape /\ Rooted /\ Found /\ Silent /\ Missing
  BY DEF BranchInv
<1>1. /\ looks = "list" /\ x \in todo /\ todo' = todo \ {x}
      /\ UNCHANGED <<lives, looks, crew, ever, left, due>>
  BY DEF B!List
<1>2. Come(x)
  BY <1>0, <1>1 DEF Found
<1>3. CASE B!Listening(x)
  <2>1. held' = held \cup {x} /\ UNCHANGED <<notes, sessions>>
    BY <1>3 DEF B!List
  <2>2. BranchShape'
    BY <1>0, <1>1, <2>1 DEF BranchShape
  <2>3. Rooted'
    BY <1>0, <1>1, <2>1 DEF Rooted, Grown, Alive, Kept
  <2>4. Found'
    BY <1>0, <1>1, <1>2, <2>1 DEF Found, Come
  <2>5. Silent'
    BY <1>1 DEF Silent
  <2>6. Missing'
    BY <1>0, <1>1, <2>1 DEF Missing, Chain, Alive
  <2>7. QED
    BY <2>2, <2>3, <2>4, <2>5, <2>6 DEF BranchInv
<1>4. CASE ~B!Listening(x)
  <2>1. notes' = [notes EXCEPT ![x] = Nobody] /\ sessions' = [sessions EXCEPT ![x] = NoRun]
          /\ held' = held
    BY <1>4 DEF B!List
  <2>2. lives[x] \in {"killed", "over"}
    BY <1>0, <1>2, <1>4 DEF BranchShape, Ways, Come, B!Listening
  <2>3. notes \in [Names -> Names \cup {Nobody}] /\ sessions \in [Names -> {TheRun, NoRun}]
    BY <1>0 DEF BranchShape
  <2>4. \A y \in Names : y # x => notes'[y] = notes[y] /\ sessions'[y] = sessions[y]
    BY <2>1, <2>3
  <2>5. notes'[x] = Nobody
    BY <2>1, <2>3
  <2>6. BranchShape'
    <3>1. notes' \in [Names -> Names \cup {Nobody}] /\ sessions' \in [Names -> {TheRun, NoRun}]
      BY <2>1, <2>3
    <3>2. \A y \in Names : notes'[y] \in {Starters[y], Nobody}
      BY <1>0, <2>4, <2>5 DEF BranchShape
    <3>3. QED
      BY <1>0, <1>1, <2>1, <3>1, <3>2 DEF BranchShape
  <2>7. Rooted'
    <3>1. \A y \in Names : (Alive(y) => Kept(y)) => (Alive(y)' => Kept(y)')
      BY <1>1, <2>2, <2>4 DEF Alive, Kept
    <3>2. \A y \in Names : lives[y] = "up" => Kept(y)'
      BY <1>0, <2>2, <2>4 DEF Rooted, Kept
    <3>3. due \in SUBSET Names
      BY <1>0 DEF BranchShape
    <3>4. \A y \in Names : Grown(y)' <=> Grown(y)
      BY <1>1 DEF Grown
    <3>5. QED
      BY <1>0, <1>1, <3>1, <3>2, <3>3, <3>4 DEF Rooted
  <2>8. Found'
    BY <1>0, <1>1, <2>1 DEF Found, Come
  <2>9. Silent'
    BY <1>1 DEF Silent
  <2>10. Missing'
    <3>1. ASSUME NEW y \in due', Chain(y)'
          PROVE  B!Path(y) \subseteq todo' \cup held'
      <4>1. B!Path(y) \subseteq todo \cup held
        BY <1>0, <1>1, <3>1 DEF Missing, Chain, Alive
      <4>2. x \notin B!Path(y)
        BY <1>1, <2>2, <3>1 DEF Chain, Alive
      <4>3. QED
        BY <1>1, <2>1, <4>1, <4>2
    <3>2. QED
      BY <1>0, <1>1, <3>1 DEF Missing
  <2>11. QED
    BY <2>6, <2>7, <2>8, <2>9, <2>10 DEF BranchInv
<1>5. QED
  BY <1>3, <1>4

\* The notes of whom it found are read.
LEMMA BranchReads ==
  ASSUME BranchInv, B!Listed \/ \E x \in Names : B!Read(x)
  PROVE  BranchInv'
<1>0. BranchShape /\ Rooted /\ Found /\ Silent /\ Missing
  BY DEF BranchInv
<1>1. CASE B!Listed
  <2>1. looks = "list" /\ todo = {} /\ looks' = "notes" /\ todo' = held /\ held' = {}
        /\ UNCHANGED <<lives, notes, sessions, crew, ever, left, due>>
    BY <1>1 DEF B!Listed, B!project
  <2>2. BranchShape'
    BY <1>0, <2>1 DEF BranchShape
  <2>3. Rooted'
    BY <1>0, <2>1 DEF Rooted, Grown, Alive, Kept
  <2>4. Found'
    BY <1>0, <2>1 DEF Found, Come
  <2>5. Silent'
    BY <2>1 DEF Silent
  <2>6. Missing'
    BY <1>0, <2>1 DEF Missing, Chain, Alive
  <2>7. QED
    BY <2>2, <2>3, <2>4, <2>5, <2>6 DEF BranchInv
<1>2. ASSUME NEW x \in Names, B!Read(x)
      PROVE  BranchInv'
  <2> DEFINE seen == B!Whom(notes, sessions, x)
  <2>1. looks = "notes" /\ x \in todo /\ todo' = todo \ {x}
        /\ crew' = crew \cup {w \in {seen} : w.root = TheRun}
        /\ UNCHANGED <<lives, notes, sessions, looks, held, ever, left, due>>
    BY <1>2 DEF B!Read, B!project
  <2>2. seen.id = x /\ seen.parent = notes[x]
    BY ReadOf
  <2>3. Come(x) /\ notes[x] \in {Starters[x], Nobody}
    BY <1>0, <2>1 DEF Found, BranchShape
  <2>4. ASSUME NEW y \in due, Chain(y), x \in B!Path(y)
        PROVE  seen \in crew' /\ seen.parent = Starters[x]
    <3>1. y \in Names /\ B!Path(y) = B!Line(y) /\ Grown(y) /\ (Alive(y) => Kept(y))
      BY <1>0, <2>4 DEF BranchShape, Missing, Rooted, B!Branch, B!Path
    <3>2. \A z \in B!Line(y) : z \in Names /\ Alive(z)
      BY <2>4, <3>1, LineCloses DEF Chain
    <3>3. ASSUME NEW z \in B!Line(y)
          PROVE  Kept(z)
      <4>1. CASE z = y
        BY <3>1, <3>2, <4>1
      <4>2. CASE z # y
        <5>1. PICK v \in B!Line(y) : Starters[v] = z
          BY <3>1, <4>2, LineStarts
        <5>2. v \in Names /\ z \in Names /\ lives[v] # "none" /\ Alive(z)
          BY <3>2, <5>1 DEF Alive
        <5>3. QED
          BY <1>0, <5>1, <5>2 DEF Rooted
      <4>3. QED
        BY <4>1, <4>2
    <3>4. \A z \in B!Line(y) : (notes[z] # Nobody => notes[z] \in B!Line(y))
            /\ sessions[z] = TheRun
      <4>1. SUFFICES ASSUME NEW z \in B!Line(y)
                     PROVE  (notes[z] # Nobody => notes[z] \in B!Line(y))
                              /\ sessions[z] = TheRun
        OBVIOUS
      <4>2. notes[z] = Starters[z] /\ sessions[z] = TheRun
        BY <3>3 DEF Kept
      <4>3. z \in Names /\ notes[z] \in Names \cup {Nobody}
        BY <1>0, <3>2 DEF BranchShape
      <4>4. QED
        BY <3>1, <4>2, <4>3, LineCloses
    <3>5. Nobody \notin B!Line(y)
      BY <3>2, BranchKindsHold
    <3>6. x \in B!Line(y)
      BY <2>4, <3>1
    <3>7. seen.root = TheRun
      <4> HIDE DEF seen
      <4>1. B!Whom(notes, sessions, x).root = TheRun
        BY <3>4, <3>5, <3>6, RootIsRun
      <4>2. QED
        BY <4>1 DEF seen
    <3>8. seen.parent = Starters[x]
      BY <2>2, <3>3, <3>6 DEF Kept
    <3> HIDE DEF seen
    <3>9. QED
      BY <2>1, <3>7, <3>8
  <2> HIDE DEF seen
  <2>5. BranchShape'
    BY <1>0, <2>1 DEF BranchShape
  <2>6. Rooted'
    BY <1>0, <2>1 DEF Rooted, Grown, Alive, Kept
  <2>7. Found'
    <3>1. \A w \in crew' : w \in crew \/ w = seen
      BY <2>1
    <3>2. \A w \in crew' : w.id \in Names /\ w.parent \in {Starters[w.id], Nobody} /\ Come(w.id)
      BY <1>0, <2>2, <2>3, <3>1 DEF Found
    <3>3. QED
      BY <1>0, <2>1, <3>2 DEF Found, Come
  <2>8. Silent'
    BY <2>1 DEF Silent
  <2>9. Missing'
    <3>1. ASSUME NEW y \in due', Chain(y)', NEW z \in B!Path(y)
          PROVE  z \in todo' \/ \E w \in crew' : w.id = z /\ w.parent = Starters[z]
      <4>1. Chain(y)
        BY <2>1, <3>1 DEF Chain, Alive
      <4>2. z \in todo \/ \E w \in crew : w.id = z /\ w.parent = Starters[z]
        BY <1>0, <2>1, <3>1, <4>1 DEF Missing
      <4>3. CASE z = x
        BY <2>1, <2>2, <2>4, <3>1, <4>1, <4>3
      <4>4. CASE z # x
        BY <2>1, <4>2, <4>4
      <4>5. QED
        BY <4>3, <4>4
    <3>2. QED
      BY <1>0, <2>1, <3>1 DEF Missing
  <2>10. QED
    BY <2>5, <2>6, <2>7, <2>8, <2>9 DEF BranchInv
<1>3. QED
  BY <1>1, <1>2

\* What is below what was named is reckoned from them, and each is asked whether it is there
\* still.
LEMMA BranchAsks ==
  ASSUME BranchInv, B!Extend \/ B!Settle \/ \E x \in Names : B!Dial(x)
  PROVE  BranchInv'
<1>0. BranchShape /\ Rooted /\ Found /\ Silent /\ Missing
  BY DEF BranchInv
<1>1. UNCHANGED <<lives, notes, sessions, due>>
  BY DEF B!Extend, B!Settle, B!Dial, B!project
<1>2. Rooted'
  BY <1>0, <1>1 DEF Rooted, Grown, Alive, Kept
<1>3. CASE B!Extend
  <2> DEFINE below == B!Under(crew, Ended)
  <2>1. /\ looks = "notes" /\ todo = {} /\ ever' = ever \cup below /\ looks' = "dial"
           /\ todo' = ever'
        /\ crew' = {} /\ UNCHANGED <<held, left>>
    BY <1>3 DEF B!Extend, B!project
  <2>2. \A w \in crew : w.id \in Names /\ w.parent \in {Starters[w.id], Nobody} /\ Come(w.id)
    BY <1>0 DEF Found
  <2>3. below \subseteq B!Branch
    <3>1. \A w \in crew : w.id \in Names /\ w.parent \in {Starters[w.id], Nobody}
      BY <2>2
    <3>2. QED
      BY <3>1, FoundBelow
  <2>4. \A y \in below : y \in Names /\ Come(y)
    <3> DEFINE S == {Ended} \cup {y \in Names : Come(y)}
    <3>1. S \in SUBSET Names /\ Ended \in S
      BY BranchKindsHold
    <3>2. \A w \in crew : w.parent \in S => w.id \in S
      BY <2>2
    <3> HIDE DEF S
    <3>3. below \subseteq S \ {Ended}
      BY <3>1, <3>2 DEF B!Under
    <3>4. QED
      BY <3>3 DEF S
  <2> HIDE DEF below
  <2>5. BranchShape'
    BY <1>0, <1>1, <2>1, <2>4 DEF BranchShape
  <2>6. Found'
    BY <1>0, <1>1, <2>1, <2>3, <2>4 DEF Found, Come
  <2>7. Silent'
    BY <2>1 DEF Silent
  <2>8. Missing'
    <3>1. ASSUME NEW x \in due', Chain(x)'
          PROVE  x \in ever'
      <4>1. Chain(x) /\ x \in B!Branch
        BY <1>0, <1>1, <3>1 DEF Missing, Chain, Alive
      <4>2. \A y \in B!Path(x) : \E w \in crew : w.id = y /\ w.parent = Starters[y]
        BY <1>0, <1>1, <2>1, <3>1, <4>1 DEF Missing
      <4>3. QED
        BY <2>1, <4>1, <4>2, LineFound DEF below
    <3>2. QED
      BY <1>0, <1>1, <2>1, <3>1 DEF Missing
  <2>9. QED
    BY <1>2, <2>5, <2>6, <2>7, <2>8 DEF BranchInv
<1>4. CASE \E x \in Names : B!Dial(x)
  <2>1. PICK x \in Names : B!Dial(x)
    BY <1>4
  <2>2. /\ looks = "dial" /\ looks' = looks /\ x \in todo /\ todo' = todo \ {x}
        /\ left' = left \cup {y \in {x} : B!Listening(y)}
        /\ UNCHANGED <<held, crew, ever>>
    BY <2>1 DEF B!Dial
  <2>3. BranchShape'
    BY <1>0, <1>1, <2>2 DEF BranchShape
  <2>4. Found'
    BY <1>0, <1>1, <2>2 DEF Found, Come
  <2>5. Silent'
    <3>1. SUFFICES ASSUME NEW y \in ever \ (left' \cup todo')
                   PROVE  B!Over(y)'
      BY <2>2 DEF Silent
    <3>2. y \in Names /\ Come(y)
      BY <1>0, <3>1 DEF BranchShape, Found
    <3>3. CASE y = x
      <4>1. ~B!Listening(y)
        BY <2>2, <3>1, <3>3
      <4>2. QED
        BY <1>0, <1>1, <3>2, <4>1 DEF BranchShape, Ways, Come, B!Listening, B!Over
    <3>4. CASE y # x
      BY <1>0, <1>1, <2>2, <3>1, <3>4 DEF Silent, B!Over
    <3>5. QED
      BY <3>3, <3>4
  <2>6. Missing'
    BY <1>0, <1>1, <2>2 DEF Missing, Chain, Alive
  <2>7. QED
    BY <1>2, <2>3, <2>4, <2>5, <2>6 DEF BranchInv
<1>5. CASE B!Settle
  <2>1. looks = "dial" /\ todo = {} /\ looks' \in {"said", "look"}
        /\ UNCHANGED <<todo, held, crew, ever, left>>
    BY <1>5 DEF B!Settle, B!project
  <2>2. BranchShape'
    BY <1>0, <1>1, <2>1 DEF BranchShape
  <2>3. Found'
    BY <1>0, <1>1, <2>1 DEF Found, Come
  <2>4. Silent'
    BY <1>0, <1>1, <2>1 DEF Silent, B!Over
  <2>5. Missing'
    BY <1>0, <1>1, <2>1 DEF Missing, Chain, Alive
  <2>6. QED
    BY <1>2, <2>2, <2>3, <2>4, <2>5 DEF BranchInv
<1>6. QED
  BY <1>3, <1>4, <1>5

\* The invariant of the branch holds in the run of the six parts.
LEMMA BranchHolds == Stands => []BranchInv
<1>1. Begins => BranchInv
  BY BranchBegins DEF Begins
<1>2. BranchInv /\ [Goes]_<<part, vars, rosterVars, branching, calling, asking, naming>> =>
        BranchInv'
  <2> SUFFICES ASSUME BranchInv, [Goes]_<<part, vars, rosterVars, branching, calling, asking, naming>>
               PROVE  BranchInv'
    OBVIOUS
  <2>1. CASE B!Next
    BY <2>1, BranchLives, BranchStops, BranchLooks, BranchLists, BranchReads, BranchAsks
       DEF B!Next, B!Sessions, B!Looking
  <2>2. CASE UNCHANGED branching
    <3>1. UNCHANGED <<lives, notes, sessions, looks, todo, held, crew, ever, left, due>>
      BY <2>2 DEF branching
    <3>2. BranchShape' /\ Rooted'
      BY <3>1 DEF BranchInv, BranchShape, Rooted, Grown, Alive, Kept
    <3>3. Found' /\ Silent'
      BY <3>1 DEF BranchInv, Found, Silent, Come, B!Over
    <3>4. Missing'
      BY <3>1 DEF BranchInv, Missing, Chain, Alive
    <3>5. QED
      BY <3>2, <3>3, <3>4 DEF BranchInv
  <2>3. QED
    BY <2>1, <2>2 DEF Goes
<1>3. QED
  BY <1>1, <1>2, PTL DEF Stands

\* For any tree of sessions that come up, end and are killed while a branch of it is ended:
\* whoever
\* is said to have gone has gone and was below what was named, and nobody who was there as a
\* look
\* began is missed by it while it and those above it keep their notes (disband in
\* verbs/branching.rs).
THEOREM TheGoneAreGone == Stands => []GoneIsGone
<1>1. BranchInv => GoneIsGone
  <2> SUFFICES ASSUME BranchInv
               PROVE  GoneIsGone
    OBVIOUS
  <2>1. B!GoneIsGone
    BY DEF BranchInv, Found, Silent, B!GoneIsGone
  <2>2. B!NobodyMissed
    BY DEF BranchInv, Missing, Chain, Alive, B!NobodyMissed
  <2>3. QED
    BY <2>1, <2>2 DEF GoneIsGone
<1>2. QED
  BY <1>1, BranchHolds, PTL

----------------------------------------------------------------------------
\* Calls.

Secretly == [made : Callers \X Nat, whom : Callers, its : Nat] \cup {NoKey}

\* A secret is of whoever has the name, in whose hands it is: a session has that of one that
\* stops
\* it, and of each it may stop the one it was last given.
CallSecrets ==
  /\ above \in [Callers -> Callers \cup {Nobody}] /\ serving \subseteq Callers
     /\ nth \in [Callers -> Nat]
  /\ secret \in [Callers -> Secretly] /\ lent \in [Callers -> Secretly]
  /\ starter \in [Callers -> Callers \cup {Nobody}]
     /\ kept \in [Callers -> [Callers -> Secretly]]
  /\ \A x \in Callers :
       /\ \A k \in {secret[x], lent[x]} \ {NoKey} : k.whom = x /\ k.its = nth[x]
       /\ x \notin serving => lent[x] = NoKey /\ \A y \in Callers : kept[x][y] = NoKey
       /\ \A y \in Callers : kept[x][y] # NoKey => kept[x][y].made = <<x, nth[x]>>
          /\ kept[x][y].whom = y
       /\ \A y \in Callers : x \in serving /\ above[x] = y =>
          kept[y][x] \in {secret[x], lent[x], NoKey}

\* A call as it is under way.
Way == [stage : {"notes", "secrets", "fan", "decide", "dial"}, by : Callers, its : Nat,
        asked : C!Arguments, forked : SUBSET Callers, parent : Callers \cup {Nobody},
        minted : [Callers -> Secretly], todo : SUBSET (Callers \cup {"", "bad"}),
        dialled : Callers, token : Secretly]

Under == call.stage \notin {"none", "over"}

\* What a call has copied is of its own session, and so is what it proves itself with.
CallCopies ==
  /\ call.stage \in {"none", "over", "notes", "secrets", "fan", "decide", "dial"}
  /\ Under =>
       /\ call \in Way
       /\ \A w \in Callers : call.minted[w] # NoKey =>
            call.minted[w].made = <<call.by, call.its>> /\ call.minted[w].whom = w
       /\ call.token # NoKey => call.token.made = <<call.by, call.its>>
          /\ call.token.whom = call.dialled
       /\ call.stage \in {"decide", "dial"} /\ call.asked.verb \notin C!Fanned =>
            call.todo \subseteq {C!Aim(call.asked, call.by)}
       /\ call.stage = "dial" => call.dialled \in call.todo
       /\ call.stage = "fan" => call.asked.verb \in C!Fanned

\* What the near end found right.
Passed(w) ==
  LET v == C!Decided(call.asked)
      relation == C!Stands(call, w)
  IN /\ v = "assign" => relation = "child"
     /\ C!May(C!Standing(call), relation, v)

\* While nothing changes, a call's copy is what is there.
CallCurrent ==
  Under /\ last.changes = 0 =>
    /\ call.by \in serving /\ nth[call.by] = call.its
    /\ call.stage # "notes" => call.parent = above[call.by]
       /\ call.forked = C!Children(above, serving, call.by)
    /\ call.stage \in {"fan", "decide", "dial"} => call.minted = kept[call.by]
    /\ call.stage = "dial" => Passed(call.dialled) /\ call.token = C!Token(call, call.dialled)

Noted == [did : {"nothing"}, changes : Nat]
Outcomes == {"identity", "status", "verbs", "stop", "adopt", "role", "tell",
             "nobody", "own", "unproven", "wall", "graft"}
Did == [did : Outcomes, changes : Nat, odd : BOOLEAN, on : Callers, its : Nat, kin : {"session", "stranger"},
        by : Callers \X Nat, token : Secretly]

\* The inductive invariant of a call and what is done for it.
CallInv ==
  /\ CallSecrets /\ CallCopies /\ CallCurrent
  /\ last \in Noted \cup Did /\ C!OnlyItsOwn /\ C!GatesAgree

\* What the assumption of the run says of the constants.
LEMMA CallKindsHold ==
  /\ Nobody \notin Callers /\ NoKey \notin Callers /\ Asked \subseteq Callers \X C!Arguments
  /\ Deep \in Nat \ {0}
BY CallPartKinds DEF C!CallKinds, C!KinshipKinds

\* It holds at the start.
LEMMA CallBegins == C!Init => CallInv
<1> SUFFICES ASSUME C!Init
             PROVE  CallInv
  OBVIOUS
<1>1. CallSecrets
  BY CallKindsHold DEF C!Init, CallSecrets, Secretly, C!None
<1>2. CallCopies /\ CallCurrent
  BY DEF C!Init, CallCopies, CallCurrent, Under, C!NoCall
<1>3. last \in Noted /\ last.did = "nothing"
  BY DEF C!Init, C!Nothing, Noted
<1>4. C!OnlyItsOwn /\ C!GatesAgree
  BY <1>3 DEF C!OnlyItsOwn, C!GatesAgree
<1>5. QED
  BY <1>1, <1>2, <1>3, <1>4 DEF CallInv

\* What is done for a call is told of while others come and go.
LEMMA CallCounts ==
  ASSUME CallInv, C!Changed
  PROVE  /\ last' \in Noted \cup Did /\ C!OnlyItsOwn' /\ C!GatesAgree'
         /\ Under => last'.changes # 0
<1>1. CASE call.stage = "none"
  BY <1>1 DEF C!Changed, CallInv, C!OnlyItsOwn, C!GatesAgree, Under
<1>2. CASE call.stage # "none"
  <2>1. last' = [last EXCEPT !.changes = @ + 1]
    BY <1>2 DEF C!Changed
  <2>2. CASE last \in Noted
    <3>1. last' \in Noted /\ last'.changes # 0 /\ last'.did = "nothing"
      BY <2>1, <2>2 DEF Noted
    <3>2. QED
      BY <3>1 DEF C!OnlyItsOwn, C!GatesAgree
  <2>3. CASE last \in Did
    <3>1. last' \in Did /\ last'.changes # 0
      BY <2>1, <2>3 DEF Did
    <3>2. /\ last'.did = last.did /\ last'.kin = last.kin /\ last'.token = last.token
          /\ last'.by = last.by /\ last'.on = last.on /\ last'.its = last.its
      BY <2>1, <2>3 DEF Did
    <3>3. C!OnlyItsOwn
      BY DEF CallInv
    <3>4. QED
      BY <3>1, <3>2, <3>3 DEF C!OnlyItsOwn, C!GatesAgree
  <2>4. QED
    BY <2>2, <2>3 DEF CallInv
<1>3. QED
  BY <1>1, <1>2

\* A session that comes has no secret but the one it is started with.
LEMMA CallComes ==
  ASSUME CallInv, NEW x \in Callers, NEW by \in Callers \cup {Nobody}, NEW r,
           NEW s \in Secretly,
         C!Begun(x, by, r, s), s # NoKey => s.whom = x /\ s.its = nth[x] + 1,
         \/ by = Nobody /\ UNCHANGED kept
         \/ /\ by \in serving /\ (s # NoKey => s.made = <<by, nth[by]>>)
            /\ kept' = [kept EXCEPT ![by][x] = s]
  PROVE  CallInv'
<1>0. /\ x \notin serving /\ serving' = serving \cup {x} /\ nth' = [nth EXCEPT ![x] = @ + 1]
      /\ above' = [above EXCEPT ![x] = by] /\ starter' = [starter EXCEPT ![x] = by]
      /\ secret' = [secret EXCEPT ![x] = s] /\ UNCHANGED <<lent, call>> /\ C!Changed
  BY DEF C!Begun
<1>1. CallSecrets
  BY DEF CallInv
<1>2. /\ above' \in [Callers -> Callers \cup {Nobody}] /\ serving' \subseteq Callers
         /\ nth' \in [Callers -> Nat]
      /\ secret' \in [Callers -> Secretly] /\ lent' \in [Callers -> Secretly]
      /\ starter' \in [Callers -> Callers \cup {Nobody}]
  BY <1>0, <1>1 DEF CallSecrets
<1>3. kept' \in [Callers -> [Callers -> Secretly]]
  <2>1. CASE kept' = [kept EXCEPT ![by][x] = s] /\ by \in Callers
    <3> DEFINE row == [kept[by] EXCEPT ![x] = s]
    <3>1. row \in [Callers -> Secretly]
      BY <1>1, <2>1 DEF CallSecrets
    <3>2. kept' = [kept EXCEPT ![by] = row]
      BY <1>1, <2>1 DEF CallSecrets
    <3> HIDE DEF row
    <3>3. QED
      BY <1>1, <3>1, <3>2 DEF CallSecrets
  <2>2. QED
    BY <1>1, <2>1 DEF CallSecrets
<1>4. \A y \in Callers \ {x} : secret'[y] = secret[y] /\ nth'[y] = nth[y]
        /\ above'[y] = above[y]
  BY <1>0, <1>1 DEF CallSecrets
<1>5. secret'[x] = s /\ nth'[x] = nth[x] + 1 /\ above'[x] = by /\ lent[x] = NoKey
  BY <1>0, <1>1 DEF CallSecrets
<1>6. \A p, c \in Callers : kept'[p][c] = IF p = by /\ c = x THEN s ELSE kept[p][c]
  BY <1>1, CallKindsHold DEF CallSecrets
<1>7. ASSUME NEW z \in Callers
      PROVE  /\ \A k \in {secret'[z], lent'[z]} \ {NoKey} : k.whom = z /\ k.its = nth'[z]
             /\ z \notin serving' => lent'[z] = NoKey /\ \A y \in Callers : kept'[z][y] = NoKey
             /\ \A y \in Callers : kept'[z][y] # NoKey =>
                  kept'[z][y].made = <<z, nth'[z]>> /\ kept'[z][y].whom = y
             /\ \A y \in Callers : z \in serving' /\ above'[z] = y =>
                  kept'[y][z] \in {secret'[z], lent'[z], NoKey}
  <2>1. \A k \in {secret'[z], lent'[z]} \ {NoKey} : k.whom = z /\ k.its = nth'[z]
    BY <1>0, <1>1, <1>4, <1>5 DEF CallSecrets
  <2>2. z \notin serving' => lent'[z] = NoKey /\ \A y \in Callers : kept'[z][y] = NoKey
    BY <1>0, <1>1, <1>6, CallKindsHold DEF CallSecrets
  <2>3. ASSUME NEW y \in Callers, kept'[z][y] # NoKey
        PROVE  kept'[z][y].made = <<z, nth'[z]>> /\ kept'[z][y].whom = y
    <3>1. CASE z = by /\ y = x
      BY <1>0, <1>4, <1>6, <2>3, <3>1, CallKindsHold
    <3>2. CASE ~(z = by /\ y = x)
      <4>1. kept'[z][y] = kept[z][y] /\ z # x
        BY <1>0, <1>1, <1>6, <2>3, <3>2 DEF CallSecrets
      <4>2. QED
        BY <1>1, <1>4, <2>3, <4>1 DEF CallSecrets
    <3>3. QED
      BY <3>1, <3>2
  <2>4. ASSUME NEW y \in Callers, z \in serving', above'[z] = y
        PROVE  kept'[y][z] \in {secret'[z], lent'[z], NoKey}
    <3>1. CASE z = x
      BY <1>5, <1>6, <2>4, <3>1
    <3>2. CASE z # x
      BY <1>0, <1>1, <1>4, <1>6, <2>4, <3>2 DEF CallSecrets
    <3>3. QED
      BY <3>1, <3>2
  <2>5. QED
    BY <2>1, <2>2, <2>3, <2>4
<1>8. CallSecrets'
  BY <1>2, <1>3, <1>7 DEF CallSecrets
<1>9. CallCopies' /\ CallCurrent'
  BY <1>0, CallCounts DEF CallInv, CallCopies, CallCurrent, Under
<1>10. QED
  BY <1>0, <1>8, <1>9, CallCounts DEF CallInv

\* A session that goes takes its secrets along, and what it knew.
LEMMA CallGone ==
  ASSUME CallSecrets, NEW x \in Callers, C!Gone(x)
  PROVE  CallSecrets'
<1>0. /\ serving' = serving \ {x} /\ UNCHANGED nth
      /\ above' = [above EXCEPT ![x] = Nobody] /\ starter' = [starter EXCEPT ![x] = Nobody]
      /\ secret' = [secret EXCEPT ![x] = NoKey] /\ lent' = [lent EXCEPT ![x] = NoKey]
      /\ kept' = [kept EXCEPT ![x] = C!None]
  BY DEF C!Gone
<1>1. NoKey \in Secretly /\ C!None \in [Callers -> Secretly]
        /\ \A y \in Callers : C!None[y] = NoKey
  BY DEF Secretly, C!None
<1>2. /\ above' \in [Callers -> Callers \cup {Nobody}] /\ serving' \subseteq Callers
         /\ nth' \in [Callers -> Nat]
      /\ secret' \in [Callers -> Secretly] /\ lent' \in [Callers -> Secretly]
      /\ starter' \in [Callers -> Callers \cup {Nobody}]
         /\ kept' \in [Callers -> [Callers -> Secretly]]
  BY <1>0, <1>1 DEF CallSecrets
<1>3. \A y \in Callers \ {x} : /\ secret'[y] = secret[y] /\ lent'[y] = lent[y]
        /\ above'[y] = above[y]
                               /\ kept'[y] = kept[y]
  BY <1>0 DEF CallSecrets
<1>4. secret'[x] = NoKey /\ lent'[x] = NoKey /\ \A y \in Callers : kept'[x][y] = NoKey
  BY <1>0, <1>1 DEF CallSecrets
<1> HIDE DEF CallSecrets
<1>5. ASSUME NEW z \in Callers
      PROVE  /\ \A k \in {secret'[z], lent'[z]} \ {NoKey} : k.whom = z /\ k.its = nth'[z]
             /\ z \notin serving' => lent'[z] = NoKey /\ \A y \in Callers : kept'[z][y] = NoKey
             /\ \A y \in Callers : kept'[z][y] # NoKey =>
                  kept'[z][y].made = <<z, nth'[z]>> /\ kept'[z][y].whom = y
             /\ \A y \in Callers : z \in serving' /\ above'[z] = y =>
                  kept'[y][z] \in {secret'[z], lent'[z], NoKey}
  <2>1. CASE z = x
    BY <1>0, <1>4, <2>1
  <2>2. CASE z # x
    BY <1>0, <1>3, <1>4, <2>2 DEF CallSecrets
  <2>3. QED
    BY <2>1, <2>2
<1>6. QED
  BY <1>2, <1>5 DEF CallSecrets

\* Every change among the sessions keeps it.
LEMMA CallPasses ==
  ASSUME CallInv,
         \/ \E x \in Callers : C!Rise(x) \/ C!Tick(x) \/ C!End(x)
         \/ \E p, c \in Callers : C!Fork(p, c) \/ C!Graft(p, c)
  PROVE  CallInv'
<1>0. CallSecrets
  BY DEF CallInv
<1>1. ASSUME NEW x \in Callers, C!Rise(x)
      PROVE  CallInv'
  <2>1. C!Begun(x, Nobody, <<x, nth[x] + 1>>, NoKey) /\ UNCHANGED kept /\ NoKey \in Secretly
    BY <1>1 DEF C!Rise, Secretly
  <2>2. QED
    BY <2>1, CallComes
<1>2. ASSUME NEW x \in Callers, C!Tick(x)
      PROVE  CallInv'
  <2>1. C!Changed /\ UNCHANGED <<above, of, serving, nth, secret, lent, kept, call>>
    BY <1>2 DEF C!Tick
  <2>2. starter' = [starter EXCEPT ![x] = above[x]] /\ above[x] \in Callers \cup {Nobody}
    BY <1>0, <1>2 DEF C!Tick, CallSecrets
  <2>3. CallSecrets'
    BY <1>0, <2>1, <2>2 DEF CallSecrets
  <2>4. CallCopies' /\ CallCurrent'
    BY <2>1, CallCounts DEF CallInv, CallCopies, CallCurrent, Under
  <2>5. QED
    BY <2>1, <2>3, <2>4, CallCounts DEF CallInv
<1>3. ASSUME NEW x \in Callers, C!End(x)
      PROVE  CallInv'
  <2>1. C!Gone(x) /\ C!Changed /\ UNCHANGED call
    BY <1>3 DEF C!End
  <2>2. CallSecrets'
    BY <1>0, <2>1, CallGone
  <2>3. CallCopies' /\ CallCurrent'
    BY <2>1, CallCounts DEF CallInv, CallCopies, CallCurrent, Under
  <2>4. QED
    BY <2>1, <2>2, <2>3, CallCounts DEF CallInv
<1>4. ASSUME NEW p \in Callers, NEW c \in Callers, C!Fork(p, c)
      PROVE  CallInv'
  <2> DEFINE s == C!Secret(p, c, nth[c] + 1)
  <2>1. /\ p \in serving /\ C!Begun(c, p, of[p], s) /\ kept' = [kept EXCEPT ![p][c] = s]
    BY <1>4 DEF C!Fork
  <2>2. s = [made |-> <<p, nth[p]>>, whom |-> c, its |-> nth[c] + 1]
    BY DEF C!Secret
  <2>3. s \in Secretly /\ s.made = <<p, nth[p]>> /\ s.whom = c /\ s.its = nth[c] + 1
    <3>1. nth[p] \in Nat /\ nth[c] + 1 \in Nat
      BY <1>0 DEF CallSecrets
    <3>2. QED
      BY <2>2, <3>1 DEF Secretly
  <2> HIDE DEF s
  <2>4. QED
    BY <2>1, <2>3, CallComes
<1>5. ASSUME NEW p \in Callers, NEW c \in Callers, C!Graft(p, c)
      PROVE  CallInv'
  <2> DEFINE s == C!Secret(p, c, nth[c])
  <2>1. /\ {p, c} \subseteq serving /\ above' = [above EXCEPT ![c] = p]
        /\ lent' = [lent EXCEPT ![c] = s] /\ kept' = [kept EXCEPT ![p][c] = s]
        /\ C!Changed /\ UNCHANGED <<of, serving, nth, secret, starter, call>>
    BY <1>5 DEF C!Graft
  <2>2. s = [made |-> <<p, nth[p]>>, whom |-> c, its |-> nth[c]]
    BY DEF C!Secret
  <2>3. s \in Secretly /\ s.made = <<p, nth[p]>> /\ s.whom = c /\ s.its = nth[c]
    <3>1. nth[p] \in Nat /\ nth[c] \in Nat
      BY <1>0 DEF CallSecrets
    <3>2. QED
      BY <2>2, <3>1 DEF Secretly
  <2> HIDE DEF s
  <2>4. /\ above' \in [Callers -> Callers \cup {Nobody}] /\ serving' \subseteq Callers
        /\ nth' \in [Callers -> Nat] /\ secret' \in [Callers -> Secretly]
           /\ lent' \in [Callers -> Secretly]
        /\ starter' \in [Callers -> Callers \cup {Nobody}]
    BY <1>0, <2>1, <2>3 DEF CallSecrets
  <2>5. kept' \in [Callers -> [Callers -> Secretly]]
    <3> DEFINE row == [kept[p] EXCEPT ![c] = s]
    <3>1. row \in [Callers -> Secretly]
      BY <1>0, <2>3 DEF CallSecrets
    <3>2. kept' = [kept EXCEPT ![p] = row]
      BY <1>0, <2>1 DEF CallSecrets
    <3> HIDE DEF row
    <3>3. QED
      BY <1>0, <3>1, <3>2 DEF CallSecrets
  <2>6. \A y \in Callers \ {c} : lent'[y] = lent[y] /\ above'[y] = above[y]
    BY <1>0, <2>1 DEF CallSecrets
  <2>7. lent'[c] = s /\ above'[c] = p
    BY <1>0, <2>1 DEF CallSecrets
  <2>8. \A x, y \in Callers : kept'[x][y] = IF x = p /\ y = c THEN s ELSE kept[x][y]
    BY <1>0, <2>1 DEF CallSecrets
  <2>9. ASSUME NEW z \in Callers
        PROVE  /\ \A k \in {secret'[z], lent'[z]} \ {NoKey} : k.whom = z /\ k.its = nth'[z]
               /\ z \notin serving' => lent'[z] = NoKey
                  /\ \A y \in Callers : kept'[z][y] = NoKey
               /\ \A y \in Callers : kept'[z][y] # NoKey =>
                    kept'[z][y].made = <<z, nth'[z]>> /\ kept'[z][y].whom = y
               /\ \A y \in Callers : z \in serving' /\ above'[z] = y =>
                    kept'[y][z] \in {secret'[z], lent'[z], NoKey}
    <3>1. \A k \in {secret'[z], lent'[z]} \ {NoKey} : k.whom = z /\ k.its = nth'[z]
      BY <1>0, <2>1, <2>3, <2>6, <2>7 DEF CallSecrets
    <3>2. z \notin serving' => lent'[z] = NoKey /\ \A y \in Callers : kept'[z][y] = NoKey
      BY <1>0, <2>1, <2>6, <2>8 DEF CallSecrets
    <3>3. \A y \in Callers : kept'[z][y] # NoKey => kept'[z][y].made = <<z, nth'[z]>>
            /\ kept'[z][y].whom = y
      BY <1>0, <2>1, <2>3, <2>8 DEF CallSecrets
    <3>4. \A y \in Callers : z \in serving' /\ above'[z] = y =>
            kept'[y][z] \in {secret'[z], lent'[z], NoKey}
      BY <1>0, <2>1, <2>6, <2>7, <2>8 DEF CallSecrets
    <3>5. QED
      BY <3>1, <3>2, <3>3, <3>4
  <2>10. CallSecrets'
    BY <2>4, <2>5, <2>9 DEF CallSecrets
  <2>11. CallCopies' /\ CallCurrent'
    BY <2>1, CallCounts DEF CallInv, CallCopies, CallCurrent, Under
  <2>12. QED
    BY <2>1, <2>10, <2>11, CallCounts DEF CallInv
<1>6. QED
  BY <1>1, <1>2, <1>3, <1>4, <1>5

\* Only the stage, what is still to do and what proves it change from one peer to the next.
LEMMA CallLeaves ==
  ASSUME CallCopies, Under, NEW w, call.stage \in {"decide", "dial"}, w \in call.todo,
           call' = C!Left(w),
         UNCHANGED <<above, of, serving, nth, kept>>,
         CallCurrent, last'.changes = last.changes
  PROVE  CallCopies' /\ CallCurrent'
<1>0. call \in Way
  BY DEF CallCopies, Way
<1>1. CASE call.todo = {w}
  <2>1. call'.stage = "over"
    BY <1>1 DEF C!Left, C!Over
  <2>2. QED
    BY <2>1 DEF CallCopies, CallCurrent, Under
<1>2. CASE call.todo # {w}
  <2>1. call' = [call EXCEPT !.stage = "decide", !.todo = @ \ {w}, !.token = NoKey]
    BY <1>2 DEF C!Left
  <2>2. /\ call'.stage = "decide" /\ call'.todo = call.todo \ {w} /\ call'.token = NoKey
        /\ call'.by = call.by /\ call'.its = call.its /\ call'.asked = call.asked
           /\ call'.forked = call.forked
        /\ call'.parent = call.parent /\ call'.minted = call.minted
           /\ call'.dialled = call.dialled
    BY <1>0, <2>1 DEF Way
  <2>3. call' \in Way
    BY <1>0, <2>1 DEF Way, Secretly
  <2>4. CallCopies'
    BY <2>2, <2>3 DEF CallCopies, Under
  <2>5. CallCurrent'
    BY <2>2 DEF CallCurrent, Under
  <2>6. QED
    BY <2>4, <2>5
<1>3. QED
  BY <1>1, <1>2

\* Every step of the near end keeps it.
LEMMA CallNear ==
  ASSUME CallInv,
         \/ \E one \in Asked : C!Ask(one[1], one[2])
         \/ C!CopyNotes \/ C!CopyMinted \/ C!Fan \/ \E w \in Callers \cup {"bad"} : C!Decide(w)
  PROVE  CallInv'
<1>0. CallSecrets /\ CallCopies /\ CallCurrent
  BY DEF CallInv
<1>1. UNCHANGED C!sessions
  BY DEF C!Ask, C!CopyNotes, C!CopyMinted, C!Fan, C!Decide
<1>2. UNCHANGED <<above, of, serving, nth, secret, lent, starter, kept>>
  BY <1>1 DEF C!sessions
<1>3. CallSecrets'
  BY <1>0, <1>2 DEF CallSecrets
<1>4. ASSUME NEW x \in Callers, NEW a \in C!Arguments, C!Ask(x, a)
      PROVE  CallInv'
  <2>1. last' \in Noted /\ last'.did = "nothing"
    BY <1>4 DEF C!Ask, C!Nothing, Noted
  <2>2. CASE call' = C!Over
    BY <1>3, <2>1, <2>2 DEF C!Over, CallInv, CallCopies, CallCurrent, Under, C!OnlyItsOwn,
       C!GatesAgree
  <2>3. CASE call' # C!Over
    <3>1. call' = [stage |-> "notes", by |-> x, its |-> nth[x], asked |-> a, forked |-> {},
                   parent |-> Nobody, minted |-> C!None, todo |-> {}, dialled |-> x,
                     token |-> NoKey]
      BY <1>4, <2>3 DEF C!Ask
    <3>2. C!None \in [Callers -> Secretly] /\ (\A y \in Callers : C!None[y] = NoKey)
            /\ nth[x] \in Nat /\ x \in serving
      BY <1>0, <1>4 DEF CallSecrets, C!None, Secretly, C!Ask
    <3>3. call' \in Way /\ call'.stage = "notes" /\ call'.minted = C!None /\ call'.token = NoKey
          /\ call'.by = x /\ call'.its = nth[x]
      BY <3>1, <3>2 DEF Way, Secretly
    <3>4. CallCopies'
      BY <3>2, <3>3 DEF CallCopies, Under
    <3>5. CallCurrent'
      BY <1>2, <3>2, <3>3 DEF CallCurrent, Under
    <3>6. QED
      BY <1>3, <2>1, <3>4, <3>5 DEF CallInv, C!OnlyItsOwn, C!GatesAgree
  <2>4. QED
    BY <2>2, <2>3
<1>5. ASSUME UNCHANGED last, CallCopies', CallCurrent'
      PROVE  CallInv'
  BY <1>3, <1>5 DEF CallInv, C!OnlyItsOwn, C!GatesAgree
<1>6. CASE C!CopyNotes
  <2>1. /\ call.stage = "notes" /\ UNCHANGED last
        /\ call' = [call EXCEPT !.stage = "secrets", !.parent = above[call.by],
                                !.forked = C!Children(above, serving, call.by)]
    BY <1>6 DEF C!CopyNotes
  <2>2. call \in Way
    BY <1>0, <2>1 DEF CallCopies, Under
  <2> DEFINE kids == C!Children(above, serving, call.by)
  <2>3. kids \in SUBSET Callers /\ above[call.by] \in Callers \cup {Nobody}
    BY <1>0, <2>2 DEF C!Children, CallSecrets, Way
  <2> HIDE DEF kids
  <2>4. call' \in Way
    BY <2>1, <2>2, <2>3 DEF Way, kids
  <2>5. /\ call'.stage = "secrets" /\ call'.parent = above[call.by] /\ call'.forked = kids
        /\ call'.by = call.by /\ call'.its = call.its /\ call'.asked = call.asked
        /\ call'.minted = call.minted /\ call'.token = call.token
           /\ call'.dialled = call.dialled
    BY <2>1, <2>2 DEF Way, kids
  <2>6. CallCopies'
    BY <1>0, <2>1, <2>4, <2>5 DEF CallCopies, Under
  <2>7. kids' = kids
    BY <1>2, <2>5 DEF kids, C!Children
  <2>8. CallCurrent'
    BY <1>0, <1>2, <2>1, <2>5, <2>7 DEF CallCurrent, Under, kids
  <2>9. QED
    BY <1>5, <2>1, <2>6, <2>8
<1>7. CASE C!CopyMinted
  <2> DEFINE m == IF C!Vouched THEN kept[call.by] ELSE C!None
             fans == call.asked.verb \in C!Fanned
             to == IF fans THEN "fan" ELSE "decide"
             todo2 == IF fans THEN call.todo ELSE {C!Aim(call.asked, call.by)}
  <2>1. call.stage = "secrets" /\ UNCHANGED last
    BY <1>7 DEF C!CopyMinted
  <2>2. call \in Way
    BY <1>0, <2>1 DEF CallCopies, Under
  <2>3. call' = [call EXCEPT !.minted = m, !.stage = to, !.todo = todo2]
    <3>1. [call EXCEPT !.minted = m].asked = call.asked
            /\ [call EXCEPT !.minted = m].by = call.by
      BY <2>2 DEF Way
    <3> HIDE DEF m
    <3>2. call' = IF fans THEN [[call EXCEPT !.minted = m] EXCEPT !.stage = "fan"]
                  ELSE [[call EXCEPT !.minted = m] EXCEPT !.stage = "decide",
                                                          !.todo = {C!Aim(call.asked, call.by)}]
      BY <1>7, <3>1 DEF C!CopyMinted, m
    <3>3. CASE fans
      BY <2>2, <3>2, <3>3 DEF Way
    <3>4. CASE ~fans
      BY <2>2, <3>2, <3>4 DEF Way
    <3>5. QED
      BY <3>3, <3>4
  <2>4. /\ m \in [Callers -> Secretly] /\ (last.changes = 0 => m = kept[call.by])
        /\ \A w \in Callers : m[w] # NoKey => m[w].made = <<call.by, call.its>> /\ m[w].whom = w
    <3>1. call.by \in Callers
      BY <2>2 DEF Way
    <3>2. last.changes = 0 => C!Vouched
      BY <1>0, <2>1 DEF CallCurrent, Under, C!Vouched
    <3>3. CASE C!Vouched
      BY <1>0, <3>1, <3>3 DEF CallSecrets, C!Vouched
    <3>4. CASE ~C!Vouched
      BY <3>2, <3>4 DEF C!None, Secretly
    <3>5. QED
      BY <3>3, <3>4
  <2>5. todo2 \in SUBSET (Callers \cup {"", "bad"})
    BY <2>2 DEF C!Aim, Way, C!Arguments
  <2> HIDE DEF m, todo2, fans
  <2>6. call' \in Way
    BY <2>2, <2>3, <2>4, <2>5 DEF Way
  <2>7. /\ call'.stage = to /\ call'.minted = m /\ call'.todo = todo2 /\ call'.by = call.by
        /\ call'.its = call.its /\ call'.asked = call.asked /\ call'.parent = call.parent
        /\ call'.forked = call.forked /\ call'.token = call.token
           /\ call'.dialled = call.dialled
    BY <2>2, <2>3 DEF Way
  <2>8. CallCopies'
    BY <1>0, <2>1, <2>4, <2>6, <2>7 DEF CallCopies, Under, todo2, fans
  <2>9. CallCurrent'
    BY <1>0, <1>2, <2>1, <2>4, <2>7 DEF CallCurrent, Under
  <2>10. QED
    BY <1>5, <2>1, <2>8, <2>9
<1>8. CASE C!Fan
  <2>1. call.stage = "fan" /\ UNCHANGED last
    BY <1>8 DEF C!Fan
  <2>2. call \in Way
    BY <1>0, <2>1 DEF CallCopies, Under
  <2>3. CASE call' = C!Over
    BY <1>5, <2>1, <2>3 DEF C!Over, CallCopies, CallCurrent, Under
  <2>4. CASE call' # C!Over
    <3>1. PICK crew2 \in SUBSET Callers : call' = [call EXCEPT !.stage = "decide", !.todo = crew2]
      BY <1>0, <1>8, <2>4 DEF C!Fan, CallSecrets
    <3>2. call' \in Way
      BY <2>2, <3>1 DEF Way
    <3>3. /\ call'.stage = "decide" /\ call'.todo = crew2 /\ call'.by = call.by
          /\ call'.its = call.its /\ call'.asked = call.asked /\ call'.parent = call.parent
          /\ call'.forked = call.forked /\ call'.token = call.token
             /\ call'.dialled = call.dialled
          /\ call'.minted = call.minted
      BY <2>2, <3>1 DEF Way
    <3>4. call.asked.verb \in C!Fanned
      BY <1>0, <2>1 DEF CallCopies, Under
    <3>5. CallCopies'
      BY <1>0, <2>1, <3>2, <3>3, <3>4 DEF CallCopies, Under
    <3>6. CallCurrent'
      BY <1>0, <1>2, <2>1, <3>3 DEF CallCurrent, Under
    <3>7. QED
      BY <1>5, <2>1, <3>5, <3>6
  <2>5. QED
    BY <2>3, <2>4
<1>9. ASSUME NEW w \in Callers \cup {"bad"}, C!Decide(w)
      PROVE  CallInv'
  <2>1. call.stage = "decide" /\ w \in call.todo /\ UNCHANGED last /\ Under
    BY <1>9 DEF C!Decide, Under
  <2>2. call \in Way
    BY <1>0, <2>1 DEF CallCopies, Under
  <2>3. CASE C!Refusal(call, w) # ""
    <3>1. call' = C!Left(w)
      BY <1>9, <2>3 DEF C!Decide
    <3>2. QED
      BY <1>0, <1>2, <1>5, <2>1, <3>1, CallLeaves
  <2>4. CASE C!Refusal(call, w) = ""
    <3>1. call' = [call EXCEPT !.stage = "dial", !.dialled = w, !.token = C!Token(call, w)]
      BY <1>9, <2>4 DEF C!Decide
    <3>2. w \in Callers /\ Passed(w)
      BY <2>4 DEF C!Refusal, Passed
    <3>3. C!Token(call, w) \in Secretly
      BY <2>2, <3>2 DEF C!Token, Way, Secretly
    <3>4. C!Token(call, w) # NoKey =>
            C!Token(call, w).made = <<call.by, call.its>> /\ C!Token(call, w).whom = w
      BY <1>0, <2>1, <3>2 DEF C!Token, CallCopies
    <3>5. call' \in Way
      BY <2>2, <3>1, <3>2, <3>3 DEF Way
    <3>6. /\ call'.stage = "dial" /\ call'.dialled = w /\ call'.token = C!Token(call, w)
          /\ call'.by = call.by /\ call'.its = call.its /\ call'.asked = call.asked
          /\ call'.parent = call.parent /\ call'.forked = call.forked /\ call'.todo = call.todo
          /\ call'.minted = call.minted
      BY <2>2, <3>1 DEF Way
    <3>7. CallCopies'
      BY <1>0, <2>1, <3>4, <3>5, <3>6 DEF CallCopies, Under
    <3>8. Passed(w)' /\ C!Token(call, w)' = C!Token(call, w)
      <4>1. C!Standing(call)' = C!Standing(call) /\ C!Stands(call, w)' = C!Stands(call, w)
        BY <1>2, <3>6 DEF C!Stands, C!Standing
      <4>2. QED
        BY <3>2, <3>6, <4>1 DEF Passed, C!Token, C!Decided
    <3>9. CallCurrent'
      BY <1>0, <1>2, <2>1, <3>6, <3>8 DEF CallCurrent, Under
    <3>10. QED
      BY <1>5, <2>1, <3>7, <3>9
  <2>5. QED
    BY <2>3, <2>4
<1>10. QED
  BY <1>4, <1>6, <1>7, <1>8, <1>9, CallKindsHold

\* Who calls is known by its name to everybody but whoever has that name itself.
LEMMA CallerOf ==
  ASSUME NEW verb, NEW w \in Callers, NEW kin \in {"session", "stranger"}, NEW by \in Callers
  PROVE  C!Caller(verb, w, kin, by) = IF by # w THEN by ELSE IF kin = "session" THEN w
           ELSE Nobody
BY CallKindsHold DEF C!Caller

\* How one stands to the other is read off two names, the notes of each and the tops of their
\* branches.
LEMMA CallWhom ==
  ASSUME NEW x, NEW p
  PROVE  /\ C!Whom(above, of, x).id = x /\ C!Whom(above, of, x).parent = above[x]
         /\ [C!Whom(above, of, x) EXCEPT !.parent = p].id = x
         /\ [C!Whom(above, of, x) EXCEPT !.parent = p].parent = p
         /\ p = above[x] => [C!Whom(above, of, x) EXCEPT !.parent = p] = C!Whom(above, of, x)
BY DEF C!Whom

\* A stop is done for who proves itself, and so is a role, but for a session's own.
LEMMA AnsweredFor ==
  ASSUME NEW w \in Callers, NEW verb, NEW kin \in {"session", "stranger"}, NEW by \in Callers,
           NEW shownKey
  PROVE  /\ C!Answer(w, verb, kin, by, shownKey) \in {"", "nobody", "own", "unproven", "wall", "graft"}
         /\ C!Answer(w, verb, kin, by, shownKey) = "" /\ verb = "stop" => C!Proven(w, shownKey)
         /\ C!Answer(w, verb, kin, by, shownKey) = "" /\ verb = "role" => C!Proven(w, shownKey)
            \/ kin = "session"
<1> DEFINE x == C!Caller(verb, w, kin, by)
           me == [C!Whom(above, of, w) EXCEPT !.parent = starter[w]]
           caller == C!Whom(above, of, x)
<1>1. me.id = w /\ caller.id = x
  BY CallWhom
<1>2. C!Between(me, caller) = "myself" => x = w
  <2> HIDE DEF x, me, caller
  <2>1. QED
    BY <1>1 DEF C!Between
<1>3. x = w => kin = "session" \/ x = Nobody
  BY CallerOf
<1> HIDE DEF x, me, caller
<1>4. C!Answer(w, verb, kin, by, shownKey) =
        IF verb \in C!Anybody THEN ""
        ELSE IF x = Nobody THEN "nobody"
        ELSE IF verb \in C!OwnOnly /\ C!Between(me, caller) # "myself" THEN "own"
        ELSE IF verb = "role" /\ ~(\/ C!Between(me, caller) = "myself"
                                   \/ C!Between(caller, me) = "child"
                                      /\ C!Proven(w, shownKey)) THEN "unproven"
        ELSE IF verb # "tool" /\ ~C!May(caller, C!Between(caller, me), verb) THEN "wall"
        ELSE IF verb = "adopt" /\ ~C!Adoptable(above, serving, w, x, 0) THEN "graft"
        ELSE IF verb = "stop" /\ ~C!Proven(w, shownKey) THEN "unproven"
        ELSE ""
  BY DEF C!Answer, x, me, caller
<1>5. C!Answer(w, verb, kin, by, shownKey) \in {"", "nobody", "own", "unproven", "wall", "graft"}
  BY <1>4
<1>6. C!Answer(w, verb, kin, by, shownKey) = "" /\ verb = "stop" => C!Proven(w, shownKey)
  BY <1>4 DEF C!Anybody
<1>7. C!Answer(w, verb, kin, by, shownKey) = "" /\ verb = "role" => C!Proven(w, shownKey)
        \/ kin = "session"
  BY <1>2, <1>3, <1>4 DEF C!Anybody
<1>8. QED
  BY <1>5, <1>6, <1>7

\* The two ends put the same question: what the near end found right is not refused for who
\* calls.
LEMMA GatesMeet ==
  ASSUME CallInv, Under, call.stage = "dial", NEW w \in serving, w = call.dialled,
           last.changes = 0,
         starter[w] = above[w], ~C!Ring(w), NEW kin \in {"session", "stranger"},
         kin = "session" <=> w = call.by /\ C!Vouched,
         C!Answer(w, C!Frame(C!Decided(call.asked)), kin, call.by, call.token) \in {"nobody", "own", "wall", "unproven"}
  PROVE  /\ C!Answer(w, C!Frame(C!Decided(call.asked)), kin, call.by, call.token) = "unproven"
         /\ call.token = NoKey
<1> DEFINE v == C!Decided(call.asked)
           verb == C!Frame(v)
           by == call.by
           me == C!Whom(above, of, w)
           caller == C!Whom(above, of, by)
           theirs == C!Between(caller, me)
<1>0. CallSecrets /\ CallCopies /\ CallCurrent
  BY DEF CallInv
<1>1. call \in Way /\ by \in Callers /\ by \in serving /\ nth[by] = call.its /\ w \in Callers
  BY <1>0 DEF CallCopies, CallCurrent, CallSecrets, Way
<1>2. /\ call.parent = above[by] /\ call.forked = C!Children(above, serving, by)
      /\ call.minted = kept[by] /\ Passed(w) /\ call.token = C!Token(call, w)
  BY <1>0 DEF CallCurrent
<1>3. C!Caller(verb, w, kin, by) = by
  BY <1>1, CallerOf DEF C!Vouched
<1>4. [C!Whom(above, of, w) EXCEPT !.parent = starter[w]] = me /\ C!Standing(call) = caller
  BY <1>2, CallWhom DEF C!Standing
<1>5. me.id = w /\ me.parent = above[w] /\ caller.id = by /\ caller.parent = above[by]
  BY CallWhom
<1>6. C!Stands(call, w) = theirs
  <2>1. CASE w \in call.forked
    <3>1. w # by /\ above[w] = by /\ above[by] # w
      BY <1>2, <2>1 DEF C!Children, C!Ring
    <3>2. theirs = "child"
      <4> HIDE DEF me, caller
      <4>1. QED
        BY <1>5, <3>1 DEF C!Between
    <3>3. QED
      BY <2>1, <3>2 DEF C!Stands
  <2>2. CASE w \notin call.forked
    BY <1>4, <2>2 DEF C!Stands
  <2>3. QED
    BY <2>1, <2>2
<1>7. theirs = "child" => above[w] = by
  <2> HIDE DEF me, caller
  <2>1. QED
    BY <1>5 DEF C!Between
<1>8. above[w] = by => kept[by][w] \in {secret[w], lent[w], NoKey}
  BY <1>0, <1>1 DEF CallSecrets
<1>9. v = "assign" => theirs = "child"
  BY <1>2, <1>6 DEF Passed
<1>10. C!May(caller, theirs, v)
  BY <1>2, <1>4, <1>6 DEF Passed
<1>11. v = "role" => w = by /\ C!Between(me, caller) = "myself"
  <2>1. ASSUME v = "role"
        PROVE  w = by
    <3>1. call.asked.verb = "role"
      BY <2>1 DEF C!Decided
    <3>2. call.todo \subseteq {C!Aim(call.asked, by)}
      BY <1>0, <3>1 DEF CallCopies, C!Fanned
    <3>3. C!Aim(call.asked, by) = by /\ w \in call.todo
      BY <1>0, <3>1 DEF C!Aim, CallCopies
    <3>4. QED
      BY <3>2, <3>3
  <2>2. w = by => C!Between(me, caller) = "myself"
    <3> HIDE DEF me, caller
    <3>1. QED
      BY <1>5 DEF C!Between
  <2>3. QED
    BY <2>1, <2>2
<1>12. /\ verb = "stop" <=> v = "stop"
       /\ verb = "role" <=> v \in {"role", "assign"}
       /\ verb \notin C!OwnOnly
  BY DEF C!Frame, C!NamesARole, C!OwnOnly
<1>13. C!May(caller, theirs, verb)
  BY <1>10, <1>12 DEF C!May
<1>14. v = "stop" => theirs = "child"
  BY <1>10 DEF C!May, C!MayStop
<1>15. v \in {"stop", "assign"} => call.token = kept[by][w]
  BY <1>2 DEF C!Token
<1>16. v \in {"stop", "assign"} /\ call.token # NoKey => C!Proven(w, call.token)
  BY <1>7, <1>8, <1>9, <1>14, <1>15 DEF C!Proven
<1> DEFINE why == C!Answer(w, verb, kin, by, call.token)
<1>17. why = IF verb \in C!Anybody THEN ""
             ELSE IF by = Nobody THEN "nobody"
             ELSE IF verb \in C!OwnOnly /\ C!Between(me, caller) # "myself" THEN "own"
             ELSE IF verb = "role" /\ ~(\/ C!Between(me, caller) = "myself"
                                        \/ theirs = "child"
                                           /\ C!Proven(w, call.token)) THEN "unproven"
             ELSE IF verb # "tool" /\ ~C!May(caller, theirs, verb) THEN "wall"
             ELSE IF verb = "adopt" /\ ~C!Adoptable(above, serving, w, by, 0) THEN "graft"
             ELSE IF verb = "stop" /\ ~C!Proven(w, call.token) THEN "unproven"
             ELSE ""
  BY <1>3, <1>4 DEF C!Answer
<1>18. why \in {"nobody", "own", "wall", "unproven"}
  OBVIOUS
<1> HIDE DEF me, caller, theirs, v, verb, by, why
<1>19. why = "unproven" /\ call.token = NoKey
  <2>1. by # Nobody
    BY <1>1, CallKindsHold
  <2>2. why # "nobody" /\ why # "own" /\ why # "wall"
    BY <1>12, <1>13, <1>17, <2>1
  <2>3. why = "unproven"
    BY <1>18, <2>2
  <2>4. ASSUME call.token # NoKey
        PROVE  FALSE
    <3>1. CASE v = "role"
      BY <1>11, <1>12, <1>17, <2>3, <3>1
    <3>2. CASE v \in {"stop", "assign"}
      BY <1>9, <1>12, <1>16, <1>17, <2>3, <2>4, <3>2
    <3>3. CASE v \notin {"role", "stop", "assign"}
      BY <1>12, <1>17, <2>3, <3>3
    <3>4. QED
      BY <3>1, <3>2, <3>3
  <2>5. QED
    BY <2>3, <2>4
<1>20. QED
  BY <1>19 DEF why, verb, v, by

\* The far end keeps it: what is done is the caller's own to have done, and the gates agree.
LEMMA CallFar ==
  ASSUME CallInv, NEW w \in Callers, C!Carry(w)
  PROVE  CallInv'
<1>0. CallSecrets /\ CallCopies /\ CallCurrent
  BY DEF CallInv
<1>1. call.stage = "dial" /\ w = call.dialled /\ Under /\ call' = C!Left(w)
  BY DEF C!Carry, Under
<1>2. call \in Way /\ w \in call.todo
  BY <1>0, <1>1 DEF CallCopies
<1>3. CASE w \notin serving
  <2>1. UNCHANGED C!sessions /\ UNCHANGED last
    BY <1>3 DEF C!Carry
  <2>2. UNCHANGED <<above, of, serving, nth, secret, lent, starter, kept>>
    BY <2>1 DEF C!sessions
  <2>3. CallSecrets'
    BY <1>0, <2>2 DEF CallSecrets
  <2>4. CallCopies' /\ CallCurrent'
    BY <1>0, <1>1, <1>2, <2>1, <2>2, CallLeaves
  <2>5. QED
    BY <2>1, <2>3, <2>4 DEF CallInv, C!OnlyItsOwn, C!GatesAgree
<1>4. CASE w \in serving
  <2> DEFINE verb == C!Frame(C!Decided(call.asked))
             odd == starter[w] # above[w] \/ C!Ring(w)
  <2>1. PICK kin \in {"session", "stranger"} : kin = IF w = call.by /\ C!Vouched THEN "session"
          ELSE "stranger"
    OBVIOUS
  <2>2. PICK why : why = C!Answer(w, verb, kin, call.by, call.token)
    OBVIOUS
  <2>3. /\ last' = [did |-> IF why = "" THEN verb ELSE why, changes |-> last.changes, odd |-> odd,
                    on |-> w, its |-> nth[w], kin |-> kin, by |-> <<call.by, call.its>>,
                      token |-> call.token]
        /\ IF verb = "stop" /\ why = "" THEN C!Gone(w) ELSE UNCHANGED C!sessions
    BY <1>4, <2>1, <2>2 DEF C!Carry
  <2>4. call.by \in Callers /\ call.its \in Nat /\ call.token \in Secretly
    BY <1>2 DEF Way
  <2>5. /\ why \in {"", "nobody", "own", "unproven", "wall", "graft"}
        /\ why = "" /\ verb = "stop" => C!Proven(w, call.token)
        /\ why = "" /\ verb = "role" => C!Proven(w, call.token) \/ kin = "session"
    <3> HIDE DEF verb
    <3>1. QED
      BY <2>2, <2>4, AnsweredFor
  <2>6. verb \in {"identity", "status", "verbs", "stop", "adopt", "role", "tell"}
    BY DEF C!Frame
  <2>7. starter[w] = above[w] /\ ~C!Ring(w) /\ last.changes = 0
        /\ why \in {"nobody", "own", "wall", "unproven"} => why = "unproven"
           /\ call.token = NoKey
    BY <1>1, <1>4, <2>1, <2>2, GatesMeet
  <2>8. odd \in BOOLEAN /\ (~odd => starter[w] = above[w] /\ ~C!Ring(w))
    BY DEF C!Ring
  <2>9. last.changes \in Nat
    BY DEF CallInv, Noted, Did
  <2> HIDE DEF verb, odd
  <2>10. C!Proven(w, call.token) =>
           /\ call.token # NoKey /\ call.token.made = <<call.by, call.its>>
           /\ call.token.whom = w /\ call.token.its = nth[w]
    BY <1>0, <1>1 DEF CallSecrets, CallCopies, C!Proven
  <2>11. /\ last' \in Did /\ last'.did = (IF why = "" THEN verb ELSE why)
            /\ last'.changes = last.changes
         /\ (last'.odd <=> odd) /\ last'.on = w /\ last'.its = nth[w] /\ last'.kin = kin
         /\ last'.by = <<call.by, call.its>> /\ last'.token = call.token
    <3>1. (IF why = "" THEN verb ELSE why) \in Outcomes /\ nth[w] \in Nat
      BY <1>0, <2>5, <2>6 DEF CallSecrets, Outcomes
    <3>2. QED
      BY <2>3, <2>4, <2>8, <2>9, <3>1 DEF Did
  <2>12. C!OnlyItsOwn'
    <3>1. last'.did = "stop" => C!Proven(w, call.token)
      BY <2>5, <2>11
    <3>2. last'.did = "role" => C!Proven(w, call.token) \/ last'.kin = "session"
      BY <2>5, <2>11
    <3>3. QED
      BY <2>10, <2>11, <3>1, <3>2 DEF C!OnlyItsOwn
  <2>13. C!GatesAgree'
    <3>1. last'.did \in {"nobody", "own", "wall", "unproven"} => why = last'.did
      BY <2>6, <2>11
    <3>2. QED
      BY <2>7, <2>8, <2>11, <3>1 DEF C!GatesAgree
  <2>14. CASE verb = "stop" /\ why = ""
    <3>1. C!Gone(w)
      BY <2>3, <2>14
    <3>2. CallSecrets'
      BY <1>0, <3>1, CallGone
    <3>3. call.todo = {w}
      <4>1. C!Decided(call.asked) = "stop"
        BY <2>14 DEF verb, C!Frame, C!NamesARole
      <4>2. call.asked.verb \in {"stop", "disband"}
        BY <4>1 DEF C!Decided
      <4>3. call.todo \subseteq {C!Aim(call.asked, call.by)}
        BY <1>0, <1>1, <4>2 DEF CallCopies, C!Fanned
      <4>4. QED
        BY <1>2, <4>3
    <3>4. call'.stage = "over"
      BY <1>1, <3>3 DEF C!Left, C!Over
    <3>5. CallCopies' /\ CallCurrent'
      BY <3>4 DEF CallCopies, CallCurrent, Under
    <3>6. QED
      BY <2>11, <2>12, <2>13, <3>2, <3>5 DEF CallInv
  <2>15. CASE ~(verb = "stop" /\ why = "")
    <3>1. UNCHANGED C!sessions
      BY <2>3, <2>15
    <3>2. UNCHANGED <<above, of, serving, nth, secret, lent, starter, kept>>
      BY <3>1 DEF C!sessions
    <3>3. CallSecrets'
      BY <1>0, <3>2 DEF CallSecrets
    <3>4. last'.changes = last.changes
      BY <2>11
    <3>5. CallCopies' /\ CallCurrent'
      BY <1>0, <1>1, <1>2, <3>2, <3>4, CallLeaves
    <3>6. QED
      BY <2>11, <2>12, <2>13, <3>3, <3>5 DEF CallInv
  <2>16. QED
    BY <2>14, <2>15
<1>5. QED
  BY <1>3, <1>4

\* Every step there is keeps it.
LEMMA CallStep == CallInv /\ C!Next => CallInv'
<1> SUFFICES ASSUME CallInv, C!Next
             PROVE  CallInv'
  OBVIOUS
<1>1. CASE \/ \E x \in Callers : C!Rise(x) \/ C!Tick(x) \/ C!End(x)
           \/ \E p, c \in Callers : C!Fork(p, c) \/ C!Graft(p, c)
  BY <1>1, CallPasses
<1>2. CASE \/ \E one \in Asked : C!Ask(one[1], one[2])
           \/ C!CopyNotes \/ C!CopyMinted \/ C!Fan
              \/ \E w \in Callers \cup {"bad"} : C!Decide(w)
  BY <1>2, CallNear
<1>3. CASE \E w \in Callers : C!Carry(w)
  BY <1>3, CallFar
<1>4. QED
  BY <1>1, <1>2, <1>3 DEF C!Next

\* That a session's surface is its own is so whatever the notes say.
LEMMA SurfaceIsOwn == serving \subseteq Callers => C!OwnSurface
<1> SUFFICES ASSUME serving \subseteq Callers, NEW w \in serving, NEW verb \in C!OwnOnly,
                    NEW kin \in {"session", "spawner", "stranger"},
                      NEW claimed \in Callers \cup {Nobody},
                    C!Answer(w, verb, kin, claimed, NoKey) = ""
             PROVE  (kin = "session" \/ (kin = "spawner" /\ verb = "mint")) /\ claimed \in {w,
                      Nobody}
  BY DEF C!OwnSurface
<1> DEFINE x == C!Caller(verb, w, kin, claimed)
           me == [C!Whom(above, of, w) EXCEPT !.parent = starter[w]]
           caller == C!Whom(above, of, x)
<1>1. me.id = w /\ caller.id = x
  BY CallWhom
<1>2. x # Nobody /\ C!Between(me, caller) = "myself"
  BY DEF C!Answer, C!OwnOnly, C!Anybody
<1>3. x = w
  <2> HIDE DEF x, me, caller
  <2>1. QED
    BY <1>1, <1>2 DEF C!Between
<1>4. QED
  BY <1>3, CallKindsHold DEF C!Caller

\* The invariant holds of every call in the run of the six parts.
LEMMA CallsHold == Stands => []CallInv
<1>1. Begins => CallInv
  BY CallBegins DEF Begins
<1>2. CallInv /\ [Goes]_<<part, vars, rosterVars, branching, calling, asking, naming>> =>
        CallInv'
  <2> SUFFICES ASSUME CallInv, [Goes]_<<part, vars, rosterVars, branching, calling, asking, naming>>
               PROVE  CallInv'
    OBVIOUS
  <2>1. CASE C!Next
    BY <2>1, CallStep
  <2>2. CASE UNCHANGED calling
    <3>1. UNCHANGED <<above, of, serving, nth, secret, lent, starter, kept, call, last>>
      BY <2>2 DEF calling
    <3>2. CallSecrets'
      BY <3>1 DEF CallInv, CallSecrets
    <3>3. CallCopies'
      BY <3>1 DEF CallInv, CallCopies, Under
    <3>4. CallCurrent'
      <4>1. \A w : Passed(w)' = Passed(w) /\ C!Token(call, w)' = C!Token(call, w)
        BY <3>1 DEF Passed, C!Stands, C!Standing, C!Token
      <4>2. QED
        BY <3>1, <4>1 DEF CallInv, CallCurrent, Under
    <3>5. QED
      BY <3>1, <3>2, <3>3, <3>4 DEF CallInv, C!OnlyItsOwn, C!GatesAgree
  <2>3. QED
    BY <2>1, <2>2 DEF Goes
<1>3. QED
  BY <1>1, <1>2, PTL DEF Stands

\* For any sessions, and whatever they call for: what the near end lets through is not refused
\* by
\* the far end for who is calling, unless somebody came, went or was taken on meanwhile or the
\* two
\* are a ring (decide in verbs/doing.rs, answer in answering.rs).
THEOREM TheGatesAgree == Stands => []GatesAgree
<1>1. CallInv => GatesAgree
  BY DEF CallInv, GatesAgree
<1>2. QED
  BY <1>1, CallsHold, PTL

----------------------------------------------------------------------------
\* Roles.

Called == {role.name : role \in Records}
Doing == {N!Idle} \cup [does : {"tells"}, role : Records]
                  \cup [does : {"shows"}, name : Called, changed : BOOLEAN]

RoleShape ==
  /\ N!TypeOK /\ launch \in Records /\ sayings \subseteq Records /\ broken \in BOOLEAN
     /\ copy \in Called
  /\ conns \in [Connections -> Doing] /\ order \in [Connections -> Records \cup {Nowhere}]

\* A session that is not served yet, or any more, does nothing, and was told nothing but what it
\* was launched for.
RoleQuiet ==
  /\ coming # "serving" =>
       words = <<>> /\ taking = Nowhere /\ conns = [c \in Connections |-> N!Idle]
         /\ shown = N!Unshown
  /\ coming \in {"bound", "writing"} =>
       sayings = {launch} /\ copy = launch.name /\ order = [c \in Connections |-> Nowhere]
         /\ ~broken

\* What is on its way to the note was said, and so was what is in it.
RoleSaid ==
  /\ \A i \in 1..Len(words) : words[i] \in sayings
  /\ taking \in sayings \cup {Nowhere}
  /\ coming = "serving" => roleNote \in sayings \cup {N!Torn}
  /\ coming = "serving" /\ taking = Nowhere /\ ~broken => roleNote \in sayings
     /\ roleNote.name = copy

\* The last word that was handed on is at the end of the queue, or with the loop, or in the
\* note.
Latest == IF words # <<>> THEN words[Len(words)] ELSE IF taking # Nowhere THEN taking
  ELSE roleNote
RoleLast ==
  /\ \A c \in Connections : conns[c].does = "tells" => order[c] = conns[c].role
  /\ coming = "serving" /\ ~broken =>
       \A c \in Connections :
         /\ order[c] # Nowhere /\ conns[c].does # "tells"
         /\ \A d \in Connections \ {c} : order[d] = Nowhere
         => Latest = order[c]

\* An identity that saw no change has the name that is in the note.
RoleShows ==
  /\ \A c \in Connections : conns[c].does = "shows" /\ ~conns[c].changed /\ ~broken =>
       coming = "serving" /\ taking = Nowhere /\ roleNote.name = conns[c].name
  /\ N!ShownWhole

RoleInv == RoleShape /\ RoleQuiet /\ RoleSaid /\ RoleLast /\ RoleShows

\* What a connection may be doing.
LEMMA Doings ==
  ASSUME NEW it \in Doing
  PROVE  /\ it.does \in {"nothing", "tells", "shows"}
         /\ it.does = "tells" => it.role \in Records
         /\ it.does = "shows" => it.name \in Called /\ it.changed \in BOOLEAN
BY DEF Doing, N!Idle

\* It may always be doing nothing, or telling, or showing.
LEMMA Done ==
  /\ N!Idle \in Doing /\ N!Idle.does = "nothing"
  /\ \A role \in Records : [does |-> "tells", role |-> role] \in Doing
  /\ \A name \in Called, odd \in BOOLEAN : [does |-> "shows", name |-> name, changed |-> odd] \in Doing
BY DEF Doing, N!Idle

\* A change is seen by whoever shows, and by nobody else.
LEMMA Seen ==
  ASSUME NEW it \in Doing, it.does = "shows"
  PROVE  /\ [it EXCEPT !.changed = TRUE] \in Doing
         /\ [it EXCEPT !.changed = TRUE].does = "shows"
         /\ [it EXCEPT !.changed = TRUE].changed
<1> DEFINE tells == [does : {"tells"}, role : Records]
           shows == [does : {"shows"}, name : Called, changed : BOOLEAN]
<1> HIDE DEF tells, shows
<1>1. it \in shows
  <2>1. it # N!Idle
    BY DEF N!Idle
  <2>2. it \notin tells
    BY DEF tells
  <2>3. it \in {N!Idle} \cup tells \cup shows
    BY DEF Doing, tells, shows
  <2>4. QED
    BY <2>1, <2>2, <2>3
<1>2. [it EXCEPT !.changed = TRUE] \in shows
  BY <1>1 DEF shows
<1>3. [it EXCEPT !.changed = TRUE].does = "shows"
  BY <1>1 DEF shows
<1>4. [it EXCEPT !.changed = TRUE].changed
  BY <1>1 DEF shows
<1>5. QED
  BY <1>2, <1>3, <1>4 DEF Doing, shows

\* What the assumption of the run says of the constants of the roles.
LEMMA RoleKindsHold ==
  /\ Plain \in Records /\ Nowhere \notin Records /\ Room \in Nat \ {0}
  /\ Tellings \in Nat /\ Holders \in Nat
  /\ N!Torn \notin Records
<1>1. N!RoleKinds
  BY CallPartKinds
<1>2. N!Torn.name = ""
  BY DEF N!Torn
<1>3. QED
  BY <1>1, <1>2 DEF N!RoleKinds

\* What is said of the roles holds at the start.
LEMMA RoleBegins == N!Init => RoleInv
<1> SUFFICES ASSUME N!Init
             PROVE  RoleInv
  OBVIOUS
<1>1. Plain.name \in Called /\ N!Idle \in Doing /\ N!Idle.does = "nothing"
  BY Done, RoleKindsHold DEF Called
<1>2. /\ coming = "down" /\ nthNamed = 0 /\ roleNote = Nowhere /\ launch = Plain
         /\ copy = Plain.name
      /\ words = <<>> /\ taking = Nowhere /\ conns = [c \in Connections |-> N!Idle]
      /\ count = 0 /\ shown = N!Unshown
      /\ sayings = {} /\ order = [c \in Connections |-> Nowhere] /\ broken = FALSE
  BY DEF N!Init
<1>3. N!TypeOK
  BY <1>2, RoleKindsHold DEF N!TypeOK
<1>4. conns \in [Connections -> Doing] /\ order \in [Connections -> Records \cup {Nowhere}]
  BY <1>1, <1>2
<1>5. RoleShape
  BY <1>1, <1>2, <1>3, <1>4, RoleKindsHold DEF RoleShape
<1>6. RoleQuiet /\ RoleSaid
  BY <1>2 DEF RoleQuiet, RoleSaid
<1>7. \A c \in Connections : conns[c].does = "nothing"
  BY <1>1, <1>2
<1>8. RoleLast /\ RoleShows
  BY <1>2, <1>7 DEF RoleLast, RoleShows, N!ShownWhole, N!Unshown
<1>9. QED
  BY <1>5, <1>6, <1>8 DEF RoleInv

\* A session comes up, or does not.
LEMMA RoleComes ==
  ASSUME RoleInv,
         \/ \E a, i, k \in Records \cup {Nowhere} : N!Bind(a, i, k)
         \/ N!Announce \/ N!Announced \/ N!AnnounceFails
  PROVE  RoleInv'
<1>0. RoleShape /\ RoleQuiet /\ RoleSaid /\ RoleLast /\ RoleShows
  BY DEF RoleInv
<1>1. CASE \E a, i, k \in Records \cup {Nowhere} : N!Bind(a, i, k)
  <2>1. PICK a, i, k \in Records \cup {Nowhere} : N!Bind(a, i, k)
    BY <1>1
  <2>2. N!Resolve(a, i, k) \in Records
    BY RoleKindsHold DEF N!Resolve
  <2>3. /\ coming = "down" /\ coming' = "bound" /\ nthNamed < Holders
           /\ nthNamed' = nthNamed + 1
        /\ launch' \in Records /\ copy' = launch'.name /\ sayings' = {launch'} /\ ~broken'
        /\ order' = [c \in Connections |-> Nowhere]
        /\ UNCHANGED <<roleNote, words, taking, conns, count, shown>>
    BY <2>1, <2>2 DEF N!Bind, N!local
  <2>4. words = <<>> /\ taking = Nowhere /\ conns = [c \in Connections |-> N!Idle]
          /\ shown = N!Unshown
    BY <1>0, <2>3 DEF RoleQuiet
  <2>5. RoleShape'
    <3>1. N!TypeOK'
      BY <1>0, <2>3, RoleKindsHold DEF RoleShape, N!TypeOK
    <3>2. copy' \in Called /\ sayings' \subseteq Records /\ broken' \in BOOLEAN
      BY <2>1, <2>3 DEF Called, N!Bind
    <3>3. order' \in [Connections -> Records \cup {Nowhere}]
      BY <2>3
    <3>4. conns' \in [Connections -> Doing]
      BY <1>0, <2>3 DEF RoleShape
    <3>5. QED
      BY <2>3, <3>1, <3>2, <3>3, <3>4 DEF RoleShape
  <2>6. RoleShows'
    BY <2>3, <2>4, Done DEF RoleShows, N!ShownWhole, N!Unshown
  <2>7. QED
    BY <2>3, <2>4, <2>5, <2>6, Done DEF RoleInv, RoleQuiet, RoleSaid, RoleLast
<1>2. CASE N!Announce
  <2>1. coming = "bound" /\ coming' = "writing" /\ roleNote' = N!Torn
        /\ UNCHANGED <<nthNamed, launch, copy, words, taking, conns, count, shown, sayings, order, broken>>
    BY <1>2 DEF N!Announce, N!local
  <2>2. RoleShape'
    BY <1>0, <2>1 DEF RoleShape, N!TypeOK
  <2>3. conns = [c \in Connections |-> N!Idle]
    BY <1>0, <2>1 DEF RoleQuiet
  <2>4. RoleShows'
    BY <1>0, <2>1, <2>3, Done DEF RoleShows, N!ShownWhole
  <2>5. QED
    BY <1>0, <2>1, <2>2, <2>3, <2>4, Done DEF RoleInv, RoleQuiet, RoleSaid, RoleLast
<1>3. CASE N!Announced
  <2>1. coming = "writing" /\ coming' = "serving" /\ roleNote' = launch
        /\ UNCHANGED <<nthNamed, launch, copy, words, taking, conns, count, shown, sayings, order, broken>>
    BY <1>3 DEF N!Announced, N!local
  <2>2. RoleShape'
    BY <1>0, <2>1 DEF RoleShape, N!TypeOK
  <2>3. /\ conns = [c \in Connections |-> N!Idle] /\ sayings = {launch} /\ copy = launch.name
        /\ order = [c \in Connections |-> Nowhere]
    BY <1>0, <2>1 DEF RoleQuiet
  <2>4. RoleShows'
    BY <1>0, <2>1, <2>3, Done DEF RoleShows, N!ShownWhole
  <2>5. QED
    BY <1>0, <2>1, <2>2, <2>3, <2>4, Done DEF RoleInv, RoleQuiet, RoleSaid, RoleLast
<1>4. CASE N!AnnounceFails
  <2>1. coming \in {"bound", "writing"} /\ coming' = "down"
        /\ UNCHANGED <<nthNamed, roleNote, launch, copy, words, taking, conns, count, shown, sayings, order, broken>>
    BY <1>4 DEF N!AnnounceFails, N!local
  <2>2. RoleShape'
    BY <1>0, <2>1 DEF RoleShape, N!TypeOK
  <2>3. conns = [c \in Connections |-> N!Idle]
    BY <1>0, <2>1 DEF RoleQuiet
  <2>4. RoleShows'
    BY <1>0, <2>1, <2>3, Done DEF RoleShows, N!ShownWhole
  <2>5. QED
    BY <1>0, <2>1, <2>2, <2>3, <2>4, Done DEF RoleInv, RoleQuiet, RoleSaid, RoleLast
<1>5. QED
  BY <1>1, <1>2, <1>3, <1>4

\* It goes, or what it left is swept away.
LEMMA RoleGoes ==
  ASSUME RoleInv, N!End \/ N!Killed \/ N!Swept
  PROVE  RoleInv'
<1>0. RoleShape /\ RoleQuiet /\ RoleSaid /\ RoleLast /\ RoleShows
  BY DEF RoleInv
<1>1. CASE N!End \/ N!Killed
  <2>1. /\ coming' = "down" /\ roleNote' \in {roleNote, Nowhere} /\ words' = <<>>
           /\ taking' = Nowhere
        /\ conns' = [c \in Connections |-> N!Idle] /\ count' = 0 /\ shown' = N!Unshown
        /\ UNCHANGED <<nthNamed, launch, copy, sayings, order, broken>>
    BY <1>1 DEF N!End, N!Killed, N!Quiet
  <2>2. RoleShape'
    BY <1>0, <2>1, Done, RoleKindsHold DEF RoleShape, N!TypeOK
  <2>3. RoleShows'
    BY <2>1, Done DEF RoleShows, N!ShownWhole, N!Unshown
  <2>4. QED
    BY <2>1, <2>2, <2>3, Done DEF RoleInv, RoleQuiet, RoleSaid, RoleLast
<1>2. CASE N!Swept
  <2>1. /\ coming = "down" /\ roleNote' = Nowhere
        /\ UNCHANGED <<coming, nthNamed, launch, copy, words, taking, conns, count, shown, sayings, order, broken>>
    BY <1>2 DEF N!Swept, N!local
  <2>2. RoleShape'
    BY <1>0, <2>1 DEF RoleShape, N!TypeOK
  <2>3. conns = [c \in Connections |-> N!Idle]
    BY <1>0, <2>1 DEF RoleQuiet
  <2>4. RoleShows'
    BY <1>0, <2>1, <2>3, Done DEF RoleShows, N!ShownWhole
  <2>5. QED
    BY <1>0, <2>1, <2>2, <2>3, <2>4, Done DEF RoleInv, RoleQuiet, RoleSaid, RoleLast
<1>3. QED
  BY <1>1, <1>2

\* A role is said, and handed on.
LEMMA RoleTold ==
  ASSUME RoleInv, NEW c \in Connections, (\E role \in Records : N!Told(c, role)) \/ N!Deliver(c)
  PROVE  RoleInv'
<1>0. RoleShape /\ RoleQuiet /\ RoleSaid /\ RoleLast /\ RoleShows
  BY DEF RoleInv
<1>1. conns \in [Connections -> Doing] /\ order \in [Connections -> Records \cup {Nowhere}]
      /\ words \in Seq(Records) /\ Len(words) \in Nat
  BY <1>0 DEF RoleShape, N!TypeOK
<1>2. CASE \E role \in Records : N!Told(c, role)
  <2>1. PICK role \in Records : N!Told(c, role)
    BY <1>2
  <2> DEFINE telling == [does |-> "tells", role |-> role]
  <2>2. telling \in Doing /\ telling.does = "tells" /\ telling.role = role
    BY Done
  <2>3. /\ coming = "serving" /\ conns[c].does = "nothing" /\ count < Tellings
           /\ count' = count + 1
        /\ conns' = [conns EXCEPT ![c] = telling] /\ order' = [order EXCEPT ![c] = role]
        /\ UNCHANGED <<coming, nthNamed, roleNote, launch, copy, words, taking, shown, sayings, broken>>
    BY <2>1 DEF N!Told
  <2> HIDE DEF telling
  <2>4. RoleShape'
    BY <1>0, <2>2, <2>3, RoleKindsHold DEF RoleShape, N!TypeOK
  <2>5. role # Nowhere
    BY RoleKindsHold
  <2>6. RoleLast'
    BY <1>0, <1>1, <2>2, <2>3, <2>5 DEF RoleLast, Latest
  <2>7. RoleShows'
    BY <1>0, <1>1, <2>2, <2>3 DEF RoleShows, N!ShownWhole
  <2>8. QED
    BY <1>0, <2>3, <2>4, <2>6, <2>7 DEF RoleInv, RoleQuiet, RoleSaid
<1>3. CASE N!Deliver(c)
  <2> DEFINE role == conns[c].role
  <2>1. conns[c].does = "tells" /\ role \in Records
    BY <1>1, <1>3, Doings DEF N!Deliver
  <2>2. /\ Len(words) < Room /\ words' = Append(words, role)
           /\ conns' = [conns EXCEPT ![c] = N!Idle]
        /\ sayings' = sayings \cup {role}
        /\ UNCHANGED <<coming, nthNamed, roleNote, launch, copy, taking, count, shown, order, broken>>
    BY <1>3 DEF N!Deliver
  <2>3. coming = "serving"
    BY <1>0, <2>1, Done DEF RoleQuiet
  <2>4. order[c] = role /\ role # Nowhere
    BY <1>0, <2>1, RoleKindsHold DEF RoleLast
  <2> HIDE DEF role
  <2>5. /\ words' \in Seq(Records) /\ Len(words') = Len(words) + 1 /\ words' # <<>>
        /\ words'[Len(words')] = role /\ \A i \in 1..Len(words) : words'[i] = words[i]
    BY <1>1, <2>1, <2>2
  <2>6. RoleShape'
    BY <1>0, <2>1, <2>2, <2>5, Done, RoleKindsHold DEF RoleShape, N!TypeOK
  <2>7. RoleSaid'
    BY <1>0, <1>1, <2>2, <2>5 DEF RoleSaid
  <2>8. RoleLast'
    <3>1. Latest' = role
      BY <2>5 DEF Latest
    <3>2. \A d \in Connections : conns'[d].does = "tells" => d # c /\ conns'[d] = conns[d]
      BY <1>1, <2>2, Done
    <3>3. QED
      BY <1>0, <2>2, <2>4, <3>1, <3>2 DEF RoleLast
  <2>9. RoleShows'
    <3>1. \A d \in Connections : conns'[d].does = "shows" => conns'[d] = conns[d]
      BY <1>1, <2>2, Done
    <3>2. QED
      BY <1>0, <2>2, <3>1 DEF RoleShows, N!ShownWhole
  <2>10. QED
    BY <1>0, <2>2, <2>3, <2>6, <2>7, <2>8, <2>9 DEF RoleInv, RoleQuiet
<1>4. QED
  BY <1>2, <1>3

\* An identity is put together, and shown.
LEMMA RoleShown ==
  ASSUME RoleInv, NEW c \in Connections, N!Identify(c) \/ N!Show(c)
  PROVE  RoleInv'
<1>0. RoleShape /\ RoleQuiet /\ RoleSaid /\ RoleLast /\ RoleShows
  BY DEF RoleInv
<1>1. conns \in [Connections -> Doing] /\ copy \in Called
  BY <1>0 DEF RoleShape
<1>2. CASE N!Identify(c)
  <2> DEFINE odd == taking # Nowhere
             showing == [does |-> "shows", name |-> copy, changed |-> odd]
  <2>1. showing \in Doing /\ showing.does = "shows" /\ showing.name = copy
          /\ (showing.changed <=> odd)
    <3>1. odd \in BOOLEAN
      OBVIOUS
    <3> HIDE DEF odd
    <3>2. QED
      BY <1>1, <3>1, Done
  <2>2. /\ coming = "serving" /\ conns[c].does = "nothing"
           /\ conns' = [conns EXCEPT ![c] = showing]
        /\ UNCHANGED <<coming, nthNamed, roleNote, launch, copy, words, taking, count, shown, sayings, order, broken>>
    BY <1>2 DEF N!Identify
  <2> HIDE DEF showing
  <2>3. RoleShape'
    BY <1>0, <2>1, <2>2 DEF RoleShape, N!TypeOK
  <2>4. RoleLast'
    <3>1. \A d \in Connections : (conns'[d].does = "tells" <=> conns[d].does = "tells")
                                 /\ (conns'[d].does = "tells" => conns'[d] = conns[d])
      BY <1>1, <2>1, <2>2
    <3>2. QED
      BY <1>0, <2>2, <3>1 DEF RoleLast, Latest
  <2>5. RoleShows'
    <3>1. \A d \in Connections : d # c => conns'[d] = conns[d]
      BY <1>1, <2>2
    <3>2. conns'[c] = showing
      BY <1>1, <2>2
    <3>3. showing.changed \/ broken \/ (taking = Nowhere /\ roleNote.name = copy)
      BY <1>0, <2>1, <2>2 DEF RoleSaid
    <3>4. QED
      BY <1>0, <2>1, <2>2, <3>1, <3>2, <3>3 DEF RoleShows, N!ShownWhole
  <2>6. QED
    BY <1>0, <2>2, <2>3, <2>4, <2>5 DEF RoleInv, RoleQuiet, RoleSaid
<1>3. CASE N!Show(c)
  <2>1. /\ conns[c].does = "shows" /\ conns' = [conns EXCEPT ![c] = N!Idle]
        /\ shown' = [name |-> conns[c].name, said |-> N!Reads.said, changed |-> conns[c].changed]
        /\ UNCHANGED <<coming, nthNamed, roleNote, launch, copy, words, taking, count, sayings, order, broken>>
    BY <1>3 DEF N!Show
  <2>2. coming = "serving"
    BY <1>0, <2>1, Done DEF RoleQuiet
  <2>3. RoleShape'
    BY <1>0, <2>1, Done DEF RoleShape, N!TypeOK
  <2>4. \A d \in Connections : conns'[d].does # "nothing" => conns'[d] = conns[d]
    BY <1>1, <2>1, Done
  <2>5. \A d \in Connections : conns[d].does = "tells" => conns'[d] = conns[d]
    BY <1>1, <2>1
  <2>6. RoleLast'
    BY <1>0, <2>1, <2>4, <2>5 DEF RoleLast, Latest
  <2>7. N!ShownWhole'
    <3>1. SUFFICES ASSUME ~shown'.changed, ~broken'
                   PROVE  \E role \in sayings' : shown'.name = role.name
                            /\ shown'.said = role.said
      BY DEF N!ShownWhole
    <3>2. ~conns[c].changed /\ ~broken
      BY <2>1, <3>1
    <3>3. taking = Nowhere /\ roleNote.name = conns[c].name
      BY <1>0, <2>1, <3>2 DEF RoleShows
    <3>4. roleNote \in sayings /\ roleNote \in Records
      BY <1>0, <2>2, <3>2, <3>3 DEF RoleSaid, RoleShape
    <3>5. N!Reads = roleNote
      BY <3>4, RoleKindsHold DEF N!Reads
    <3>6. shown'.name = roleNote.name /\ shown'.said = roleNote.said
      BY <2>1, <3>3, <3>5
    <3>7. QED
      BY <2>1, <3>4, <3>6
  <2>8. RoleShows'
    BY <1>0, <2>1, <2>4, <2>7 DEF RoleShows
  <2>9. QED
    BY <1>0, <2>1, <2>2, <2>3, <2>6, <2>8 DEF RoleInv, RoleQuiet, RoleSaid
<1>4. QED
  BY <1>2, <1>3

\* Whoever shows sees a change, and what the others do stays.
LEMMA RoleChange ==
  ASSUME conns \in [Connections -> Doing], N!Changes
  PROVE  /\ conns' \in [Connections -> Doing]
         /\ \A d \in Connections : conns'[d].does = conns[d].does
         /\ \A d \in Connections : conns'[d].does = "tells" => conns'[d] = conns[d]
         /\ \A d \in Connections : conns'[d].does = "shows" => conns'[d].changed
<1>1. \A d \in Connections :
        conns'[d] = IF conns[d].does = "shows" THEN [conns[d] EXCEPT !.changed = TRUE]
          ELSE conns[d]
  BY DEF N!Changes
<1>2. \A d \in Connections :
        conns[d].does = "shows" =>
          conns'[d] \in Doing /\ conns'[d].does = "shows" /\ conns'[d].changed
  <2> SUFFICES ASSUME NEW d \in Connections, conns[d].does = "shows"
               PROVE  conns'[d] \in Doing /\ conns'[d].does = "shows" /\ conns'[d].changed
    OBVIOUS
  <2>1. conns'[d] = [conns[d] EXCEPT !.changed = TRUE] /\ conns[d] \in Doing
    BY <1>1
  <2>2. QED
    BY <2>1, Seen
<1>3. \A d \in Connections : conns[d].does # "shows" => conns'[d] = conns[d]
        /\ conns[d] \in Doing
  BY <1>1
<1>4. conns' = [d \in Connections |-> conns'[d]]
  BY DEF N!Changes
<1>5. \A d \in Connections : conns'[d] \in Doing
  BY <1>2, <1>3
<1>6. conns' \in [Connections -> Doing]
  BY <1>4, <1>5
<1>7. QED
  BY <1>2, <1>3, <1>6

\* The loop takes a word, or cannot.
LEMMA RoleTakes ==
  ASSUME RoleInv, N!Take \/ N!TakeFails
  PROVE  RoleInv'
<1>0. RoleShape /\ RoleQuiet /\ RoleSaid /\ RoleLast /\ RoleShows
  BY DEF RoleInv
<1>1. /\ conns \in [Connections -> Doing] /\ order \in [Connections -> Records \cup {Nowhere}]
      /\ words \in Seq(Records) /\ Len(words) \in Nat /\ Len(words) <= Room
  BY <1>0 DEF RoleShape, N!TypeOK
<1>2. /\ coming = "serving" /\ taking = Nowhere /\ words # <<>> /\ words' = Tail(words)
      /\ UNCHANGED <<coming, nthNamed, launch, copy, count, shown, sayings, order>>
  BY DEF N!Take, N!TakeFails
<1>3. /\ Len(words) >= 1 /\ words' \in Seq(Records) /\ Len(words') = Len(words) - 1
      /\ \A i \in 1..Len(words') : words'[i] = words[i + 1]
      /\ Head(words) = words[1]
  BY <1>1, <1>2
<1>4. Head(words) \in sayings /\ Head(words) \in Records
  BY <1>0, <1>1, <1>3 DEF RoleSaid
<1>5. \A i \in 1..Len(words') : words'[i] \in sayings
  <2> SUFFICES ASSUME NEW i \in 1..Len(words')
               PROVE  words'[i] \in sayings
    OBVIOUS
  <2>1. i + 1 \in 1..Len(words) /\ words'[i] = words[i + 1]
    BY <1>1, <1>3
  <2>2. QED
    BY <1>0, <2>1 DEF RoleSaid
<1>6. CASE N!Take
  <2>1. taking' = Head(words) /\ roleNote' = N!Torn /\ N!Changes /\ UNCHANGED broken
    BY <1>6 DEF N!Take
  <2>2. /\ conns' \in [Connections -> Doing]
        /\ \A d \in Connections : conns'[d].does = conns[d].does
        /\ \A d \in Connections : conns'[d].does = "tells" => conns'[d] = conns[d]
        /\ \A d \in Connections : conns'[d].does = "shows" => conns'[d].changed
    BY <1>1, <2>1, RoleChange
  <2>3. RoleShape'
    BY <1>0, <1>1, <1>2, <1>3, <1>4, <2>1, <2>2, RoleKindsHold DEF RoleShape, N!TypeOK
  <2>4. RoleSaid'
    BY <1>2, <1>4, <1>5, <2>1, RoleKindsHold DEF RoleSaid
  <2>5. Latest' = Latest
    <3>1. Latest = words[Len(words)]
      BY <1>2 DEF Latest
    <3>2. CASE Len(words) = 1
      <4>1. words' = <<>> /\ taking' # Nowhere
        BY <1>3, <1>4, <2>1, <3>2, RoleKindsHold
      <4>2. QED
        BY <1>3, <2>1, <3>1, <3>2, <4>1 DEF Latest
    <3>3. CASE Len(words) # 1
      <4>1. words' # <<>> /\ Len(words') \in 1..Len(words')
              /\ words'[Len(words')] = words[Len(words)]
        BY <1>1, <1>3, <3>3
      <4>2. QED
        BY <3>1, <4>1 DEF Latest
    <3>4. QED
      BY <3>2, <3>3
  <2>6. RoleLast'
    BY <1>0, <1>2, <2>1, <2>2, <2>5 DEF RoleLast
  <2>7. RoleShows'
    BY <1>0, <1>2, <2>1, <2>2 DEF RoleShows, N!ShownWhole
  <2>8. QED
    BY <1>0, <1>2, <2>3, <2>4, <2>6, <2>7 DEF RoleInv, RoleQuiet
<1>7. CASE N!TakeFails
  <2>1. broken' /\ broken' \in BOOLEAN /\ UNCHANGED <<roleNote, taking, conns>>
    BY <1>7 DEF N!TakeFails
  <2>2. RoleShape'
    BY <1>0, <1>1, <1>2, <1>3, <2>1, RoleKindsHold DEF RoleShape, N!TypeOK
  <2>3. RoleSaid'
    BY <1>0, <1>2, <1>5, <2>1 DEF RoleSaid
  <2>4. RoleLast' /\ RoleShows'
    BY <1>0, <1>2, <2>1 DEF RoleLast, RoleShows, N!ShownWhole
  <2>5. QED
    BY <1>0, <1>2, <2>2, <2>3, <2>4 DEF RoleInv, RoleQuiet
<1>8. QED
  BY <1>6, <1>7

\* The loop writes it, or cannot.
LEMMA RoleGiven ==
  ASSUME RoleInv, N!Given \/ N!GivenFails
  PROVE  RoleInv'
<1>0. RoleShape /\ RoleQuiet /\ RoleSaid /\ RoleLast /\ RoleShows
  BY DEF RoleInv
<1>1. conns \in [Connections -> Doing] /\ sayings \subseteq Records
  BY <1>0 DEF RoleShape
<1>2. /\ taking # Nowhere /\ taking' = Nowhere
      /\ UNCHANGED <<coming, nthNamed, launch, words, count, shown, sayings, order>>
  BY DEF N!Given, N!GivenFails
<1>3. coming = "serving" /\ taking \in sayings /\ taking \in Records /\ taking.name \in Called
  BY <1>0, <1>1, <1>2 DEF RoleQuiet, RoleSaid, Called
<1>4. CASE N!Given
  <2>1. roleNote' = taking /\ copy' = taking.name /\ N!Changes /\ UNCHANGED broken
    BY <1>4 DEF N!Given
  <2>2. /\ conns' \in [Connections -> Doing]
        /\ \A d \in Connections : conns'[d].does = conns[d].does
        /\ \A d \in Connections : conns'[d].does = "tells" => conns'[d] = conns[d]
        /\ \A d \in Connections : conns'[d].does = "shows" => conns'[d].changed
    BY <1>1, <2>1, RoleChange
  <2>3. RoleShape'
    BY <1>0, <1>2, <1>3, <2>1, <2>2 DEF RoleShape, N!TypeOK
  <2>4. RoleSaid'
    BY <1>0, <1>2, <1>3, <2>1 DEF RoleSaid
  <2>5. Latest' = Latest
    BY <1>2, <2>1 DEF Latest
  <2>6. RoleLast'
    BY <1>0, <1>2, <2>1, <2>2, <2>5 DEF RoleLast
  <2>7. RoleShows'
    BY <1>0, <1>2, <2>1, <2>2 DEF RoleShows, N!ShownWhole
  <2>8. QED
    BY <1>0, <1>2, <1>3, <2>3, <2>4, <2>6, <2>7 DEF RoleInv, RoleQuiet
<1>5. CASE N!GivenFails
  <2>1. broken' /\ broken' \in BOOLEAN /\ UNCHANGED <<roleNote, copy, conns>>
    BY <1>5 DEF N!GivenFails
  <2>2. RoleShape'
    BY <1>0, <1>2, <2>1 DEF RoleShape, N!TypeOK
  <2>3. RoleSaid'
    BY <1>0, <1>2, <2>1 DEF RoleSaid
  <2>4. RoleLast' /\ RoleShows'
    BY <1>0, <1>2, <2>1 DEF RoleLast, RoleShows, N!ShownWhole
  <2>5. QED
    BY <1>0, <1>2, <1>3, <2>2, <2>3, <2>4 DEF RoleInv, RoleQuiet
<1>6. QED
  BY <1>4, <1>5

\* The invariant of the roles holds in the run of the six parts.
LEMMA RolesHold == Stands => []RoleInv
<1>1. Begins => RoleInv
  BY RoleBegins DEF Begins
<1>2. RoleInv /\ [Goes]_<<part, vars, rosterVars, branching, calling, asking, naming>> =>
        RoleInv'
  <2> SUFFICES ASSUME RoleInv, [Goes]_<<part, vars, rosterVars, branching, calling, asking, naming>>
               PROVE  RoleInv'
    OBVIOUS
  <2>1. CASE N!Next
    BY <2>1, RoleComes, RoleGoes, RoleTold, RoleShown, RoleTakes, RoleGiven DEF N!Next
  <2>2. CASE UNCHANGED naming
    BY <2>2 DEF naming, RoleInv, RoleShape, N!TypeOK, RoleQuiet, RoleSaid, RoleLast, Latest,
       RoleShows, N!ShownWhole
  <2>3. QED
    BY <2>1, <2>2 DEF Goes
<1>3. QED
  BY <1>1, <1>2, PTL DEF Stands

\* For every set of sessions, words and connections: what a call stops or names is the caller's
\* own
\* (policy.rs, pinned.rs), a session's own surface is for itself, whatever the notes say, and a
\* session is listed for what it was told itself, last, and shown it whole (roles.rs, main.rs).
THEOREM OnlyItsOwnIsDone == Stands => []OnlyItsOwn
<1>1. CallInv /\ RoleInv => OnlyItsOwn
  <2> SUFFICES ASSUME CallInv, RoleInv
               PROVE  OnlyItsOwn
    OBVIOUS
  <2>1. C!OnlyItsOwn /\ C!OwnSurface
    BY SurfaceIsOwn DEF CallInv, CallSecrets
  <2>2. N!NoteIsItsOwn
    BY DEF RoleInv, RoleSaid, N!NoteIsItsOwn
  <2>3. N!LastWordStands
    BY DEF RoleInv, RoleSaid, RoleLast, Latest, N!LastWordStands
  <2>4. QED
    BY <2>1, <2>2, <2>3 DEF OnlyItsOwn, RoleInv, RoleShape, RoleShows
<1>2. QED
  BY <1>1, CallsHold, RolesHold, PTL

----------------------------------------------------------------------------
\* Roster.

\* Who does not answer has no parent note: it is taken away with the session.
RosterInv ==
  /\ ups \in [Names -> Names \cup {Nobody}] /\ answering \subseteq Names
  /\ \A x \in Names : x \notin answering => ups[x] = Nobody

\* What is assumed of the constants of the roster.
LEMMA RosterFacts ==
  /\ IsFiniteSet(Names) /\ Cardinality(Names) \in Nat /\ Nobody \notin Names /\ Deep \in Nat
  /\ Names \subseteq Nat
<1>1. IsFiniteSet(Names)
  BY RosterPartKinds DEF R!RosterKinds, R!IsFiniteSet, IsFiniteSet
<1>2. Cardinality(Names) \in Nat
  BY <1>1, FS_CardinalityType
<1>3. QED
  BY <1>1, <1>2, RosterPartKinds DEF R!RosterKinds, R!KinshipKinds

\* The first note above another, of the notes above y; nobody is above nobody.
Rises(a, n, y) ==
  a = [k \in 0..n |-> IF k = 0 THEN y ELSE IF a[k - 1] = Nobody THEN Nobody ELSE ups[a[k - 1]]]

\* There are such notes, however far.
LEMMA RisesThere ==
  ASSUME NEW y
  PROVE  \A n \in Nat : \E a : Rises(a, n, y)
<1> DEFINE Short == {n \in Nat : ~\E a : Rises(a, n, y)}
<1>1. SUFFICES ASSUME Short # {}
               PROVE  FALSE
  OBVIOUS
<1>2. PICK n \in Short : \A m \in Short : n <= m
  BY <1>1, LeastNat
<1>3. n # 0
  <2>1. Rises([k \in 0..0 |-> y], 0, y)
    BY DEF Rises
  <2>2. QED
    BY <2>1
<1>4. PICK a : Rises(a, n - 1, y)
  <2>1. n - 1 \in Nat /\ ~(n <= n - 1)
    BY <1>2, <1>3
  <2>2. n - 1 \notin Short
    <3> HIDE DEF Short
    <3>1. QED
      BY <1>2, <2>1
  <2>3. QED
    BY <2>1, <2>2
<1> DEFINE s(v) == IF v = Nobody THEN Nobody ELSE ups[v]
           more == [k \in 0..n |-> IF k = n THEN s(a[n - 1]) ELSE a[k]]
<1>5. Rises(more, n, y)
  <2>1. \A k \in 0..n - 1 : a[k] = IF k = 0 THEN y ELSE s(a[k - 1])
    BY <1>4 DEF Rises
  <2> HIDE DEF s
  <2>2. \A k \in 0..n : more[k] = IF k = 0 THEN y ELSE s(more[k - 1])
    BY <1>2, <1>3, <2>1
  <2>3. QED
    BY <2>2 DEF Rises, s
<1>6. QED
  BY <1>2, <1>5

\* Once there is no note there is none further up.
LEMMA RisesEnd ==
  ASSUME NEW n \in Nat, NEW y, NEW a, Rises(a, n, y), NEW j \in 0..n, a[j] = Nobody
  PROVE  \A k \in j..n : a[k] = Nobody
<1> DEFINE Some == {k \in j..n : a[k] # Nobody}
<1>1. SUFFICES ASSUME Some # {}
               PROVE  FALSE
  OBVIOUS
<1>2. PICK k \in Some : \A m \in Some : k <= m
  <2>1. Some \in SUBSET Nat
    OBVIOUS
  <2> HIDE DEF Some
  <2>2. QED
    BY <1>1, <2>1, LeastNat
<1>3. k # j /\ k - 1 \in j..n /\ ~(k <= k - 1) /\ k \in 0..n
  BY <1>2
<1>4. a[k - 1] = Nobody
  <2>1. k - 1 \notin Some
    <3> HIDE DEF Some
    <3>1. QED
      BY <1>2, <1>3
  <2>2. QED
    BY <1>3, <2>1
<1>5. a[k] = Nobody
  BY <1>3, <1>4 DEF Rises
<1>6. QED
  BY <1>2, <1>5

\* Roster!Below, as far as it is known.
Waves(w, n, x) ==
  w = [k \in 0..n |-> IF k = 0 THEN {z \in Names : ups[z] = x}
                      ELSE w[k - 1] \cup {z \in Names : ups[z] \in w[k - 1]}]

\* There are such sets, of any number of steps.
LEMMA WavesThere ==
  ASSUME NEW x
  PROVE  \A n \in Nat : \E w : Waves(w, n, x)
<1> DEFINE Short == {n \in Nat : ~\E w : Waves(w, n, x)}
<1>1. SUFFICES ASSUME Short # {}
               PROVE  FALSE
  OBVIOUS
<1>2. PICK n \in Short : \A m \in Short : n <= m
  BY <1>1, LeastNat
<1>3. n # 0
  <2>1. Waves([k \in 0..0 |-> {z \in Names : ups[z] = x}], 0, x)
    BY DEF Waves
  <2>2. QED
    BY <2>1
<1>4. PICK w : Waves(w, n - 1, x)
  <2>1. n - 1 \in Nat /\ ~(n <= n - 1)
    BY <1>2, <1>3
  <2>2. n - 1 \notin Short
    <3> HIDE DEF Short
    <3>1. QED
      BY <1>2, <2>1
  <2>3. QED
    BY <2>1, <2>2
<1> DEFINE wider == w[n - 1] \cup {z \in Names : ups[z] \in w[n - 1]}
           more == [k \in 0..n |-> IF k = n THEN wider ELSE w[k]]
<1>5. Waves(more, n, x)
  <2>1. \A k \in 0..n : more[k] = IF k = 0 THEN {z \in Names : ups[z] = x}
                                  ELSE more[k - 1] \cup {z \in Names : ups[z] \in more[k - 1]}
    <3>1. CASE n = 0
      BY <1>3, <3>1
    <3> DEFINE b == {z \in Names : ups[z] = x}
               s(v) == v \cup {z \in Names : ups[z] \in v}
    <3>2. \A k \in 0..n - 1 : w[k] = IF k = 0 THEN b ELSE s(w[k - 1])
      BY <1>4 DEF Waves
    <3>3. wider = s(w[n - 1])
      OBVIOUS
    <3> HIDE DEF b, s, wider
    <3>4. \A k \in 0..n : more[k] = IF k = 0 THEN b ELSE s(more[k - 1])
      BY <1>2, <1>3, <3>2, <3>3
    <3>5. QED
      BY <3>4 DEF b, s
  <2>2. QED
    BY <2>1 DEF Waves
<1>6. QED
  BY <1>2, <1>5

\* Who is below another has it somewhere in the notes above it.
LEMMA BelowRises ==
  ASSUME NEW x \in Names, NEW y \in Names, y \in R!Below(x), NEW most \in Nat, most = Cardinality(Names),
         NEW a, Rises(a, most + 1, y)
  PROVE  \E k \in 1..most + 1 : a[k] = x
<1> DEFINE W == CHOOSE w : Waves(w, most, x)
<1>1. Waves(W, most, x)
  BY WavesThere
<1>2. R!Below(x) = W[most]
  BY DEF R!Below, Waves, R!Cardinality, Cardinality
<1> HIDE DEF W
<1> DEFINE Sure(n) == \A j \in Nat : j + n + 1 <= most + 1 /\ a[j] \in W[n] => \E k \in j + 1..j + n + 1 : a[k] = x
           Not == {n \in 0..most : ~Sure(n)}
<1>3. Not = {}
  <2>1. SUFFICES ASSUME Not # {}
                 PROVE  FALSE
    OBVIOUS
  <2>2. PICK n \in 0..most : ~Sure(n) /\ \A m \in 0..most : ~Sure(m) => n <= m
    <3> HIDE DEF Sure
    <3>1. Not \in SUBSET Nat
      OBVIOUS
    <3>2. PICK n \in Not : \A m \in Not : n <= m
      <4> HIDE DEF Not
      <4>1. QED
        BY <2>1, <3>1, LeastNat
    <3>3. QED
      BY <3>2
  <2>3. PICK j \in Nat : /\ j + n + 1 <= most + 1 /\ a[j] \in W[n]
                         /\ ~\E k \in j + 1..j + n + 1 : a[k] = x
    BY <2>2
  <2>4. PICK i \in 0..most + 1 : i = j + 1 /\ i # 0 /\ i - 1 = j
    BY <2>3
  <2>5. a[j] \in Names => a[i] = ups[a[j]]
    <3>1. a[i] = IF a[j] = Nobody THEN Nobody ELSE ups[a[j]]
      BY <2>4 DEF Rises
    <3>2. QED
      BY <3>1, RosterFacts
  <2>6. CASE n = 0
    <3>1. a[j] \in Names /\ ups[a[j]] = x
      BY <1>1, <2>3, <2>6 DEF Waves
    <3>2. a[i] = x /\ i \in j + 1..j + n + 1
      BY <2>4, <2>5, <2>6, <3>1
    <3>3. QED
      BY <2>3, <3>2
  <2>7. CASE n # 0
    <3>1. PICK p \in 0..most : p = n - 1 /\ ~(n <= p)
      BY <2>7
    <3>2. Sure(p)
      <4> HIDE DEF Sure
      <4>1. QED
        BY <2>2, <3>1
    <3>3. W[n] = W[p] \cup {z \in Names : ups[z] \in W[p]}
      BY <1>1, <2>7, <3>1 DEF Waves
    <3>4. CASE a[j] \in W[p]
      <4>1. j + p + 1 <= most + 1
        BY <2>3, <3>1
      <4>2. PICK k \in j + 1..j + p + 1 : a[k] = x
        BY <3>2, <3>4, <4>1
      <4>3. k \in j + 1..j + n + 1
        BY <3>1, <4>2
      <4>4. QED
        BY <2>3, <4>2, <4>3
    <3>5. CASE a[j] \in Names /\ ups[a[j]] \in W[p]
      <4>1. a[i] \in W[p]
        BY <2>5, <3>5
      <4>2. i + p + 1 <= most + 1 /\ i \in Nat
        BY <2>3, <2>4, <3>1
      <4>3. PICK k \in i + 1..i + p + 1 : a[k] = x
        BY <3>2, <4>1, <4>2
      <4>4. k \in j + 1..j + n + 1
        BY <2>4, <3>1, <4>3
      <4>5. QED
        BY <2>3, <4>3, <4>4
    <3>6. QED
      BY <2>3, <3>3, <3>4, <3>5
  <2>8. QED
    BY <2>6, <2>7
<1>4. Sure(most)
  <2> HIDE DEF Sure
  <2>1. QED
    BY <1>3
<1>5. a[0] = y
  BY DEF Rises
<1>6. 0 + most + 1 <= most + 1 /\ 0 \in Nat
  OBVIOUS
<1>7. \E k \in 0 + 1..0 + most + 1 : a[k] = x
  BY <1>2, <1>4, <1>5, <1>6
<1>8. QED
  BY <1>7

\* Of numbers up to a bound one is the largest.
LEMMA LargestThere ==
  ASSUME NEW g \in Nat, NEW S \in SUBSET (0..g), S # {}
  PROVE  R!Largest(S) \in S /\ \A m \in S : R!Largest(S) >= m
<1> DEFINE Over == {u \in Nat : \A m \in S : u >= m}
<1>1. g \in Over
  OBVIOUS
<1>2. PICK u \in Nat : (\A m \in S : u >= m) /\ \A v \in Nat : (\A m \in S : v >= m) => u <= v
  <2>1. Over \in SUBSET Nat
    OBVIOUS
  <2>2. PICK u \in Over : \A v \in Over : u <= v
    <3> HIDE DEF Over
    <3>1. QED
      BY <1>1, <2>1, LeastNat
  <2>3. QED
    BY <2>2
<1>3. u \in S
  <2>1. SUFFICES ASSUME u \notin S
                 PROVE  FALSE
    OBVIOUS
  <2>2. PICK m \in S : TRUE
    OBVIOUS
  <2>3. u # 0 /\ u - 1 \in Nat /\ ~(u <= u - 1)
    BY <1>2, <2>1, <2>2
  <2>4. \A k \in S : u - 1 >= k
    BY <1>2, <2>1, <2>3
  <2>5. QED
    BY <1>2, <2>3, <2>4
<1>4. \E n \in S : \A m \in S : n >= m
  BY <1>2, <1>3
<1>5. QED
  BY <1>4 DEF R!Largest

\* Kinship!HeightBelow of everybody, as far as it is known.
Levels(h, n) ==
  h = [g \in 0..n |->
         IF g = 0 THEN [x \in Names |-> 0]
         ELSE [x \in Names |-> R!Largest({0} \cup {1 + h[g - 1][c] : c \in {d \in answering : ups[d] = x}})]]

\* There are such heights, up to any.
LEMMA LevelsThere == \A n \in Nat : \E h : Levels(h, n)
<1> DEFINE b == [x \in Names |-> 0]
           s(v) == [x \in Names |-> R!Largest({0} \cup {1 + v[c] : c \in {d \in answering : ups[d] = x}})]
           Fit(h, n) == h = [g \in 0..n |-> IF g = 0 THEN b ELSE s(h[g - 1])]
           Short == {n \in Nat : ~\E h : Fit(h, n)}
<1>1. SUFFICES ASSUME Short # {}
               PROVE  FALSE
  BY DEF Levels
<1> HIDE DEF b, s
<1>2. PICK n \in Short : \A m \in Short : n <= m
  BY <1>1, LeastNat
<1>3. n # 0
  <2>1. Fit([k \in 0..0 |-> b], 0)
    OBVIOUS
  <2>2. QED
    BY <2>1
<1>4. PICK h : Fit(h, n - 1)
  <2>1. n - 1 \in Nat /\ ~(n <= n - 1)
    BY <1>2, <1>3
  <2>2. n - 1 \notin Short
    <3> HIDE DEF Short
    <3>1. QED
      BY <1>2, <2>1
  <2>3. QED
    BY <2>1, <2>2
<1> DEFINE more == [k \in 0..n |-> IF k = n THEN s(h[n - 1]) ELSE h[k]]
<1>5. Fit(more, n)
  <2>1. \A k \in 0..n : more[k] = IF k = 0 THEN b ELSE s(more[k - 1])
    BY <1>2, <1>3, <1>4
  <2>2. QED
    BY <2>1
<1>6. QED
  BY <1>2, <1>5

\* Each is a height of that many steps at most, and is one more than that of any child.
LEMMA LevelsRise ==
  ASSUME RosterInv, NEW n \in Nat, NEW h, Levels(h, n)
  PROVE  /\ \A g \in 0..n : h[g] \in [Names -> 0..g]
         /\ \A g \in 1..n : \A c \in answering : ups[c] \in Names => h[g][ups[c]] >= 1 + h[g - 1][c]
<1> DEFINE Kids(x) == {d \in answering : ups[d] = x}
           Sums(v, x) == {0} \cup {1 + v[c] : c \in Kids(x)}
<1>1. answering \subseteq Names
  BY DEF RosterInv
<1>2. ASSUME NEW p \in Nat, NEW v \in [Names -> 0..p], NEW x \in Names
      PROVE  R!Largest(Sums(v, x)) \in 0..p + 1 /\ \A c \in Kids(x) : R!Largest(Sums(v, x)) >= 1 + v[c]
  <2>1. \A c \in Kids(x) : 1 + v[c] \in 0..p + 1
    <3>1. \A c \in Kids(x) : v[c] \in 0..p
      BY <1>1, <1>2
    <3>2. QED
      BY <3>1
  <2>2. Sums(v, x) \in SUBSET (0..p + 1) /\ Sums(v, x) # {} /\ p + 1 \in Nat
    BY <2>1
  <2>3. \A c \in Kids(x) : 1 + v[c] \in Sums(v, x)
    OBVIOUS
  <2>4. R!Largest(Sums(v, x)) \in Sums(v, x) /\ \A m \in Sums(v, x) : R!Largest(Sums(v, x)) >= m
    <3> HIDE DEF Sums
    <3>1. QED
      BY <2>2, LargestThere
  <2> HIDE DEF Sums
  <2>5. QED
    BY <2>2, <2>3, <2>4
<1>3. h[0] = [x \in Names |-> 0] /\ \A g \in 1..n : h[g] = [x \in Names |-> R!Largest(Sums(h[g - 1], x))]
  <2>1. \A g \in 0..n : h[g] = IF g = 0 THEN [x \in Names |-> 0]
                               ELSE [x \in Names |-> R!Largest(Sums(h[g - 1], x))]
    BY DEF Levels
  <2> HIDE DEF Sums, Kids
  <2>2. h[0] = [x \in Names |-> 0]
    <3>1. 0 \in 0..n
      OBVIOUS
    <3>2. QED
      BY <2>1, <3>1, Zenon
  <2>3. ASSUME NEW g \in 1..n
        PROVE  h[g] = [x \in Names |-> R!Largest(Sums(h[g - 1], x))]
    <3>1. g \in 0..n /\ g # 0
      OBVIOUS
    <3>2. QED
      BY <2>1, <3>1
  <2>4. QED
    BY <2>2, <2>3
<1> DEFINE Not == {g \in 0..n : h[g] \notin [Names -> 0..g]}
<1>4. Not = {}
  <2> HIDE DEF Sums, Kids
  <2>1. SUFFICES ASSUME Not # {}
                 PROVE  FALSE
    OBVIOUS
  <2>2. PICK g \in 0..n : /\ h[g] \notin [Names -> 0..g]
                          /\ \A m \in 0..n : h[m] \notin [Names -> 0..m] => g <= m
    <3>1. Not \in SUBSET Nat
      OBVIOUS
    <3>2. PICK g \in Not : \A m \in Not : g <= m
      <4> HIDE DEF Not
      <4>1. QED
        BY <2>1, <3>1, LeastNat
    <3>3. QED
      BY <3>2
  <2>3. g # 0
    BY <1>3, <2>2
  <2>4. PICK p \in 0..n : p = g - 1 /\ ~(g <= p) /\ p + 1 = g /\ g \in 1..n
    BY <2>3
  <2>5. h[p] \in [Names -> 0..p]
    BY <2>2, <2>4
  <2>6. h[g] = [x \in Names |-> R!Largest(Sums(h[p], x))]
    BY <1>3, <2>4
  <2>7. \A x \in Names : R!Largest(Sums(h[p], x)) \in 0..g
    BY <1>2, <2>4, <2>5
  <2>8. QED
    BY <2>2, <2>6, <2>7
<1>5. \A g \in 0..n : h[g] \in [Names -> 0..g]
  BY <1>4
<1>6. ASSUME NEW g \in 1..n, NEW c \in answering, ups[c] \in Names
      PROVE  h[g][ups[c]] >= 1 + h[g - 1][c]
  <2>1. PICK p \in 0..n : p = g - 1
    OBVIOUS
  <2>2. h[p] \in [Names -> 0..p]
    BY <1>5
  <2>3. h[g][ups[c]] = R!Largest(Sums(h[p], ups[c]))
    <3> HIDE DEF Sums, Kids
    <3>1. h[g] = [x \in Names |-> R!Largest(Sums(h[g - 1], x))]
      BY <1>3
    <3>2. QED
      BY <1>6, <2>1, <3>1
  <2>4. c \in Kids(ups[c])
    OBVIOUS
  <2>5. R!Largest(Sums(h[p], ups[c])) >= 1 + h[p][c]
    <3> HIDE DEF Sums, Kids
    <3>1. QED
      BY <1>2, <1>6, <2>2, <2>4
  <2> HIDE DEF Sums
  <2>6. QED
    BY <2>1, <2>3, <2>5
<1>7. QED
  BY <1>5, <1>6

\* A branch is at least as high as the way down to any session in it that answers, up to the bound.
LEMMA HeightOver ==
  ASSUME RosterInv, NEW y \in Names, NEW n \in Nat, NEW a, Rises(a, n, y), NEW d \in 0..n, a[d] \in Names
  PROVE  \/ R!HeightBelow(ups, answering, a[d]) \in Nat /\ R!HeightBelow(ups, answering, a[d]) >= d
         \/ R!HeightBelow(ups, answering, a[d]) \in Nat /\ R!HeightBelow(ups, answering, a[d]) >= Deep
<1> DEFINE h == CHOOSE f : Levels(f, Deep)
<1>0. Deep \in Nat
  BY RosterFacts
<1>1. Levels(h, Deep)
  BY <1>0, LevelsThere
<1>2. R!HeightBelow(ups, answering, a[d]) = h[Deep][a[d]]
  BY DEF R!HeightBelow, Levels
<1> HIDE DEF h
<1>3. /\ \A g \in 0..Deep : h[g] \in [Names -> 0..g]
      /\ \A g \in 1..Deep : \A c \in answering : ups[c] \in Names => h[g][ups[c]] >= 1 + h[g - 1][c]
  BY <1>0, <1>1, LevelsRise
<1>4. \A k \in 0..d : a[k] # Nobody
  <2>1. SUFFICES ASSUME NEW k \in 0..d, a[k] = Nobody
                 PROVE  FALSE
    OBVIOUS
  <2>2. k \in 0..n /\ d \in k..n
    OBVIOUS
  <2>3. a[d] = Nobody
    BY <2>1, <2>2, RisesEnd
  <2>4. QED
    BY <2>3, RosterFacts
<1>5. \A k \in 1..d : a[k] = ups[a[k - 1]]
  <2>1. SUFFICES ASSUME NEW k \in 1..d
                 PROVE  a[k] = ups[a[k - 1]]
    OBVIOUS
  <2>2. k \in 0..n /\ k # 0 /\ k - 1 \in 0..d
    OBVIOUS
  <2>3. a[k] = IF a[k - 1] = Nobody THEN Nobody ELSE ups[a[k - 1]]
    BY <2>2 DEF Rises
  <2>4. QED
    BY <1>4, <2>2, <2>3
<1> DEFINE Sure(k) == a[k] \in Names /\ \A g \in 0..Deep : h[g][a[k]] >= k \/ h[g][a[k]] >= g
           Not == {k \in 0..d : ~Sure(k)}
<1>6. Not = {}
  <2>1. SUFFICES ASSUME Not # {}
                 PROVE  FALSE
    OBVIOUS
  <2>2. PICK k \in 0..d : ~Sure(k) /\ \A m \in 0..d : ~Sure(m) => k <= m
    <3> HIDE DEF Sure
    <3>1. Not \in SUBSET Nat
      OBVIOUS
    <3>2. PICK k \in Not : \A m \in Not : k <= m
      <4> HIDE DEF Not
      <4>1. QED
        BY <2>1, <3>1, LeastNat
    <3>3. QED
      BY <3>2
  <2>3. CASE k = 0
    <3>1. a[0] = y
      BY DEF Rises
    <3>2. \A g \in 0..Deep : h[g][y] \in Nat
      <4>1. \A g \in 0..Deep : h[g][y] \in 0..g
        BY <1>3
      <4>2. QED
        BY <1>0, <4>1
    <3>3. \A g \in 0..Deep : h[g][y] >= 0
      BY <3>2
    <3>4. QED
      BY <2>2, <2>3, <3>1, <3>3
  <2>4. CASE k # 0
    <3>1. PICK p \in 0..d : p = k - 1 /\ ~(k <= p) /\ k = p + 1 /\ k \in 1..d
      BY <2>4
    <3>2. Sure(p)
      <4> HIDE DEF Sure
      <4>1. QED
        BY <2>2, <3>1
    <3>3. a[k] = ups[a[p]] /\ a[k] # Nobody
      BY <1>4, <1>5, <3>1
    <3>4. a[p] \in answering /\ a[k] \in Names
      BY <3>2, <3>3 DEF RosterInv
    <3>5. ASSUME NEW g \in 0..Deep
          PROVE  h[g][a[k]] >= k \/ h[g][a[k]] >= g
      <4>1. PICK v \in 0..g : v = h[g][a[k]]
        BY <1>3, <3>4
      <4>2. CASE g = 0
        BY <4>1, <4>2
      <4>3. CASE g # 0
        <5>1. PICK q \in 0..Deep : q = g - 1 /\ g = q + 1 /\ g \in 1..Deep
          BY <1>0, <4>3
        <5>2. PICK u \in 0..q : u = h[q][a[p]]
          BY <1>3, <3>2
        <5>3. h[g][a[k]] >= 1 + h[q][a[p]]
          BY <1>3, <3>3, <3>4, <5>1
        <5>4. u >= p \/ u >= q
          BY <3>2, <5>2
        <5>5. v >= 1 + u
          BY <4>1, <5>2, <5>3
        <5>6. v >= k \/ v >= g
          BY <1>0, <3>1, <5>1, <5>4, <5>5
        <5>7. QED
          BY <4>1, <5>6
      <4>4. QED
        BY <4>2, <4>3
    <3>6. QED
      BY <2>2, <3>4, <3>5
  <2>5. QED
    BY <2>3, <2>4
<1>7. Sure(d)
  <2> HIDE DEF Sure
  <2>1. QED
    BY <1>6
<1>8. h[Deep][a[d]] \in Nat
  <2>1. h[Deep][a[d]] \in 0..Deep
    BY <1>0, <1>3
  <2>2. QED
    BY <1>0, <2>1
<1>9. QED
  BY <1>0, <1>2, <1>7, <1>8

\* A graft that is let through fits, whatever else is in the notes.
LEMMA GraftsFit ==
  ASSUME RosterInv, NEW p \in answering, NEW c \in answering, R!Adoptable(ups, answering, p, c, 0)
  PROVE  /\ p \notin R!Below(c)
         /\ \A y \in {c} \cup (answering \cap R!Below(c)) :
              Cardinality(R!Above(p)) + 1 + Cardinality(R!Above(y)) - Cardinality(R!Above(c)) < Deep
<1>1. PICK most \in Nat : most = Cardinality(Names)
  BY RosterFacts
<1>2. p \in Names /\ c \in Names /\ ups[p] = Nobody /\ ups[c] = Nobody
      /\ R!DepthOf(ups, p) + 1 + R!HeightBelow(ups, answering, c) < Deep
  BY DEF RosterInv, R!Adoptable
<1>3. ASSUME NEW y \in Names, ups[y] = Nobody
      PROVE  R!Above(y) = {} /\ Cardinality(R!Above(y)) = 0
  <2>1. PICK a : Rises(a, most + 1, y)
    BY <1>1, RisesThere
  <2>2. ASSUME NEW x \in Names, y \in R!Below(x)
        PROVE  FALSE
    <3>1. PICK k \in 1..most + 1 : a[k] = x
      BY <1>1, <2>1, <2>2, BelowRises
    <3>2. a[0] = y
      BY <2>1 DEF Rises
    <3>3. 1 \in 0..most + 1 /\ a[1] = Nobody
      <4>1. a[1] = IF a[0] = Nobody THEN Nobody ELSE ups[a[0]]
        BY <2>1 DEF Rises
      <4>2. QED
        BY <1>3, <3>2, <4>1
    <3>4. a[k] = Nobody
      BY <2>1, <3>3, RisesEnd
    <3>5. QED
      BY <3>1, <3>4, RosterFacts
  <2>3. R!Above(y) = {}
    BY <2>2 DEF R!Above
  <2>4. QED
    BY <2>3, FS_EmptySet
<1>4. p \notin R!Below(c)
  BY <1>2, <1>3 DEF R!Above
<1>5. PICK top \in Nat : top = R!DepthOf(ups, p)
  <2>1. Deep \in Nat /\ IsFiniteSet(1..Deep)
    BY RosterFacts, FS_Interval
  <2>2. ASSUME NEW S \in SUBSET (1..Deep)
        PROVE  Cardinality(S) \in Nat
    BY <2>1, FS_Subset, FS_CardinalityType
  <2>3. R!DepthOf(ups, p) \in Nat
    BY <2>2 DEF R!DepthOf, R!Cardinality, Cardinality
  <2>4. QED
    BY <2>3
<1>6. ASSUME NEW y \in answering, y \in R!Below(c)
      PROVE  Cardinality(R!Above(y)) \in Nat /\ 1 + Cardinality(R!Above(y)) < Deep
  <2>1. y \in Names
    BY DEF RosterInv
  <2>2. PICK a : Rises(a, most + 1, y)
    BY <1>1, RisesThere
  <2>3. PICK d \in 1..most + 1 : a[d] = c
    BY <1>1, <1>2, <1>6, <2>1, <2>2, BelowRises
  <2>4. d \in 0..most + 1 /\ d + 1 \in Nat
    OBVIOUS
  <2>5. ASSUME NEW k \in d + 1..most + 1
        PROVE  a[k] = Nobody
    <3>1. PICK e \in 0..most + 1 : e = d + 1 /\ e # 0 /\ e - 1 = d /\ k \in e..most + 1
      OBVIOUS
    <3>2. a[e] = IF a[d] = Nobody THEN Nobody ELSE ups[a[d]]
      BY <2>2, <3>1 DEF Rises
    <3>3. a[e] = Nobody
      BY <1>2, <2>3, <3>2
    <3>4. QED
      BY <2>2, <3>1, <3>3, RisesEnd
  <2> DEFINE passed == {x \in Names : \E k \in 1..d : a[k] = x}
  <2>6. R!Above(y) \subseteq passed
    <3>1. SUFFICES ASSUME NEW x \in Names, y \in R!Below(x)
                   PROVE  x \in passed
      BY DEF R!Above
    <3>2. PICK k \in 1..most + 1 : a[k] = x
      BY <1>1, <2>1, <2>2, <3>1, BelowRises
    <3>3. k \in 1..d
      <4>1. SUFFICES ASSUME k \in d + 1..most + 1
                     PROVE  FALSE
        OBVIOUS
      <4>2. QED
        BY <2>5, <3>2, <4>1, RosterFacts
    <3>4. QED
      BY <3>2, <3>3
  <2>7. IsFiniteSet(passed) /\ Cardinality(passed) \in Nat /\ Cardinality(passed) <= d
    <3> DEFINE D == {k \in 1..d : a[k] \in Names}
               f == [k \in D |-> a[k]]
    <3>1. IsFiniteSet(1..d) /\ Cardinality(1..d) = d
      BY FS_Interval
    <3>2. IsFiniteSet(D) /\ Cardinality(D) <= d /\ Cardinality(D) \in Nat
      <4>1. D \in SUBSET (1..d)
        OBVIOUS
      <4> HIDE DEF D
      <4>2. QED
        BY <3>1, <4>1, FS_Subset, FS_CardinalityType
    <3>3. f \in Surjection(D, passed)
      BY DEF Surjection
    <3> HIDE DEF D, passed, f
    <3>4. IsFiniteSet(passed) /\ Cardinality(passed) <= Cardinality(D)
      BY <3>2, <3>3, FS_Surjection
    <3>5. Cardinality(passed) \in Nat
      BY <3>4, FS_CardinalityType
    <3>6. QED
      BY <3>2, <3>4, <3>5
  <2> HIDE DEF passed
  <2>8. PICK m \in Nat : m = Cardinality(R!Above(y)) /\ m <= d
    <3>1. IsFiniteSet(R!Above(y)) /\ Cardinality(R!Above(y)) <= Cardinality(passed)
      BY <2>6, <2>7, FS_Subset
    <3>2. Cardinality(R!Above(y)) \in Nat
      BY <3>1, FS_CardinalityType
    <3>3. QED
      BY <2>7, <3>1, <3>2
  <2>9. PICK h \in Nat : h = R!HeightBelow(ups, answering, c) /\ (h >= d \/ h >= Deep)
    <3>1. most + 1 \in Nat /\ a[d] \in Names
      BY <1>2, <2>3
    <3>2. \/ R!HeightBelow(ups, answering, a[d]) \in Nat /\ R!HeightBelow(ups, answering, a[d]) >= d
          \/ R!HeightBelow(ups, answering, a[d]) \in Nat /\ R!HeightBelow(ups, answering, a[d]) >= Deep
      BY <2>1, <2>2, <2>4, <3>1, HeightOver
    <3>3. QED
      BY <2>3, <3>2
  <2>10. top + 1 + h < Deep /\ Deep \in Nat
    BY <1>2, <1>5, <2>9, RosterFacts
  <2>11. 1 + m < Deep
    BY <2>8, <2>9, <2>10
  <2>12. QED
    BY <2>8, <2>11
<1>7. Cardinality(R!Above(p)) = 0 /\ Cardinality(R!Above(c)) = 0
  BY <1>2, <1>3
<1>8. 1 < Deep
  <2>1. PICK a : Rises(a, 0, c)
    BY RisesThere
  <2>2. a[0] = c
    BY <2>1 DEF Rises
  <2>3. PICK h \in Nat : h = R!HeightBelow(ups, answering, c)
    <3>1. 0 \in 0..0 /\ a[0] \in Names /\ 0 \in Nat
      BY <1>2, <2>2
    <3>2. R!HeightBelow(ups, answering, a[0]) \in Nat
      BY <1>2, <2>1, <3>1, HeightOver
    <3>3. QED
      BY <2>2, <3>2
  <2>4. QED
    BY <1>2, <1>5, <2>3, RosterFacts
<1>9. ASSUME NEW y \in {c} \cup (answering \cap R!Below(c))
      PROVE  Cardinality(R!Above(p)) + 1 + Cardinality(R!Above(y)) - Cardinality(R!Above(c)) < Deep
  <2>1. CASE y = c
    BY <1>7, <1>8, <2>1
  <2>2. CASE y \in answering /\ y \in R!Below(c)
    BY <1>6, <1>7, <2>2
  <2>3. QED
    BY <2>1, <2>2
<1>10. QED
  BY <1>4, <1>9

\* A step of the notes leaves none to a session that does not answer.
LEMMA RosterStep ==
  ASSUME RosterInv, R!Next
  PROVE  RosterInv'
<1>1. PICK x \in Names : R!Main(x) \/ R!End(x) \/ \E p \in Names : R!Child(x, p) \/ R!Graft(x, p)
  BY DEF R!Next
<1>2. CASE R!Main(x)
  BY <1>2 DEF RosterInv, R!Main
<1>3. CASE R!End(x)
  BY <1>3 DEF RosterInv, R!End
<1>4. ASSUME NEW p \in Names, R!Child(x, p)
      PROVE  RosterInv'
  BY <1>4 DEF RosterInv, R!Child
<1>5. ASSUME NEW p \in Names, R!Graft(x, p)
      PROVE  RosterInv'
  BY <1>5 DEF RosterInv, R!Graft
<1>6. QED
  BY <1>1, <1>2, <1>3, <1>4, <1>5

\* For any names, depth and grafts: what pending::adoptable lets through makes no ring and leaves
\* nobody deeper than MAX_DEPTH, also in a branch whose own sessions come and go meanwhile
\* (directory.rs, directory/pending.rs).
THEOREM GraftsAlwaysFit == Stands => []GraftFits
<1>1. Begins => RosterInv
  BY DEF Begins, R!Init, RosterInv
<1>2. ASSUME RosterInv, [Goes]_<<part, vars, rosterVars, branching, calling, asking, naming>>
      PROVE  RosterInv'
  <2>1. CASE R!Next
    BY <1>2, <2>1, RosterStep
  <2>2. CASE UNCHANGED rosterVars
    BY <1>2, <2>2 DEF rosterVars, RosterInv
  <2>3. QED
    BY <1>2, <2>1, <2>2 DEF Goes
<1>3. RosterInv => GraftFits
  BY GraftsFit DEF GraftFits, R!GraftFits, R!Cardinality, Cardinality
<1>4. RosterInv /\ [Goes]_<<part, vars, rosterVars, branching, calling, asking, naming>> => RosterInv'
  BY <1>2
<1>5. QED
  BY <1>1, <1>3, <1>4, PTL DEF Stands
=================================================================================
