----------------------------- MODULE MintingProofs -----------------------------
(***************************************************************************)
(* What naming a child guarantees for any number of calls and sessions:    *)
(* the shape of its state, that no two children on their way up have one   *)
(* name until a reservation runs out, and that no call is refused for want *)
(* of room before as many children were named as there may be.             *)
(***************************************************************************)
EXTENDS Minting, Functions, FiniteSetTheorems, TLAPS

\* A call is made on a session, and a child has a name.
Attributed ==
  \A m \in Mints :
    /\ stage[m] # "none" => by[m] \in Ids
    /\ stage[m] \in {"drop", "named", "told", "bound", "released", "up"} => name[m] \in Ids

\* A child that has been named, or a call whose name may be a child's.
Bearing == {"named", "told", "failed", "gone"} \cup AtChild
Had(n) == name[n] # NoMint /\ stage[n] \in Bearing

\* What a loop has still to take is of children that were named on its session.
Queued(p) == {queue[p][i] : i \in DOMAIN queue[p]}
Sent == \A p \in Ids : \A n \in Queued(p) : Had(n) /\ by[n] = p

TypeInv == TypeOK /\ Attributed /\ Sent

LEMMA InitTypeInv == Init => TypeInv
<1> SUFFICES ASSUME Init PROVE TypeOK /\ Attributed /\ Sent
  BY DEF TypeInv
<1>1. bare \in BOOLEAN
  BY DEF Init
<1>2. Attributed
  BY MintingKinds DEF Init, Attributed
<1>3. Sent
  BY DEF Init, Sent, Queued
<1>4. queue \in [Ids -> Seq(Mints)]
  BY DEF Init
<1>5. QED
  BY <1>1, <1>2, <1>3, <1>4, MintingKinds DEF Init, TypeOK, Stages

\* What the loop of a session takes is of a child that was named on it.
LEMMA Taken ==
  ASSUME TypeInv, NEW p \in Ids, queue[p] # <<>>
  PROVE  /\ Head(queue[p]) \in Mints /\ Had(Head(queue[p])) /\ by[Head(queue[p])] = p
         /\ name[Head(queue[p])] \in Ids
<1>1. queue[p] \in Seq(Mints)
  BY DEF TypeInv, TypeOK
<1>2. Head(queue[p]) = queue[p][1] /\ 1 \in DOMAIN queue[p] /\ queue[p][1] \in Mints
  BY <1>1
<1>3. Head(queue[p]) \in Queued(p)
  BY <1>2 DEF Queued
<1>4. Had(Head(queue[p])) /\ by[Head(queue[p])] = p
  BY <1>3 DEF TypeInv, Sent
<1>5. QED
  BY <1>2, <1>4 DEF TypeInv, TypeOK, Had

\* Every variable keeps its kind ...
LEMMA StepKinds == TypeInv /\ [Next]_vars => TypeOK' /\ Attributed'
<1> SUFFICES ASSUME TypeInv, [Next]_vars
             PROVE  TypeOK' /\ Attributed'
  OBVIOUS
<1>0. TypeOK /\ Attributed
  BY DEF TypeInv
<1> USE MintingKinds, KinshipKinds
    DEF TypeOK, Attributed, Stages, AtCall, AtChild, Step, disk, keys, calls, Fresh
<1>1. ASSUME NEW m \in Mints, Answering(m)
      PROVE  TypeOK' /\ Attributed'
  <2>1. ASSUME NEW p \in Ids, Call(m, p)
        PROVE  TypeOK' /\ Attributed'
    <3>1. Process(p) \in Mints \cup {NoMint}
      BY DEF Process, Up
    <3>2. QED
      BY <1>0, <2>1, <3>1 DEF Call
  <2>2. CASE CountRunning(m)
    <3>1. Children(up, listed, by[m]) \subseteq Ids
      BY <1>0 DEF Children
    <3>2. QED
      BY <1>0, <2>2, <3>1 DEF CountRunning
  <2>3. CASE CountComing(m)
    BY <1>0, <2>3 DEF CountComing
  <2>4. CASE Look(m)
    BY <1>0, <2>4 DEF Look
  <2>5. CASE FindStale(m)
    BY <1>0, <2>5 DEF FindStale
  <2>6. CASE DropStale(m)
    BY <1>0, <2>6 DEF DropStale
  <2>7. CASE ReadHeld(m)
    BY <1>0, <2>7 DEF ReadHeld
  <2>8. CASE Reserve(m) \/ ReserveNot(m)
    <3>1. CASE Reserve(m)
      <4>1. PICK x \in Ids \ taken[m] :
              \/ /\ stage' = [stage EXCEPT ![m] = "named"]
                 /\ reserved' = [reserved EXCEPT ![x] = m] /\ name' = [name EXCEPT ![m] = x]
                 /\ taken' = [taken EXCEPT ![m] = {}]
              \/ taken' = [taken EXCEPT ![m] = @ \cup {x}] /\ UNCHANGED <<stage, reserved, name>>
        BY <3>1 DEF Reserve
      <4>2. stage[m] = "pick" /\ UNCHANGED <<up, listed, old, keys, by, on, heard, ran, bare>>
        BY <3>1 DEF Reserve
      <4>3. /\ stage' \in [Mints -> Stages] /\ reserved' \in [Ids -> Mints \cup {NoMint}]
            /\ name' \in [Mints -> Ids \cup {NoMint}] /\ taken' \in [Mints -> SUBSET Ids]
        <5>1. /\ stage \in [Mints -> Stages] /\ reserved \in [Ids -> Mints \cup {NoMint}]
              /\ name \in [Mints -> Ids \cup {NoMint}] /\ taken \in [Mints -> SUBSET Ids]
          BY <1>0
        <5>2. [taken EXCEPT ![m] = {}] \in [Mints -> SUBSET Ids] /\ [taken EXCEPT ![m] = @ \cup {x}] \in [Mints -> SUBSET Ids]
          BY <5>1
        <5>3. [stage EXCEPT ![m] = "named"] \in [Mints -> Stages]
          BY <5>1
        <5>4. QED
          BY <4>1, <5>1, <5>2, <5>3
      <4>4. TypeOK'
        BY <1>0, <4>2, <4>3
      <4>5. Attributed'
        BY <1>0, <4>1, <4>2
      <4>6. QED
        BY <4>4, <4>5
    <3>2. CASE ReserveNot(m)
      BY <1>0, <3>2 DEF ReserveNot
    <3>3. QED
      BY <2>8, <3>1, <3>2
  <2>9. CASE Answer(m)
    <3>1. queue' \in [Ids -> Seq(Mints)]
      BY <1>0, <2>9 DEF Answer
    <3>2. QED
      BY <1>0, <2>9, <3>1 DEF Answer
  <2>10. QED
    BY <1>1, <2>1, <2>2, <2>3, <2>4, <2>5, <2>6, <2>7, <2>8, <2>9 DEF Answering
<1>2. ASSUME NEW m \in Mints, Rising(m)
      PROVE  TypeOK' /\ Attributed'
  <2>1. CASE Bind(m)
    BY <1>0, <2>1 DEF Bind
  <2>2. CASE Release(m)
    BY <1>0, <2>2 DEF Release
  <2>3. CASE WriteNote(m)
    BY <1>0, <2>3 DEF WriteNote
  <2>4. QED
    BY <1>2, <2>1, <2>2, <2>3 DEF Rising
<1>3. ASSUME NEW m \in Mints, End(m)
      PROVE  TypeOK' /\ Attributed'
  <2>1. \A n \in Mints : stage'[n] \in {"gone", stage[n]}
    BY <1>0, <1>3 DEF End
  <2>2. stage' \in [Mints -> Stages]
    BY <1>0, <1>3, <2>1 DEF End
  <2>3. Attributed'
    BY <1>0, <1>3, <2>1 DEF End
  <2>4. minted' \in [Ids -> [Ids -> Mints \cup {NoMint}]] /\ queue' \in [Ids -> Seq(Mints)]
    BY <1>0, <1>3 DEF End
  <2>5. QED
    BY <1>0, <1>3, <2>2, <2>3, <2>4 DEF End
<1>4. ASSUME NEW m \in Mints, Lose(m)
      PROVE  TypeOK' /\ Attributed'
  BY <1>0, <1>4 DEF Lose
<1>5. ASSUME NEW x \in Ids, Age(x)
      PROVE  TypeOK' /\ Attributed'
  BY <1>0, <1>5 DEF Age
<1>6. ASSUME NEW p \in Ids, Keep(p)
      PROVE  TypeOK' /\ Attributed'
  <2>1. queue[p] # <<>> /\ Take(p)
    BY <1>6 DEF Keep
  <2>2. Head(queue[p]) \in Mints /\ name[Head(queue[p])] \in Ids
    BY <2>1, Taken
  <2>3. queue' \in [Ids -> Seq(Mints)]
    BY <1>0, <2>1 DEF Take
  <2>4. minted' \in [Ids -> [Ids -> Mints \cup {NoMint}]]
    BY <1>0, <2>1, <2>2 DEF Take
  <2>5. QED
    BY <1>0, <2>1, <2>3, <2>4 DEF Take
<1>7. CASE UNCHANGED vars
  BY <1>0, <1>7 DEF vars
<1>8. QED
  BY <1>1, <1>2, <1>3, <1>4, <1>5, <1>6, <1>7 DEF Next

\* Every step but these leaves what is known alone: what a call has before it, or which it made.
LEMMA Onward ==
  ASSUME TypeInv, [Next]_vars
  PROVE  /\ \A n \in Mints : Had(n) => Had(n)' /\ name'[n] = name[n] /\ by'[n] = by[n]
         /\ \A n \in Mints : stage[n] # "none" => by'[n] = by[n]
<1> USE MintingKinds DEF TypeInv, TypeOK, Had, Bearing, AtChild, AtCall, Step, disk, keys, calls
<1>1. ASSUME NEW m \in Mints, Answering(m)
      PROVE  /\ \A n \in Mints : Had(n) => Had(n)' /\ name'[n] = name[n] /\ by'[n] = by[n]
             /\ \A n \in Mints : stage[n] # "none" => by'[n] = by[n]
  <2>1. ASSUME NEW p \in Ids, Call(m, p)
        PROVE  /\ \A n \in Mints : Had(n) => Had(n)' /\ name'[n] = name[n] /\ by'[n] = by[n]
               /\ \A n \in Mints : stage[n] # "none" => by'[n] = by[n]
    BY <2>1 DEF Call
  <2>2. CASE CountRunning(m) \/ CountComing(m) \/ Look(m) \/ ReadHeld(m) \/ Answer(m)
    BY <2>2 DEF CountRunning, CountComing, Look, ReadHeld, Answer
  <2>3. CASE FindStale(m) \/ DropStale(m)
    BY <2>3 DEF FindStale, DropStale
  <2>4. CASE Reserve(m) \/ ReserveNot(m)
    BY <2>4 DEF Reserve, ReserveNot
  <2> QED
    BY <1>1, <2>1, <2>2, <2>3, <2>4 DEF Answering
<1>2. ASSUME NEW m \in Mints, Rising(m) \/ Lose(m)
      PROVE  /\ \A n \in Mints : Had(n) => Had(n)' /\ name'[n] = name[n] /\ by'[n] = by[n]
             /\ \A n \in Mints : stage[n] # "none" => by'[n] = by[n]
  BY <1>2 DEF Rising, Bind, Release, WriteNote, Lose
<1>3. ASSUME NEW m \in Mints, End(m)
      PROVE  /\ \A n \in Mints : Had(n) => Had(n)' /\ name'[n] = name[n] /\ by'[n] = by[n]
             /\ \A n \in Mints : stage[n] # "none" => by'[n] = by[n]
  <2>1. \A n \in Mints : stage'[n] \in {"gone", stage[n]}
    BY <1>3 DEF End
  <2> QED
    BY <1>3, <2>1 DEF End
<1>4. CASE \E x \in Ids : Age(x) \/ Keep(x)
  BY <1>4 DEF Age, Keep, Take
<1>5. CASE UNCHANGED vars
  BY <1>5 DEF vars
<1> QED
  BY <1>1, <1>2, <1>3, <1>4, <1>5 DEF Next

\* ... and a loop is sent nothing but children that were named on its session.
LEMMA StepSent == TypeInv /\ [Next]_vars => Sent'
<1> SUFFICES ASSUME TypeInv, [Next]_vars, NEW p \in Ids
             PROVE  \A n \in Queued(p)' : (Had(n) /\ by[n] = p)'
  BY DEF Sent
<1>0. queue \in [Ids -> Seq(Mints)] /\ queue[p] \in Seq(Mints) /\ Queued(p) \subseteq Mints
      /\ \A n \in Queued(p) : Had(n) /\ by[n] = p
  BY DEF TypeInv, TypeOK, Sent, Queued
<1>1. \A n \in Queued(p) : (Had(n) /\ by[n] = p)'
  BY <1>0, Onward
<1>2. CASE UNCHANGED queue
  BY <1>1, <1>2 DEF Queued
<1>3. ASSUME NEW m \in Mints, Answer(m)
      PROVE  \A n \in Queued(p)' : (Had(n) /\ by[n] = p)'
  <2>1. by[m] \in Ids /\ name[m] \in Ids /\ (Had(m) /\ name[m] = name'[m] /\ by'[m] = by[m])
    BY <1>3, MintingKinds DEF TypeInv, TypeOK, Attributed, Answer, Step, Had, Bearing, calls
  <2>2. queue' = [queue EXCEPT ![by[m]] = Append(@, m)]
    BY <1>3 DEF Answer
  <2>3. queue'[p] = IF p = by[m] THEN Append(queue[p], m) ELSE queue[p]
    BY <1>0, <2>2
  <2>4. Queued(p)' \subseteq Queued(p) \cup IF p = by[m] THEN {m} ELSE {}
    BY <1>0, <2>3 DEF Queued
  <2>5. Had(m)'
    BY <2>1, Onward
  <2>6. QED
    BY <1>1, <2>1, <2>4, <2>5
<1>4. ASSUME NEW q \in Ids, Keep(q)
      PROVE  \A n \in Queued(p)' : (Had(n) /\ by[n] = p)'
  <2>1. queue[q] # <<>> /\ queue' = [queue EXCEPT ![q] = Tail(@)]
    BY <1>4 DEF Keep, Take
  <2>2. queue'[p] = queue[p] \/ (p = q /\ queue'[p] = Tail(queue[p]))
    BY <1>0, <2>1
  <2>3. queue[q] \in Seq(Mints)
    BY <1>0
  <2>4. p = q => \A i \in DOMAIN Tail(queue[p]) : Tail(queue[p])[i] = queue[p][i + 1] /\ i + 1 \in DOMAIN queue[p]
    BY <1>0, <2>1
  <2>5. Queued(p)' \subseteq Queued(p)
    BY <2>2, <2>4 DEF Queued
  <2>6. QED
    BY <1>1, <2>5
<1>5. ASSUME NEW m \in Mints, End(m)
      PROVE  \A n \in Queued(p)' : (Had(n) /\ by[n] = p)'
  <2>1. queue' = [queue EXCEPT ![name[m]] = <<>>]
    BY <1>5 DEF End
  <2>2. queue'[p] = queue[p] \/ queue'[p] = <<>>
    BY <1>0, <2>1
  <2>3. Queued(p)' \subseteq Queued(p)
    BY <2>2 DEF Queued
  <2>4. QED
    BY <1>1, <2>3
<1>6. QED
  <2>1. UNCHANGED queue \/ (\E m \in Mints : Answer(m) \/ End(m)) \/ \E q \in Ids : Keep(q)
    BY DEF Next, vars, Answering, Call, CountRunning, CountComing, Look, FindStale, DropStale, ReadHeld,
           Reserve, ReserveNot, Rising, Bind, Release, WriteNote, Lose, Age, disk, keys, calls
  <2>2. QED
    BY <1>2, <1>3, <1>4, <1>5, <2>1

LEMMA StepTypeInv == TypeInv /\ [Next]_vars => TypeInv'
  BY StepKinds, StepSent DEF TypeInv

\* Every variable keeps its shape (Minting!TypeOK), for any calls among any sessions.
THEOREM Typed == Spec => []TypeOK
<1>1. TypeInv => TypeOK
  BY DEF TypeInv
<1>2. QED
  BY <1>1, InitTypeInv, StepTypeInv, PTL DEF Spec

----------------------------------------------------------------------------
\* OneComing, until a reservation runs out.

Waiting == {"named", "told", "bound"}

\* A child on its way up holds the reservation of its name, and nobody is letting go of any.
Reserves ==
  /\ old = {}
  /\ \A m \in Mints : stage[m] # "drop"
  /\ \A m \in Mints : stage[m] \in Waiting => reserved[name[m]] = m

ComingInv == TypeInv /\ (~bare => Reserves)

LEMMA StepReserves == ComingInv /\ [Next]_vars /\ ~bare' => Reserves'
<1> SUFFICES ASSUME TypeInv, Reserves, [Next]_vars, ~bare'
             PROVE  Reserves'
  <2>1. ASSUME [Next]_vars, ~bare', TypeInv
        PROVE  ~bare
    <3> USE <2>1 DEF TypeInv, TypeOK, disk, keys, calls
    <3>1. CASE \E m \in Mints : Answering(m)
      BY <3>1 DEF Answering, Call, CountRunning, CountComing, Look, FindStale, DropStale, ReadHeld,
                  Reserve, ReserveNot, Answer
    <3>2. CASE \E m \in Mints : Rising(m) \/ End(m) \/ Lose(m)
      BY <3>2 DEF Rising, Bind, Release, WriteNote, End, Lose
    <3>3. CASE \E x \in Ids : Age(x) \/ Keep(x)
      BY <3>3 DEF Age, Keep, Take
    <3>4. CASE UNCHANGED vars
      BY <3>4 DEF vars
    <3>5. QED
      BY <2>1, <3>1, <3>2, <3>3, <3>4 DEF Next
  <2>2. QED
    BY <2>1 DEF ComingInv
<1> USE MintingKinds DEF TypeInv, TypeOK, Attributed, Reserves, Waiting,
                         Stages, AtCall, AtChild, Step, disk, keys, calls
<1>1. ASSUME NEW m \in Mints, Answering(m)
      PROVE  Reserves'
  <2>1. ASSUME NEW p \in Ids, Call(m, p)
        PROVE  Reserves'
    BY <2>1 DEF Call
  <2>2. CASE CountRunning(m) \/ CountComing(m) \/ Look(m)
    BY <2>2 DEF CountRunning, CountComing, Look
  <2>3. CASE FindStale(m) \/ DropStale(m)
    BY <2>3 DEF FindStale, DropStale
  <2>4. CASE ReadHeld(m) \/ Answer(m)
    BY <2>4 DEF ReadHeld, Answer
  <2>5. CASE Reserve(m) \/ ReserveNot(m)
    BY <2>5 DEF Reserve, ReserveNot
  <2>6. QED
    BY <1>1, <2>1, <2>2, <2>3, <2>4, <2>5 DEF Answering
<1>2. ASSUME NEW m \in Mints, Rising(m)
      PROVE  Reserves'
  <2>1. CASE Bind(m) \/ WriteNote(m)
    BY <2>1 DEF Bind, WriteNote
  <2>2. CASE Release(m)
    BY <2>2 DEF Release
  <2>3. QED
    BY <1>2, <2>1, <2>2 DEF Rising
<1>3. ASSUME NEW m \in Mints, End(m)
      PROVE  Reserves'
  <2>1. \A n \in Mints : stage'[n] \in {"gone", stage[n]}
    BY <1>3 DEF End
  <2>2. UNCHANGED <<reserved, old, name>>
    BY <1>3 DEF End
  <2>3. QED
    BY <2>1, <2>2
<1>4. ASSUME NEW m \in Mints, Lose(m)
      PROVE  Reserves'
  BY <1>4 DEF Lose
<1>5. ASSUME NEW x \in Ids, Age(x) \/ Keep(x)
      PROVE  Reserves'
  BY <1>5 DEF Age, Keep, Take
<1>6. CASE UNCHANGED vars
  BY <1>6 DEF vars
<1>7. QED
  BY <1>1, <1>2, <1>3, <1>4, <1>5, <1>6 DEF Next

\* No two children on their way up have one name (Minting!OneComing), whatever the calls that named
\* them did at the same moment, until a reservation runs out.
THEOREM NamedApart == Spec => []OneComing
<1>1. Init => ComingInv
  BY InitTypeInv DEF Init, ComingInv, Reserves, Waiting
<1>2. ComingInv /\ [Next]_vars => ComingInv'
  BY StepTypeInv, StepReserves DEF ComingInv
<1>3. ComingInv => OneComing
  BY DEF ComingInv, Reserves, OneComing, Waiting
<1>4. QED
  BY <1>1, <1>2, <1>3, PTL DEF Spec

----------------------------------------------------------------------------
\* NeverOvercounted.

\* What of the shape the rest needs.
Shapes ==
  /\ up \in [Ids -> Ids \cup {Nobody}] /\ listed \subseteq Ids
  /\ reserved \in [Ids -> Mints \cup {NoMint}] /\ stage \in [Mints -> Stages]
  /\ by \in [Mints -> Ids \cup {NoMint}] /\ name \in [Mints -> Ids \cup {NoMint}]
  /\ heard \in [Mints -> SUBSET Ids] /\ ran \in [Mints -> SUBSET Ids]
  /\ Attributed

LEMMA InShape == TypeInv => Shapes
  BY DEF TypeInv, TypeOK, Shapes

HadBy(p) == {n \in Mints : Had(n) /\ by[n] = p}
NamesBy(p) == {name[n] : n \in HadBy(p)}
Distinct == \A m, n \in Mints : Had(m) /\ Had(n) /\ name[m] = name[n] => m = n
Begun == {n \in Mints : stage[n] # "none"}

\* The names a session holds a secret for.
Holds(p) == {x \in Ids : minted[p][x] # NoMint}

\* What is known of a session's children is of children that were named for it.
Known ==
  /\ \A x \in Ids : up[x] # Nobody => x \in NamesBy(up[x])
  /\ \A p \in Ids : Holds(p) \subseteq NamesBy(p)
  /\ \A m \in Mints : stage[m] \in {"count", "coming"} => heard[m] \subseteq NamesBy(by[m])
  /\ \A m \in Mints : stage[m] = "coming" => ran[m] \subseteq NamesBy(by[m])

\* A name whose child has taken its reservation down, and is or will be seen as running.
Risen(x) ==
  \/ up[x] # Nobody
  \/ \E n \in Mints : stage[n] = "released" /\ name[n] = x
  \/ \E m \in Mints : stage[m] = "coming" /\ x \in ran[m]

Spent == \A x \in Ids : Risen(x) => reserved[x] = NoMint
Full == \A m \in Mints : stage[m] = "full" => Cardinality(HadBy(by[m])) >= MaxChildren

RoomInv == TypeInv /\ IsFiniteSet(Begun) /\ Known /\ (Distinct => Spent /\ Full)

LEMMA InitRoomInv == Init => RoomInv
<1> SUFFICES ASSUME Init PROVE RoomInv
  OBVIOUS
<1>1. Begun = {}
  BY DEF Init, Begun
<1>2. IsFiniteSet(Begun)
  BY <1>1, FS_EmptySet
<1>3. Known /\ Spent /\ Full
  BY DEF Init, Known, Holds, Spent, Risen, Full
<1> QED
  BY <1>2, <1>3, InitTypeInv DEF RoomInv

\* What was named for a session stays named for it.
LEMMA NamedStays ==
  ASSUME TypeInv, [Next]_vars
  PROVE  /\ \A p : HadBy(p) \subseteq HadBy(p)' /\ NamesBy(p) \subseteq NamesBy(p)'
         /\ Distinct' => Distinct
<1>1. \A n \in Mints : Had(n) => Had(n)' /\ name'[n] = name[n] /\ by'[n] = by[n]
  BY Onward
<1>2. ASSUME NEW p PROVE HadBy(p) \subseteq HadBy(p)' /\ NamesBy(p) \subseteq NamesBy(p)'
  BY <1>1 DEF HadBy, NamesBy
<1>3. Distinct' => Distinct
  BY <1>1 DEF Distinct
<1> QED
  BY <1>2, <1>3

LEMMA StepBegun == RoomInv /\ [Next]_vars => IsFiniteSet(Begun)'
<1> SUFFICES ASSUME RoomInv, [Next]_vars PROVE IsFiniteSet(Begun')
  OBVIOUS
<1>0. Shapes
  BY InShape DEF RoomInv
<1> USE DEF Shapes, Step
<1>1. \E m : \A n \in Mints \ {m} : stage'[n] # "none" => stage[n] # "none"
  <2>1. CASE \E m \in Mints : Answering(m)
    BY <1>0, <2>1 DEF Answering, Call, CountRunning, CountComing, Look, FindStale, DropStale, ReadHeld,
                Reserve, ReserveNot, Answer
  <2>2. CASE \E m \in Mints : Rising(m) \/ Lose(m)
    BY <1>0, <2>2 DEF Rising, Bind, Release, WriteNote, Lose
  <2>3. CASE \E m \in Mints : End(m)
    BY <1>0, <2>3 DEF End, AtCall
  <2>4. CASE (\E x \in Ids : Age(x) \/ Keep(x)) \/ UNCHANGED vars
    BY <1>0, <2>4 DEF Age, Keep, Take, vars
  <2> QED
    BY <2>1, <2>2, <2>3, <2>4 DEF Next
<1>2. PICK m : \A n \in Mints \ {m} : stage'[n] # "none" => stage[n] # "none"
  BY <1>1
<1>3. Begun' \subseteq Begun \cup {m}
  BY <1>2 DEF Begun
<1> QED
  BY <1>3, FS_AddElement, FS_Subset DEF RoomInv

LEMMA StepKnown == RoomInv /\ [Next]_vars => Known'
<1> SUFFICES ASSUME RoomInv, [Next]_vars PROVE Known'
  OBVIOUS
<1>1. TypeInv /\ Known /\ Shapes
  BY InShape DEF RoomInv
<1>2. \A n \in Mints : Had(n) => Had(n)' /\ name'[n] = name[n] /\ by'[n] = by[n]
  BY <1>1, Onward
<1>3. \A n \in Mints : stage[n] # "none" => by'[n] = by[n]
  BY <1>1, Onward
<1> USE MintingKinds, KinshipKinds DEF Shapes, Attributed, AtCall, AtChild, Step, disk, keys, calls
<1>4. ASSUME NEW x \in Ids, up'[x] # Nobody PROVE (x \in NamesBy(up[x]))'
  <2>1. ASSUME NEW m \in Mints, WriteNote(m) PROVE name'[m] = name[m] /\ name[m] \in Ids /\ m \in Mints /\ Had(m)' /\ by'[m] = by[m]
    BY <1>1, <2>1 DEF WriteNote, Had, Bearing
  <2>2. CASE \E m \in Mints : WriteNote(m)
    <3>1. PICK m \in Mints : WriteNote(m)
      BY <2>2
    <3>2. up' = [up EXCEPT ![name[m]] = by[m]]
      BY <3>1 DEF WriteNote
    <3>3. CASE x = name[m]
      <4>1. up'[x] = by[m]
        BY <1>1, <3>2, <3>3
      <4> QED
        BY <2>1, <3>1, <3>3, <4>1 DEF NamesBy, HadBy
    <3>4. CASE x # name[m]
      <4>1. up'[x] = up[x]
        BY <1>1, <3>2, <3>4
      <4> QED
        BY <1>1, <1>2, <1>4, <4>1 DEF Known, NamesBy, HadBy
    <3> QED
      BY <3>3, <3>4
  <2>3. CASE \E m \in Mints : End(m)
    BY <1>1, <1>2, <1>4, <2>3 DEF End, Known, NamesBy, HadBy
  <2>4. CASE up' = up
    BY <1>1, <1>2, <1>4, <2>4 DEF Known, NamesBy, HadBy
  <2> QED
    BY <2>2, <2>3, <2>4
    DEF Next, vars, Answering, Call, CountRunning, CountComing, Look, FindStale, DropStale, ReadHeld,
        Reserve, ReserveNot, Answer, Keep, Take, Rising, Bind, Release, Lose, Age
<1>5. ASSUME NEW p \in Ids PROVE (Holds(p) \subseteq NamesBy(p))'
  <2>0. Holds(p) \subseteq NamesBy(p)'
    BY <1>1, <1>2 DEF Known, NamesBy, HadBy
  <2>1. ASSUME NEW q \in Ids, Keep(q) PROVE Holds(p)' \subseteq NamesBy(p)'
    <3> DEFINE n == Head(queue[q])
    <3>1. queue[q] # <<>> /\ minted' = [minted EXCEPT ![q][name[n]] = n] /\ name' = name /\ by' = by
      BY <2>1 DEF Keep, Take
    <3>2. n \in Mints /\ Had(n) /\ by[n] = q /\ name[n] \in Ids
      BY <1>1, <3>1, Taken
    <3> HIDE DEF n
    <3>3. Holds(p)' \subseteq Holds(p) \/ (p = q /\ Holds(p)' \subseteq Holds(p) \cup {name[n]})
      BY <1>1, <3>1, <3>2 DEF Holds
    <3>4. p = q => name[n] \in NamesBy(p)'
      BY <1>2, <3>1, <3>2 DEF NamesBy, HadBy
    <3> QED
      BY <2>0, <3>3, <3>4
  <2>2. ASSUME NEW m \in Mints, End(m) PROVE Holds(p)' \subseteq Holds(p)
    <3>1. minted' = [minted EXCEPT ![name[m]] = [c \in Ids |-> NoMint]]
      BY <2>2 DEF End
    <3>2. minted'[p] = minted[p] \/ minted'[p] = [c \in Ids |-> NoMint]
      BY <1>1, <3>1
    <3> QED
      BY <3>2 DEF Holds
  <2>3. CASE minted' = minted
    BY <2>0, <2>3 DEF Holds
  <2>4. minted' = minted \/ (\E m \in Mints : End(m)) \/ \E q \in Ids : Keep(q)
    BY DEF Next, vars, Answering, Call, CountRunning, CountComing, Look, FindStale, DropStale, ReadHeld,
        Reserve, ReserveNot, Answer, Rising, Bind, Release, WriteNote, Lose, Age
  <2> QED
    BY <2>0, <2>1, <2>2, <2>3, <2>4
<1>6. ASSUME NEW n \in Mints
      PROVE  (/\ stage[n] \in {"count", "coming"} => heard[n] \subseteq NamesBy(by[n])
              /\ stage[n] = "coming" => ran[n] \subseteq NamesBy(by[n]))'
  <2>1. ASSUME NEW m \in Mints, NEW p \in Ids, Call(m, p)
        PROVE  by'[m] = p /\ heard'[m] \subseteq NamesBy(p) /\ stage'[m] # "coming"
               /\ (n # m => UNCHANGED <<stage[n], heard[n], ran[n], by[n]>>)
    BY <1>1, <2>1 DEF Call, Known, Holds
  <2>2. ASSUME NEW m \in Mints, CountRunning(m)
        PROVE  stage[m] = "count" /\ ran'[m] \subseteq NamesBy(by[m]) /\ UNCHANGED <<heard, by>>
               /\ (n # m => UNCHANGED <<stage[n], ran[n]>>)
    <3>1. by[m] \in Ids
      BY <1>1, <2>2 DEF CountRunning
    <3>2. Children(up, listed, by[m]) \subseteq NamesBy(by[m])
      BY <1>1, <3>1 DEF Children, Known
    <3> QED
      BY <1>1, <2>2, <3>2 DEF CountRunning
  <2>3. ASSUME NEW m \in Mints, CountComing(m)
        PROVE  stage'[m] \notin {"count", "coming"} /\ UNCHANGED by
               /\ (n # m => UNCHANGED <<stage[n], ran[n], heard[n]>>)
    BY <1>1, <2>3 DEF CountComing
  <2>4. CASE UNCHANGED <<heard, ran, by>> /\ (stage'[n] \in {"count", "coming"} => stage'[n] = stage[n])
    BY <1>1, <1>2, <2>4 DEF Known, NamesBy, HadBy
  <2>5. CASE \E m \in Mints : \E p \in Ids : Call(m, p)
    BY <1>1, <1>2, <2>1, <2>5 DEF Known, NamesBy, HadBy
  <2>6. CASE \E m \in Mints : CountRunning(m)
    BY <1>1, <1>2, <2>2, <2>6 DEF Known, NamesBy, HadBy
  <2>7. CASE \E m \in Mints : CountComing(m)
    BY <1>1, <1>2, <2>3, <2>7 DEF Known, NamesBy, HadBy
  <2>8. CASE \E m \in Mints : End(m)
    <3>1. stage'[n] \in {"gone", stage[n]}
      BY <1>1, <2>8 DEF End
    <3> QED
      BY <2>4, <2>8, <3>1 DEF End
  <2>9. CASE \E m \in Mints : \/ Look(m) \/ FindStale(m) \/ DropStale(m) \/ ReadHeld(m) \/ Reserve(m)
                              \/ ReserveNot(m) \/ Answer(m) \/ Rising(m) \/ Lose(m)
    <3>1. PICK m \in Mints : \/ Look(m) \/ FindStale(m) \/ DropStale(m) \/ ReadHeld(m) \/ Reserve(m)
                             \/ ReserveNot(m) \/ Answer(m) \/ Rising(m) \/ Lose(m)
      BY <2>9
    <3>2. UNCHANGED <<heard, ran, by>>
      BY <3>1 DEF Look, FindStale, DropStale, ReadHeld, Reserve, ReserveNot, Answer, Rising, Bind, Release,
                  WriteNote, Lose
    <3>3. stage' = stage \/ \E s \in Stages \ {"count", "coming"} : stage' = [stage EXCEPT ![m] = s]
      BY <3>1 DEF Look, FindStale, DropStale, ReadHeld, Reserve, ReserveNot, Answer, Rising, Bind, Release,
                  WriteNote, Lose, Stages
    <3> QED
      BY <1>1, <2>4, <3>2, <3>3
  <2>10. CASE (\E x \in Ids : Age(x) \/ Keep(x)) \/ UNCHANGED vars
    BY <2>4, <2>10 DEF Age, Keep, Take, vars
  <2> QED
    BY <2>5, <2>6, <2>7, <2>8, <2>9, <2>10 DEF Next, Answering
<1> QED
  BY <1>4, <1>5, <1>6 DEF Known

\* A name whose child is running was had by some child.
LEMMA RisenHad ==
  ASSUME RoomInv, NEW x \in Ids, Risen(x)
  PROVE  \E n \in Mints : Had(n) /\ name[n] = x
<1> USE MintingKinds DEF RoomInv, TypeInv, TypeOK, Attributed, Known, NamesBy, HadBy
<1>1. CASE up[x] # Nobody
  BY <1>1
<1>2. CASE \E n \in Mints : stage[n] = "released" /\ name[n] = x
  BY <1>2 DEF Had, Bearing, AtChild
<1>3. CASE \E m \in Mints : stage[m] = "coming" /\ x \in ran[m]
  BY <1>3
<1> QED
  BY <1>1, <1>2, <1>3 DEF Risen

LEMMA StepSpent == RoomInv /\ [Next]_vars /\ Distinct' => Spent'
<1> SUFFICES ASSUME RoomInv, [Next]_vars, Distinct', NEW x \in Ids, Risen(x)'
             PROVE  reserved'[x] = NoMint
  BY DEF Spent
<1>1. TypeInv /\ Known /\ Spent /\ Shapes
  BY NamedStays, InShape DEF RoomInv
<1> USE MintingKinds, KinshipKinds DEF Shapes, Attributed, Step, disk, keys, calls
<1>2. Risen(x) => reserved'[x] = NoMint
  <2> SUFFICES ASSUME Risen(x), reserved'[x] # NoMint PROVE FALSE
    OBVIOUS
  <2>1. reserved[x] = NoMint
    BY <1>1 DEF Spent
  <2>2. PICK m \in Mints : Reserve(m)
    BY <1>1, <2>1 DEF Next, vars, Answering, Call, CountRunning, CountComing, Look, FindStale, DropStale,
                      ReadHeld, ReserveNot, Answer, Keep, Take, Rising, Bind, Release, WriteNote, End, Lose, Age
  <2>3. stage[m] = "pick" /\ stage'[m] = "named" /\ name'[m] = x
    BY <1>1, <2>1, <2>2 DEF Reserve
  <2>4. PICK n \in Mints : Had(n) /\ name[n] = x
    BY RisenHad
  <2>5. m # n /\ Had(m)'
    BY <2>3, <2>4 DEF Had, Bearing, AtChild
  <2>6. Had(n)' /\ name'[n] = x
    BY <1>1, <2>4, Onward
  <2> QED
    BY <2>3, <2>5, <2>6 DEF Distinct
<1>3. Risen(x) \/ reserved'[x] = NoMint
  <2>1. CASE \E m \in Mints : CountRunning(m)
    <3>1. PICK m \in Mints : CountRunning(m)
      BY <2>1
    <3>2. ran'[m] = Children(up, listed, by[m]) /\ by[m] \in Ids
          /\ \A n \in Mints \ {m} : UNCHANGED <<stage[n], ran[n]>>
      BY <1>1, <3>1 DEF CountRunning
    <3>3. x \in ran'[m] => up[x] # Nobody
      BY <3>2 DEF Children
    <3>4. UNCHANGED <<up, name>> /\ stage'[m] = "coming"
      BY <1>1, <3>1 DEF CountRunning
    <3> QED
      BY <3>2, <3>3, <3>4 DEF Risen
  <2>2. CASE \E m \in Mints : Release(m)
    BY <1>1, <2>2 DEF Release, Risen
  <2>3. CASE \E m \in Mints : WriteNote(m)
    BY <1>1, <2>3 DEF WriteNote, Risen
  <2>4. CASE \E m \in Mints : End(m)
    <3>1. \A n \in Mints : stage'[n] \in {"gone", stage[n]}
      BY <1>1, <2>4 DEF End
    <3> QED
      BY <1>1, <2>4, <3>1 DEF End, Risen
  <2>5. CASE \E m \in Mints : Reserve(m) \/ ReserveNot(m) \/ FindStale(m) \/ DropStale(m)
    BY <1>1, <2>5 DEF Reserve, ReserveNot, FindStale, DropStale, Risen
  <2>6. CASE \E m \in Mints : CountComing(m) \/ \E p \in Ids : Call(m, p)
    BY <1>1, <2>6 DEF CountComing, Call, Risen
  <2>7. CASE \E m \in Mints : Look(m) \/ ReadHeld(m) \/ Answer(m) \/ Bind(m) \/ Lose(m)
    BY <1>1, <2>7 DEF Look, ReadHeld, Answer, Bind, Lose, Risen
  <2>8. CASE (\E y \in Ids : Age(y) \/ Keep(y)) \/ UNCHANGED vars
    BY <2>8 DEF Age, Keep, Take, vars, Risen
  <2> QED
    BY <2>1, <2>2, <2>3, <2>4, <2>5, <2>6, <2>7, <2>8 DEF Next, Answering, Rising
<1> QED
  BY <1>2, <1>3

LEMMA NamesFinite ==
  ASSUME NEW p, IsFiniteSet(HadBy(p))
  PROVE  IsFiniteSet(NamesBy(p)) /\ Cardinality(NamesBy(p)) <= Cardinality(HadBy(p))
<1> DEFINE f == [n \in HadBy(p) |-> name[n]]
<1>1. f \in Surjection(HadBy(p), NamesBy(p))
  BY DEF Surjection, NamesBy
<1> QED
  BY <1>1, FS_Surjection

\* Where the names differ, none that is running is counted as coming too; so the two together are
\* no more than were named.
LEMMA NoneTwice ==
  ASSUME RoomInv, Distinct, NEW m \in Mints, stage[m] = "coming"
  PROVE  Cardinality(ran[m]) + Cardinality({x \in heard[m] : Fresh(x)}) <= Cardinality(HadBy(by[m]))
<1> DEFINE coming == {x \in heard[m] : Fresh(x)}
           p == by[m]
<1>1. ran[m] \subseteq NamesBy(p) /\ coming \subseteq NamesBy(p) /\ ran[m] \subseteq Ids
  BY DEF RoomInv, Known, TypeInv, TypeOK
<1>2. ran[m] \cap coming = {}
  <2>1. \A x \in ran[m] : reserved[x] = NoMint
    BY <1>1 DEF RoomInv, Spent, Risen
  <2> QED
    BY <2>1 DEF Fresh
<1>3. IsFiniteSet(HadBy(p))
  <2>1. HadBy(p) \subseteq Begun
    BY DEF HadBy, Had, Bearing, Begun, AtChild
  <2> QED
    BY <2>1, FS_Subset DEF RoomInv
<1>4. IsFiniteSet(NamesBy(p)) /\ Cardinality(NamesBy(p)) <= Cardinality(HadBy(p))
  BY <1>3, NamesFinite
<1>5. IsFiniteSet(ran[m]) /\ IsFiniteSet(coming) /\ IsFiniteSet(ran[m] \cup coming)
  BY <1>1, <1>4, FS_Subset, FS_Union
<1>6. Cardinality(ran[m] \cup coming) <= Cardinality(NamesBy(p))
  BY <1>1, <1>4, FS_Subset
<1>7. Cardinality(ran[m] \cup coming) = Cardinality(ran[m]) + Cardinality(coming)
  <2>1. Cardinality(ran[m] \cup coming)
          = Cardinality(ran[m]) + Cardinality(coming) - Cardinality(ran[m] \cap coming)
    BY <1>5, FS_Union
  <2>2. Cardinality(ran[m] \cap coming) = 0
    BY <1>2, FS_EmptySet
  <2>3. Cardinality(ran[m]) \in Nat /\ Cardinality(coming) \in Nat
    BY <1>5, FS_CardinalityType
  <2> HIDE DEF coming
  <2> QED
    BY <2>1, <2>2, <2>3
<1> HIDE DEF coming, p
<1>8. /\ Cardinality(ran[m]) \in Nat /\ Cardinality(coming) \in Nat
      /\ Cardinality(NamesBy(p)) \in Nat /\ Cardinality(HadBy(p)) \in Nat
  BY <1>3, <1>4, <1>5, FS_CardinalityType
<1>9. Cardinality(ran[m]) + Cardinality(coming) <= Cardinality(HadBy(p))
  BY <1>4, <1>6, <1>7, <1>8
<1> QED
  BY <1>9 DEF coming, p

LEMMA StepFull == RoomInv /\ [Next]_vars /\ Distinct' => Full'
<1> SUFFICES ASSUME RoomInv, [Next]_vars, Distinct', NEW m \in Mints, stage'[m] = "full"
             PROVE  (Cardinality(HadBy(by[m])) >= MaxChildren)'
  BY DEF Full
<1>1. TypeInv /\ Distinct /\ Full /\ Shapes
  BY NamedStays, InShape DEF RoomInv
<1> USE MintingKinds, KinshipKinds DEF Shapes, Step, disk, keys, calls
<1>2. stage[m] = "full" \/ CountComing(m)
  <2>1. CASE \E n \in Mints : CountComing(n)
    BY <1>1, <2>1 DEF CountComing
  <2>2. CASE \E n \in Mints : End(n)
    BY <1>1, <2>2 DEF End
  <2>3. CASE \E n \in Mints : \/ \E q \in Ids : Call(n, q)
                              \/ CountRunning(n) \/ Look(n) \/ FindStale(n) \/ DropStale(n)
                              \/ ReadHeld(n) \/ Reserve(n) \/ ReserveNot(n) \/ Answer(n) \/ Rising(n) \/ Lose(n)
    BY <1>1, <2>3 DEF Call, CountRunning, Look, FindStale, DropStale, ReadHeld, Reserve, ReserveNot, Answer,
                      Rising, Bind, Release, WriteNote, Lose
  <2>4. CASE (\E y \in Ids : Age(y) \/ Keep(y)) \/ UNCHANGED vars
    BY <2>4 DEF Age, Keep, Take, vars
  <2> QED
    BY <2>1, <2>2, <2>3, <2>4 DEF Next, Answering
<1> DEFINE were == HadBy(by[m])
           are == HadBy(by[m])'
<1>3. IsFiniteSet(are) /\ were \subseteq are
  <2>1. are \subseteq Begun'
    BY DEF HadBy, Had, Bearing, Begun, AtChild
  <2>2. \A n \in Mints : Had(n) => Had(n)' /\ by'[n] = by[n]
    BY <1>1, Onward
  <2>3. by'[m] = by[m]
    BY <1>1, <1>2, Onward DEF CountComing
  <2> QED
    BY <2>1, <2>2, <2>3, StepBegun, FS_Subset DEF HadBy
<1>4. IsFiniteSet(were) /\ Cardinality(were) <= Cardinality(are)
  BY <1>3, FS_Subset
<1>5. Cardinality(were) >= MaxChildren
  <2>1. CASE stage[m] = "full"
    BY <1>1, <2>1 DEF Full
  <2>2. CASE CountComing(m)
    <3> DEFINE coming == {x \in heard[m] : Fresh(x)}
    <3>1. stage[m] = "coming" /\ Cardinality(ran[m]) + Cardinality(coming) >= MaxChildren
      BY <1>1, <2>2 DEF CountComing
    <3>2. Cardinality(ran[m]) + Cardinality(coming) <= Cardinality(were)
      BY <1>1, <3>1, NoneTwice
    <3>3. IsFiniteSet(ran[m]) /\ IsFiniteSet(coming)
      <4>1. ran[m] \subseteq NamesBy(by[m]) /\ coming \subseteq NamesBy(by[m])
        BY <3>1 DEF RoomInv, Known
      <4>2. IsFiniteSet(NamesBy(by[m]))
        BY <1>4, NamesFinite
      <4> QED
        BY <4>1, <4>2, FS_Subset
    <3> HIDE DEF coming, were
    <3>4. Cardinality(ran[m]) \in Nat /\ Cardinality(coming) \in Nat /\ Cardinality(were) \in Nat
      BY <1>4, <3>3, FS_CardinalityType
    <3> QED
      BY <3>1, <3>2, <3>4
  <2> QED
    BY <1>2, <2>1, <2>2
<1> HIDE DEF were, are
<1>6. Cardinality(were) \in Nat /\ Cardinality(are) \in Nat
  BY <1>3, <1>4, FS_CardinalityType
<1>7. Cardinality(are) >= MaxChildren
  BY <1>4, <1>5, <1>6
<1> QED
  BY <1>7 DEF are

\* No call is refused for want of room before as many children were named for its session as there
\* may be (Minting!NeverOvercounted), however the count falls between a child's release of its
\* reservation and its note, as long as no name is had twice.
THEOREM RoomForAll == Spec => []NeverOvercounted
<1>1. RoomInv /\ [Next]_vars => RoomInv'
  <2> SUFFICES ASSUME RoomInv, [Next]_vars PROVE RoomInv'
    OBVIOUS
  <2>1. TypeInv' /\ IsFiniteSet(Begun)' /\ Known'
    BY StepTypeInv, StepBegun, StepKnown DEF RoomInv
  <2>2. Distinct' => Spent' /\ Full'
    BY StepSpent, StepFull
  <2> QED
    BY <2>1, <2>2 DEF RoomInv
<1>2. RoomInv => NeverOvercounted
  BY DEF RoomInv, Distinct, Full, HadBy, Had, Bearing, NeverOvercounted
<1> QED
  BY <1>1, <1>2, InitRoomInv, PTL DEF Spec
=============================================================================
