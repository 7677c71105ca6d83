----------------------------- MODULE SpendingProofs -----------------------------
(***************************************************************************)
(* While the session that began a run is there, the asks of the run settle *)
(* their charges one at a time, however many there are and whichever of    *)
(* them are killed.  Once it may end before them that is not so: close     *)
(* removes the lock file itself, and whoever comes next locks another.     *)
(* It follows that the ledger is the sum of the charges, or full, and that *)
(* nobody is refused below the cap.                                        *)
(*                                                                         *)
(* The report of a name is a report that was handed in, whole, whatever    *)
(* became of the session; its pages are all of it; and nobody reads what   *)
(* its writer would not have told.                                         *)
(***************************************************************************)
EXTENDS MCSpending, Sequences, FiniteSetTheorems, WellFoundedInduction, TLAPS

\* Everybody who has the lock file open has the one at the path open, and whoever is at a
\* settlement holds it.
Held ==
  /\ stage \in [Asks -> Stages] /\ fd \in [Asks -> Inodes \cup {NoInode}]
  /\ flock \in [Inodes -> Asks \cup {Nobody}] /\ lockAt \in Inodes \cup {NoInode}
  /\ \A a \in Asks : stage[a] = "waiting" \/ Settling(a) => fd[a] = lockAt /\ lockAt \in Inodes
  /\ \A a \in Asks : Settling(a) => flock[fd[a]] = a

LEMMA InitHeld == Init => Held
BY DEF Init, Held, Stages, Settling

\* What an ask does that keeps its place at the lock.
LEMMA Stays ==
  ASSUME Held, NEW a \in Asks, NEW to \in Stages,
         stage' = [stage EXCEPT ![a] = to], UNCHANGED <<lock, fd>>,
         to \in {"new", "refused", "asking", "settling", "over"} \/ Settling(a)
  PROVE  Held'
BY DEF Held, lock, Settling, Stages

LEMMA LetsGo ==
  ASSUME Held, NEW a \in Asks, NEW to \in {"asking", "over"},
         stage' = [stage EXCEPT ![a] = to], LetGo(a), UNCHANGED lockAt
  PROVE  Held'
<1>1. /\ stage' \in [Asks -> Stages] /\ fd' \in [Asks -> Inodes \cup {NoInode}]
      /\ flock' \in [Inodes -> Asks \cup {Nobody}]
  BY DEF Held, LetGo, Stages
<1>2. \A b \in Asks : b # a => stage'[b] = stage[b] /\ fd'[b] = fd[b]
  BY DEF Held, LetGo
<1>3. stage'[a] \in {"asking", "over"}
  BY DEF Held
<1>4. ASSUME NEW b \in Asks, b # a, Settling(b)
      PROVE  flock'[fd'[b]] = b
  BY <1>2, <1>4 DEF Held, LetGo
<1>5. QED
  BY <1>1, <1>2, <1>3, <1>4 DEF Held, Settling

\* Nothing but close takes a run's ledger down, and it never comes back up.
Kept == closing \in Nat /\ (closing = 0 => Held)

LEMMA StepHeld ==
  ASSUME Held, Next, ~Close
  PROVE  Held'
<1>2. ASSUME NEW a \in Asks,
             Begin(a) \/ (\E c \in Costs : Hear(a, c)) \/ Sum(a) \/ Write(a) \/ Rename(a)
      PROVE  Held'
  <2>1. CASE Begin(a)
    BY <2>1, Stays DEF Begin, Goes, Stages
  <2>2. CASE \E c \in Costs : Hear(a, c)
    <3>1. CASE UNCHANGED stage
      BY <2>2, <3>1 DEF Hear, Held, lock, Settling
    <3>2. CASE Goes(a, "asking", "settling")
      BY <2>2, <3>2, Stays DEF Hear, Goes, Stages
    <3>3. QED
      BY <2>2, <3>1, <3>2 DEF Hear
  <2>3. CASE Sum(a)
    BY <2>3, Stays DEF Sum, Stages, Settling
  <2>4. CASE Write(a)
    BY <2>4, Stays DEF Write, Goes, Stages, Settling
  <2>5. CASE Rename(a)
    BY <2>5, Stays DEF Rename, Goes, Stages, Settling
  <2>6. QED
    BY <1>2, <2>1, <2>2, <2>3, <2>4, <2>5
<1>3. ASSUME NEW a \in Asks, Open(a)
      PROVE  Held'
  <2>1. lockAt' \in Inodes /\ (lockAt \in Inodes => lockAt' = lockAt)
    <3>1. CASE lockAt # NoInode /\ UNCHANGED lockAt
      <4>1. lockAt \in Inodes
        BY <3>1 DEF Held
      <4>2. QED
        BY <3>1, <4>1
    <3>2. CASE lockAt = NoInode
      BY <1>3, <3>2, SpendingKinds DEF Open
    <3>3. QED
      BY <1>3, <3>1, <3>2 DEF Open
  <2>2. /\ stage' = [stage EXCEPT ![a] = "waiting"] /\ fd' = [fd EXCEPT ![a] = lockAt']
        /\ flock' = flock
    BY <1>3 DEF Open, Goes
  <2>3. \A b \in Asks : b # a => stage'[b] = stage[b] /\ fd'[b] = fd[b]
    BY <2>2 DEF Held
  <2>4. stage'[a] = "waiting" /\ fd'[a] = lockAt'
    BY <2>2 DEF Held
  <2>5. stage' \in [Asks -> Stages] /\ fd' \in [Asks -> Inodes \cup {NoInode}]
    BY <2>1, <2>2 DEF Held, Stages
  <2>6. QED
    BY <2>1, <2>2, <2>3, <2>4, <2>5 DEF Held, Settling
<1>4. ASSUME NEW a \in Asks, Lock(a)
      PROVE  Held'
  <2>1. \A b \in Asks : ~Settling(b)
    BY <1>4, SpendingKinds DEF Lock, Goes, Held
  <2>2. QED
    BY <1>4, <2>1 DEF Lock, Goes, Held, Settling, Stages
<1>5. ASSUME NEW a \in Asks,
             LockFails(a) \/ SumFails(a) \/ RenameFails(a) \/ Settle(a) \/ End(a)
      PROVE  Held'
  <2>1. CASE LockFails(a) \/ SumFails(a) \/ RenameFails(a)
    BY <2>1, LetsGo DEF LockFails, SumFails, RenameFails, GiveUp
  <2>2. CASE Settle(a)
    BY <2>2, LetsGo DEF Settle, Goes
  <2>3. CASE End(a)
    BY <2>3, LetsGo DEF End
  <2>4. QED
    BY <1>5, <2>1, <2>2, <2>3
<1>6. QED
  BY <1>2, <1>3, <1>4, <1>5 DEF Next

LEMMA StepKept == Kept /\ [Next]_vars => Kept'
<1> SUFFICES ASSUME Kept, [Next]_vars
             PROVE  Kept'
  OBVIOUS
<1>1. CASE Close
  BY <1>1 DEF Close, Kept
<1>2. CASE Next /\ ~Close
  <2>1. closing' = closing
    BY <1>2 DEF Next, Begin, Hear, Open, Lock, LockFails, Sum, SumFails, Write, Rename,
                RenameFails, GiveUp, Settle, End
  <2>2. QED
    BY <1>2, <2>1, StepHeld DEF Kept
<1>3. CASE UNCHANGED vars
  BY <1>3 DEF vars, lock, Held, Settling, Kept
<1>4. QED
  BY <1>1, <1>2, <1>3

\* Until the run is closed no two asks are at the ledger at once (Ledger::replace,
\* spending.rs), so that no charge overwrites another.
THEOREM SettledApart == Spec => []OneAtATime
<1>1. Init => Kept
  BY InitHeld DEF Init, Kept
<1>2. Kept /\ [Next]_vars => Kept'
  BY StepKept
<1>3. Kept => OneAtATime
  BY DEF Kept, Held, OneAtATime
<1>4. QED
  BY <1>1, <1>2, <1>3, PTL DEF Spec

----------------------------------------------------------------------------
\* That the ledger is the sum of the charges.

Amounts ==
  /\ ledger \in Nat \cup {NoFile} /\ next \in Nat \cup {NoFile} /\ heard \in [Asks -> Nat] /\ charged \in [Asks -> Nat]
  /\ total \in [Asks -> Nat] /\ owing \in [Asks -> BOOLEAN] /\ stage \in [Asks -> Stages]

\* Where an ask says nothing failed, all it was heard to cost is charged.
MadeGood ==
  \A a \in Asks : stage[a] \in {"new", "refused"} \/ (stage[a] = "asking" /\ ~owing[a]) => charged[a] = heard[a]

\* What an ask is about to write is the sum with its own charge replaced, or full.
NewTotal(a) ==
  \/ Read = Full /\ total[a] = Full
  \/ /\ Read # Full /\ Read >= charged[a]
     /\ total[a] = IF Read - charged[a] + heard[a] > Full THEN Full ELSE Read - charged[a] + heard[a]

Summed ==
  /\ IsFiniteSet(Units(Asks))
  /\ Read \in {Charges(Asks), Full}
  /\ \A a \in Asks : stage[a] \in {"summed", "written"} => NewTotal(a)
  /\ \A a \in Asks : stage[a] = "written" => next = total[a]

Ledgers == Kept /\ Amounts /\ MadeGood /\ (closing = 0 => Summed)

LEMMA InitLedgers == Init => Ledgers
<1> SUFFICES ASSUME Init PROVE Ledgers
  OBVIOUS
<1>1. Kept
  BY InitHeld DEF Init, Kept
<1>2. Amounts /\ MadeGood
  BY DEF Init, Amounts, MadeGood, Stages
<1>3. Summed
  <2>1. \A a \in Asks : Charge(a) = 0
    BY DEF Init, Charge
  <2>2. \A a \in Asks : 1..Charge(a) = {}
    BY <2>1
  <2>3. Units(Asks) = {}
    BY <2>2 DEF Units
  <2>4. IsFiniteSet(Units(Asks)) /\ Charges(Asks) = 0
    BY <2>3, FS_EmptySet DEF Charges
  <2>5. \A a \in Asks : stage[a] = "new"
    BY DEF Init
  <2> QED
    BY <2>4, <2>5 DEF Init, Summed, Read
<1> QED
  BY <1>1, <1>2, <1>3 DEF Ledgers

LEMMA UnitsOfOne ==
  ASSUME NEW a, NEW n \in Nat
  PROVE  IsFiniteSet({a} \X (1..n)) /\ Cardinality({a} \X (1..n)) = n
<1>1. IsFiniteSet({a}) /\ Cardinality({a}) = 1
  BY FS_Singleton
<1>2. IsFiniteSet(1..n) /\ Cardinality(1..n) = n
  BY FS_Interval
<1>3. Cardinality({a} \X (1..n)) = Cardinality({a}) * Cardinality(1..n)
  BY <1>1, <1>2, FS_Product, Zenon
<1>4. IsFiniteSet({a} \X (1..n))
  BY <1>1, <1>2, FS_Product
<1>5. 1 * n = n
  OBVIOUS
<1> QED
  BY <1>1, <1>2, <1>3, <1>4, <1>5

\* The sum moves by as much as the one charge that changes.
LEMMA OneCharge ==
  ASSUME NEW a \in Asks, IsFiniteSet(Units(Asks)), Charge(a) \in Nat, Charge(a)' \in Nat,
         \A b \in Asks \ {a} : Charge(b)' = Charge(b)
  PROVE  /\ IsFiniteSet(Units(Asks)') /\ Charges(Asks) \in Nat
         /\ Charges(Asks)' = Charges(Asks) - Charge(a) + Charge(a)'
<1> DEFINE was == {a} \X (1..Charge(a))
           is == {a} \X (1..Charge(a)')
           others == UNION {{b} \X (1..Charge(b)) : b \in Asks \ {a}}
           c == Charge(a)
           d == Charge(a)'
<1>1. Units(Asks) = others \cup was
  BY DEF Units
<1>2. Units(Asks)' = others \cup is
  <2>1. Units(Asks)' = UNION {{b} \X (1..Charge(b)') : b \in Asks}
    BY DEF Units
  <2>2. others = UNION {{b} \X (1..Charge(b)') : b \in Asks \ {a}}
    OBVIOUS
  <2> QED
    BY <2>1, <2>2
<1>3. others \cap was = {} /\ others \cap is = {}
  OBVIOUS
<1>4. /\ IsFiniteSet(was) /\ Cardinality(was) = c /\ IsFiniteSet(is) /\ Cardinality(is) = d
  BY UnitsOfOne
<1>5. IsFiniteSet(others)
  BY <1>1, FS_Subset
<1> DEFINE e == Cardinality(others)
<1> HIDE DEF was, is, others
<1>6. Charges(Asks) = e + c - Cardinality({})
  BY <1>1, <1>3, <1>4, <1>5, FS_Union DEF Charges
<1>7. Charges(Asks)' = e + d - Cardinality({}) /\ IsFiniteSet(Units(Asks)')
  BY <1>2, <1>3, <1>4, <1>5, FS_Union DEF Charges
<1>8. Cardinality({}) = 0 /\ e \in Nat /\ c \in Nat /\ d \in Nat
  BY <1>5, FS_EmptySet, FS_CardinalityType
<1> HIDE DEF c, d, e
<1>9. Charges(Asks) \in Nat /\ Charges(Asks)' = Charges(Asks) - c + d
  BY <1>6, <1>7, <1>8
<1> QED
  BY <1>7, <1>9 DEF c, d

LEMMA StepAmounts == Amounts /\ [Next]_vars => Amounts'
<1> SUFFICES ASSUME Amounts, [Next]_vars PROVE Amounts'
  OBVIOUS
<1> USE SpendingKinds DEF Amounts, Stages, NoFile
<1>1. CASE Close
  BY <1>1 DEF Close
<1>2. ASSUME NEW a \in Asks, Begin(a) \/ (\E c \in Costs : Hear(a, c)) \/ Open(a) \/ Lock(a)
      PROVE  Amounts'
  BY <1>2 DEF Begin, Hear, Open, Lock, Goes
<1>3. ASSUME NEW a \in Asks, LockFails(a) \/ SumFails(a) \/ RenameFails(a)
      PROVE  Amounts'
  <2>1. /\ UNCHANGED <<ledger, next, heard, charged>> /\ total' = [total EXCEPT ![a] = 0]
        /\ stage' = [stage EXCEPT ![a] = "asking"] /\ owing' = [owing EXCEPT ![a] = TRUE]
    BY <1>3 DEF LockFails, SumFails, RenameFails, GiveUp, LetGo
  <2>2. owing' \in [Asks -> BOOLEAN]
    BY <2>1
  <2>3. stage' \in [Asks -> Stages] /\ total' \in [Asks -> Nat]
    BY <2>1
  <2> QED
    BY <2>1, <2>2, <2>3
<1>4. ASSUME NEW a \in Asks, Sum(a)
      PROVE  Amounts'
  <2>1. Read \in Nat /\ Full \in Nat /\ charged[a] \in Nat /\ heard[a] \in Nat
    BY DEF Read
  <2>2. Read = Full \/ Read - charged[a] + heard[a] \in Nat
    BY <1>4, <2>1 DEF Sum
  <2>3. total' \in [Asks -> Nat]
    BY <1>4, <2>1, <2>2 DEF Sum
  <2> QED
    BY <1>4, <2>3 DEF Sum
<1>5. ASSUME NEW a \in Asks, Write(a) \/ Rename(a)
      PROVE  Amounts'
  BY <1>5 DEF Write, Rename, Goes
<1>6. ASSUME NEW a \in Asks, Settle(a) \/ End(a)
      PROVE  Amounts'
  <2>1. /\ UNCHANGED <<ledger, next, heard>> /\ total' = [total EXCEPT ![a] = 0]
        /\ \E to \in {"asking", "over"} : stage' = [stage EXCEPT ![a] = to]
        /\ owing' = owing \/ owing' = [owing EXCEPT ![a] = FALSE]
        /\ charged' = [charged EXCEPT ![a] = heard[a]] \/ charged' = [charged EXCEPT ![a] = charged[a]]
    BY <1>6 DEF Settle, End, LetGo, Goes, Charge
  <2>2. owing' \in [Asks -> BOOLEAN]
    BY <2>1
  <2>3. stage' \in [Asks -> Stages] /\ total' \in [Asks -> Nat] /\ charged' \in [Asks -> Nat]
    BY <2>1
  <2> QED
    BY <2>1, <2>2, <2>3
<1>7. CASE UNCHANGED vars
  BY <1>7 DEF vars
<1> QED
  BY <1>1, <1>2, <1>3, <1>4, <1>5, <1>6, <1>7 DEF Next

LEMMA StepMadeGood == Amounts /\ MadeGood /\ [Next]_vars => MadeGood'
<1> SUFFICES ASSUME Amounts, MadeGood, [Next]_vars PROVE MadeGood'
  OBVIOUS
<1> USE DEF Amounts, MadeGood
<1>1. CASE Close \/ UNCHANGED vars
  BY <1>1 DEF Close, vars
<1>2. ASSUME NEW a \in Asks, Begin(a) \/ Open(a) \/ Lock(a) \/ Sum(a) \/ Write(a) \/ Rename(a)
      PROVE  MadeGood'
  BY <1>2 DEF Begin, Open, Lock, Sum, Write, Rename, Goes
<1>3. ASSUME NEW a \in Asks, NEW c \in Costs, Hear(a, c)
      PROVE  MadeGood'
  BY <1>3 DEF Hear, Goes
<1>4. ASSUME NEW a \in Asks, LockFails(a) \/ SumFails(a) \/ RenameFails(a)
      PROVE  MadeGood'
  BY <1>4 DEF LockFails, SumFails, RenameFails, GiveUp
<1>5. ASSUME NEW a \in Asks, Settle(a) \/ End(a)
      PROVE  MadeGood'
  BY <1>5 DEF Settle, End, Goes
<1> QED
  BY <1>1, <1>2, <1>3, <1>4, <1>5 DEF Next

\* Where no charge changes the sum does not, and a settlement goes on as it was.
LEMMA SameSum ==
  ASSUME Summed, UNCHANGED <<ledger, next>>,
         \A b \in Asks : Charge(b)' = Charge(b),
         \A b \in Asks : stage'[b] \in {"summed", "written"} =>
           UNCHANGED <<stage[b], total[b], charged[b], heard[b]>>
  PROVE  Summed'
<1>1. Units(Asks)' = Units(Asks)
  <2>1. Units(Asks)' = UNION {{b} \X (1..Charge(b)') : b \in Asks}
    BY DEF Units
  <2> QED
    BY <2>1 DEF Units
<1>2. Charges(Asks)' = Charges(Asks) /\ Read' = Read
  BY <1>1 DEF Charges, Read
<1>3. \A b \in Asks : stage'[b] \in {"summed", "written"} => NewTotal(b)'
  BY <1>2 DEF Summed, NewTotal
<1> QED
  BY <1>1, <1>2, <1>3 DEF Summed

LEMMA StepSummed ==
  ASSUME Held, Amounts, Summed, Next, ~Close
  PROVE  Summed'
<1> USE DEF Amounts, Stages
<1>1. ASSUME NEW a \in Asks, Begin(a) \/ Open(a) \/ Lock(a)
      PROVE  Summed'
  <2>1. /\ UNCHANGED <<ledger, next, total, charged, heard>>
        /\ \E to \in {"refused", "asking", "waiting", "locked"} : stage' = [stage EXCEPT ![a] = to]
        /\ stage[a] \notin {"renamed", "summed", "written"}
    BY <1>1 DEF Begin, Open, Lock, Goes
  <2>2. \A b \in Asks : Charge(b)' = Charge(b)
    BY <2>1 DEF Charge
  <2>3. \A b \in Asks : stage'[b] \in {"summed", "written"} =>
           UNCHANGED <<stage[b], total[b], charged[b], heard[b]>>
    BY <2>1
  <2> QED
    BY <2>1, <2>2, <2>3, SameSum
<1>2. ASSUME NEW a \in Asks, NEW c \in Costs, Hear(a, c)
      PROVE  Summed'
  <2>1. /\ UNCHANGED <<ledger, next, total, charged>> /\ stage[a] = "asking"
        /\ \E to \in {"asking", "settling"} : stage' = [stage EXCEPT ![a] = to]
        /\ heard' = [heard EXCEPT ![a] = c]
    BY <1>2 DEF Hear, Goes
  <2>2. \A b \in Asks : Charge(b)' = Charge(b)
    BY <2>1 DEF Charge
  <2>3. \A b \in Asks : stage'[b] \in {"summed", "written"} =>
           UNCHANGED <<stage[b], total[b], charged[b], heard[b]>>
    BY <2>1
  <2> QED
    BY <2>1, <2>2, <2>3, SameSum
<1>3. ASSUME NEW a \in Asks, LockFails(a) \/ SumFails(a) \/ RenameFails(a) \/ Settle(a) \/ End(a)
      PROVE  Summed'
  <2>1. /\ UNCHANGED <<ledger, next, heard>>
        /\ \E to \in {"asking", "over"} : stage' = [stage EXCEPT ![a] = to]
        /\ \A b \in Asks \ {a} : total'[b] = total[b] /\ charged'[b] = charged[b]
        /\ charged'[a] = Charge(a)
    <3>1. CASE LockFails(a) \/ SumFails(a) \/ RenameFails(a)
      <4>1. stage[a] # "renamed" /\ UNCHANGED <<ledger, next, heard, charged>> /\ LetGo(a)
            /\ stage' = [stage EXCEPT ![a] = "asking"]
        BY <3>1 DEF LockFails, SumFails, RenameFails, GiveUp
      <4> QED
        BY <4>1 DEF LetGo, Charge
    <3>2. CASE Settle(a)
      BY <3>2 DEF Settle, Goes, LetGo, Charge
    <3>3. CASE End(a)
      BY <3>3 DEF End, LetGo
    <3> QED
      BY <1>3, <3>1, <3>2, <3>3
  <2>2. \A b \in Asks : Charge(b)' = Charge(b)
    BY <2>1 DEF Charge
  <2>3. \A b \in Asks : stage'[b] \in {"summed", "written"} =>
           UNCHANGED <<stage[b], total[b], charged[b], heard[b]>>
    BY <2>1
  <2> QED
    BY <2>1, <2>2, <2>3, SameSum
<1>a. ASSUME NEW a \in Asks, Settling(a) PROVE \A b \in Asks \ {a} : ~Settling(b)
  BY <1>a DEF Held
<1>b. Read \in Nat /\ Read \in {Charges(Asks), Full} /\ Full \in Nat
  BY SpendingKinds DEF Summed, Read, NoFile
<1>4. ASSUME NEW a \in Asks, Sum(a)
      PROVE  Summed'
  <2>1. /\ UNCHANGED <<ledger, next, charged, heard>> /\ stage[a] = "locked"
        /\ stage' = [stage EXCEPT ![a] = "summed"]
        /\ \A b \in Asks \ {a} : ~Settling(b)
    BY <1>4, <1>a DEF Sum, Settling
  <2>2. NewTotal(a)'
    <3>1. total'[a] = (IF Read = Full \/ Read - charged[a] + heard[a] > Full THEN Full
                       ELSE Read - charged[a] + heard[a])
          /\ (Read = Full \/ Read - charged[a] >= 0) /\ Read' = Read
          /\ charged[a] \in Nat /\ heard[a] \in Nat
      BY <1>4, <2>1 DEF Sum, Read
    <3>2. Read # Full => Read >= charged[a]
      BY <1>b, <3>1
    <3> QED
      BY <2>1, <3>1, <3>2 DEF NewTotal
  <2>3. Units(Asks)' = Units(Asks)
    <3>1. \A b \in Asks : Charge(b)' = Charge(b)
      BY <2>1 DEF Charge
    <3>2. Units(Asks)' = UNION {{b} \X (1..Charge(b)') : b \in Asks}
      BY DEF Units
    <3> QED
      BY <3>1, <3>2 DEF Units
  <2>4. \A b \in Asks : /\ stage'[b] \in {"summed", "written"} => b = a
                        /\ stage'[b] # "written"
    BY <2>1 DEF Settling
  <2>5. Read' \in {Charges(Asks), Full}
    BY <1>b, <2>1 DEF Read
  <2> QED
    BY <2>2, <2>3, <2>4, <2>5 DEF Summed, Charges
<1>5. ASSUME NEW a \in Asks, Write(a)
      PROVE  Summed'
  <2>1. /\ UNCHANGED <<ledger, charged, heard, total>> /\ stage[a] = "summed" /\ next' = total[a]
        /\ stage' = [stage EXCEPT ![a] = "written"]
        /\ \A b \in Asks \ {a} : ~Settling(b)
    BY <1>5, <1>a DEF Write, Goes, Settling
  <2>2. NewTotal(a)'
    <3>1. NewTotal(a) /\ Read' = Read
      BY <2>1 DEF Summed, Read
    <3> QED
      BY <2>1, <3>1 DEF NewTotal
  <2>3. Units(Asks)' = Units(Asks)
    <3>1. \A b \in Asks : Charge(b)' = Charge(b)
      BY <2>1 DEF Charge
    <3>2. Units(Asks)' = UNION {{b} \X (1..Charge(b)') : b \in Asks}
      BY DEF Units
    <3> QED
      BY <3>1, <3>2 DEF Units
  <2>4. \A b \in Asks : stage'[b] \in {"summed", "written"} => b = a
    BY <2>1 DEF Settling
  <2>5. Read' \in {Charges(Asks), Full}
    BY <1>b, <2>1 DEF Read
  <2> QED
    BY <2>1, <2>2, <2>3, <2>4, <2>5 DEF Summed, Charges
<1>6. ASSUME NEW a \in Asks, Rename(a)
      PROVE  Summed'
  <2>1. /\ UNCHANGED <<charged, heard, total>> /\ stage[a] = "written" /\ ledger' = total[a]
        /\ stage' = [stage EXCEPT ![a] = "renamed"]
        /\ \A b \in Asks \ {a} : ~Settling(b)
    BY <1>6, <1>a DEF Rename, Goes, Settling, Summed
  <2>2. Charge(a) = charged[a] /\ Charge(a)' = heard[a] /\ \A b \in Asks \ {a} : Charge(b)' = Charge(b)
    BY <2>1 DEF Charge
  <2>3. /\ IsFiniteSet(Units(Asks)') /\ Charges(Asks) \in Nat
        /\ Charges(Asks)' = Charges(Asks) - charged[a] + heard[a]
    BY <2>2, OneCharge DEF Summed
  <2>4. Read' = total[a]
    BY <2>1 DEF Read, NoFile
  <2>5. NewTotal(a) /\ charged[a] \in Nat /\ heard[a] \in Nat
    BY <2>1 DEF Summed
  <2>6. total[a] \in {Charges(Asks)', Full}
    BY <1>b, <2>3, <2>5 DEF NewTotal
  <2>7. \A b \in Asks : stage'[b] \notin {"summed", "written"}
    BY <2>1 DEF Settling
  <2> QED
    BY <2>3, <2>4, <2>6, <2>7 DEF Summed
<1> QED
  BY <1>1, <1>2, <1>3, <1>4, <1>5, <1>6 DEF Next

LEMMA StepLedgers == Ledgers /\ [Next]_vars => Ledgers'
<1> SUFFICES ASSUME Ledgers, [Next]_vars PROVE Ledgers'
  OBVIOUS
<1>1. Kept' /\ Amounts' /\ MadeGood'
  BY StepKept, StepAmounts, StepMadeGood DEF Ledgers
<1>2. ASSUME closing' = 0 PROVE Summed'
  <2>1. CASE Close
    BY <1>2, <2>1 DEF Close, Ledgers, Kept
  <2>2. CASE Next /\ ~Close
    <3>1. closing' = closing
      BY <2>2 DEF Next, Begin, Hear, Open, Lock, LockFails, Sum, SumFails, Write, Rename,
                  RenameFails, GiveUp, Settle, End
    <3> QED
      BY <1>2, <2>2, <3>1, StepSummed DEF Ledgers, Kept
  <2>3. CASE UNCHANGED vars
    <3>1. \A b \in Asks : Charge(b)' = Charge(b)
      BY <2>3 DEF vars, Charge
    <3> QED
      BY <1>2, <2>3, <3>1, SameSum DEF vars, Ledgers
  <2> QED
    BY <2>1, <2>2, <2>3
<1> QED
  BY <1>1, <1>2 DEF Ledgers

LEMMA LedgersHold == Spec => []Ledgers
BY InitLedgers, StepLedgers, PTL DEF Spec

\* Until the run is closed the ledger (spending.rs) is the sum of what its asks were charged, or
\* full, whichever of them were killed half way through a settlement; and where the last settlement
\* did not fail the whole of what an ask was heard to cost is charged.
THEOREM AllAccounted == Spec => []Accounted
<1>1. Ledgers => Accounted
  BY DEF Ledgers, Summed, MadeGood, Accounted
<1> QED
  BY <1>1, LedgersHold, PTL

\* Until the run is closed an ask is refused (running.rs) only where the asks of its run were
\* charged the cap, or the ledger is full: never for a ledger it found half written.
THEOREM NoneRefusedEarly == Spec => RefusedAtCap
<1>1. ASSUME Ledgers, Next, closing = 0, NEW a \in Asks, stage[a] # "refused", stage'[a] = "refused"
      PROVE  Charges(Asks) >= Cap \/ ledger = Full
  <2>1. Begin(a)
    BY <1>1 DEF Next, Close, Begin, Hear, Open, Lock, LockFails, Sum, SumFails, Write, Rename,
                RenameFails, GiveUp, Settle, End, Goes, Ledgers, Amounts
  <2>2. /\ Read \in Nat /\ Read \in {Charges(Asks), Full} /\ Full \in Nat /\ Cap \in 1..Full
        /\ Read # Torn
    BY <1>1, SpendingKinds DEF Ledgers, Amounts, Summed, Read, NoFile, Torn
  <2>3. Read >= Cap
    BY <1>1, <2>1, <2>2 DEF Begin, Goes, Ledgers, Amounts
  <2>4. Read = Full => ledger = Full
    BY <2>2 DEF Read
  <2> QED
    BY <2>2, <2>3, <2>4
<1>2. Ledgers /\ [Next]_vars =>
        [closing = 0 => \A a \in Asks : stage[a] # "refused" /\ stage'[a] = "refused"
                                          => Charges(Asks) >= Cap \/ ledger = Full]_stage
  BY <1>1 DEF vars
<1> QED
  BY <1>2, LedgersHold, PTL DEF Spec, RefusedAtCap

----------------------------------------------------------------------------
\* Reports.

\* The run of every session that stays.
OthersRuns == {Others[x].run : x \in DOMAIN Others}

\* What is noted of a session as it is started: of the run of whoever started it, or of its own.
Fits(at) == IF at.parent = Nobody THEN at.run \notin OthersRuns
  ELSE at.run = Others[at.parent].run

NotedOf == [parent |-> parents[Writer], run |-> runs[Writer]]
KnownAt == [parent : (Ids \ {Writer}) \cup {Nobody}, run : Runs \cup {NoRun}]

\* The notes of those that stay are as they were; the writer's come and go together.
RepNotes ==
  /\ parents \in [Ids -> Ids \cup {Nobody}] /\ runs \in [Ids -> Runs \cup {NoRun}]
     /\ life \in Nat
  /\ \A x \in Ids \ {Writer} : parents[x] = Others[x].up /\ runs[x] = Others[x].run
  /\ NotedOf \in KnownAt
  /\ R!There => Fits(NotedOf)
  /\ ~R!There => parents[Writer] = Nobody

\* What a process holds is of one session, unless the name passed on while it was read.
RepHolds ==
  /\ stages \in [Tools -> {"none", "started", "placed", "kept", "over"}]
  /\ has \in [Tools -> [at : KnownAt, its : Nat, apart : BOOLEAN]]
  /\ \A t \in Tools :
       /\ has[t].its <= life
       /\ stages[t] # "none" => has[t].at.run \in Runs
       /\ stages[t] \in {"started", "placed"} /\ has[t].its = life =>
            Fits(has[t].at) /\ (R!There => has[t].at = NotedOf)

\* Who has handed in.
Handed(r) == r = Old \/ (r \in Tools /\ stages[r] \in {"kept", "over"})

\* The file is a report that was handed in.
RepFile ==
  \/ report = [of |-> NoReport]
  \/ /\ report.of = Old /\ report.at = R!None /\ report.lines = Says[Old]
  \/ /\ report.of \in Tools /\ Handed(report.of) /\ report.lines = Says[report.of]
     /\ report.at \in KnownAt /\ report.at.run \in Runs
     /\ ~has[report.of].apart => Fits(report.at)

\* Who was told of a report has it, or another was handed in.
RepTold ==
  /\ told \subseteq Tools
  /\ \A t \in Tools : stages[t] = "kept" \/ t \in told =>
       report.of = t \/ \E s \in Tools \ {t} : stages[s] \in {"kept", "over"}
  /\ \A t \in told : stages[t] = "over"

Lines(r, n) == [i \in 1..n |-> <<r, i>>]
Differ(s) == \E i, j \in DOMAIN s : s[i][1] # s[j][1]

\* What was shown is the beginning of a report, or all of a page and more of two; a page past
\* the
\* end of a shorter one shows nothing, and is taken for the last.
Shown ==
  \/ Differ(look.shown)
  \/ look.shown = <<>> /\ look.next = 1 /\ ~look.whole
  \/ \E r \in Tools \cup {Old} :
       /\ Handed(r) /\ look.next - 1 \in 1..Len(Says[r]) /\ look.shown = Lines(r, look.next - 1)
       /\ look.whole <=> look.next - 1 = Len(Says[r])
  \/ \E r \in Tools \cup {Old}, n \in Nat \ {0} :
       Handed(r) /\ look.shown = Lines(r, n) /\ look.whole /\ report.of # r

RepLook ==
  \/ look = R!NoLook
  \/ /\ look \in [by : Ids \ {Writer}, its : {look.its}, forked : SUBSET Ids, next : Nat \ {0},
                  shown : Seq((Tools \cup {Old}) \X Nat), whole : BOOLEAN, within : {TRUE}]
     /\ look.its # Nobody =>
          ~look.whole /\ look.its \in (0..life) \X BOOLEAN
            /\ (look.its = <<life, FALSE>> => ~R!There)
     /\ look.its # Nobody /\ look.its = <<life, R!There>> =>
          look.forked = IF R!There THEN R!Children(parents, Ids, look.by) ELSE {}
     /\ Shown

\* The inductive invariant of a report, those that hand in and those that read.
RepInv == RepNotes /\ RepHolds /\ RepFile /\ RepTold /\ RepLook

\* What the assumption of the run says of the constants.
LEMMA RepKinds ==
  /\ Writer \in Ids /\ Nobody \notin Ids /\ NoRun \notin Runs /\ DOMAIN Others = Ids \ {Writer}
  /\ \A x \in Ids \ {Writer} : Others[x].up \in Ids \cup {Nobody} /\ Others[x].run \in Runs
  /\ Old \notin Tools /\ NoReport \notin Tools /\ NoReport # Old
  /\ \A r \in Tools \cup {Old} : Says[r] \in Seq(Nat) /\ Len(Says[r]) \in Nat \ {0}
  /\ {PageLines, PageBytes, MaxLives} \subseteq Nat \ {0}
<1>1. \A r \in Tools \cup {Old} : Says[r] \in Seq(Nat) \ {<<>>}
  BY ReportPartKinds DEF R!ReportKinds
<1>2. \A r \in Tools \cup {Old} : Says[r] \in Seq(Nat) /\ Len(Says[r]) \in Nat \ {0}
  <2>1. \A s \in Seq(Nat) \ {<<>>} : Len(s) \in Nat \ {0}
    OBVIOUS
  <2>2. QED
    BY <1>1, <2>1
<1>3. QED
  BY <1>2, ReportPartKinds DEF R!ReportKinds, R!KinshipKinds

\* It holds at the start.
LEMMA RepBegins == R!Init => RepInv
<1> SUFFICES ASSUME R!Init
             PROVE  RepInv
  OBVIOUS
<1>0. R!None = [parent |-> Nobody, run |-> NoRun] /\ R!None \in KnownAt
  BY DEF R!None, KnownAt
<1>1. RepNotes
  BY RepKinds DEF R!Init, RepNotes, R!There, NotedOf, KnownAt
<1>2. RepHolds
  BY <1>0 DEF R!Init, RepHolds
<1>3. RepFile
  BY DEF R!Init, RepFile
<1>4. RepTold
  BY DEF R!Init, RepTold
<1>5. RepLook
  BY DEF R!Init, RepLook
<1>6. QED
  BY <1>1, <1>2, <1>3, <1>4, <1>5 DEF RepInv

\* Every step keeps the notes, and what is held of them.
LEMMA RepNotesKept ==
  ASSUME RepNotes, RepHolds, R!Next
  PROVE  RepNotes' /\ RepHolds'
<1>1. ASSUME NEW p \in (Ids \ {Writer}) \cup {Nobody}, R!Start(p)
      PROVE  RepNotes' /\ RepHolds'
  <2>1. PICK r \in IF p = Nobody THEN Runs \ {Others[x].run : x \in DOMAIN Others}
          ELSE {runs[p]} :
               runs' = [runs EXCEPT ![Writer] = r]
    BY <1>1 DEF R!Start
  <2>2. r \in Runs
    BY <2>1, RepKinds DEF RepNotes
  <2>3. parents'[Writer] = p /\ runs'[Writer] = r /\ life' = life + 1
          /\ UNCHANGED <<stages, has>>
    BY <1>1, <2>1, RepKinds DEF R!Start, RepNotes
  <2>4. RepNotes'
    <3>0. p \in Ids \cup {Nobody} /\ r \in Runs \cup {NoRun}
      BY <2>2
    <3>1. parents' \in [Ids -> Ids \cup {Nobody}] /\ runs' \in [Ids -> Runs \cup {NoRun}]
            /\ life' \in Nat
      <4>1. parents' = [parents EXCEPT ![Writer] = p] /\ life' = life + 1
        BY <1>1 DEF R!Start
      <4>2. runs' = [runs EXCEPT ![Writer] = r]
        BY <2>1
      <4>3. parents' \in [Ids -> Ids \cup {Nobody}]
        BY <3>0, <4>1 DEF RepNotes
      <4>4. runs' \in [Ids -> Runs \cup {NoRun}]
        BY <3>0, <4>2 DEF RepNotes
      <4>5. QED
        BY <4>1, <4>3, <4>4 DEF RepNotes
    <3>2. \A x \in Ids \ {Writer} : parents'[x] = Others[x].up /\ runs'[x] = Others[x].run
      BY <1>1, <2>1 DEF R!Start, RepNotes
    <3>3. NotedOf' \in KnownAt
      BY <2>2, <2>3 DEF NotedOf, KnownAt
    <3>4. Fits(NotedOf')
      BY <2>1, <2>3, RepKinds DEF Fits, NotedOf, OthersRuns, RepNotes
    <3>5. R!There'
      BY <2>2, <2>3, RepKinds DEF R!There
    <3>6. QED
      BY <3>1, <3>2, <3>3, <3>4, <3>5 DEF RepNotes
  <2>5. RepHolds'
    BY <2>3 DEF RepHolds, RepNotes
  <2>6. QED
    BY <2>4, <2>5
<1>2. ASSUME R!End
      PROVE  RepNotes' /\ RepHolds'
  <2>1. parents'[Writer] = Nobody /\ runs'[Writer] = NoRun /\ UNCHANGED <<stages, has, life>>
    BY <1>2, RepKinds DEF R!End, RepNotes
  <2>2. RepNotes'
    BY <1>2, <2>1, RepKinds DEF R!End, RepNotes, R!There, NotedOf, KnownAt
  <2>3. RepHolds'
    BY <2>1 DEF RepHolds, R!There
  <2>4. QED
    BY <2>2, <2>3
<1>3. ASSUME NEW t \in Tools, R!Begin(t) \/ R!Place(t) \/ R!Keep(t) \/ R!Tell(t) \/ R!Fail(t)
      PROVE  RepNotes' /\ RepHolds'
  <2>1. UNCHANGED <<parents, runs, life>>
    BY <1>3 DEF R!Begin, R!Place, R!Keep, R!Tell, R!Fail
  <2>2. RepNotes'
    BY <2>1 DEF RepNotes, R!There, NotedOf
  <2>3. PICK s \in {"started", "placed", "kept", "over"} : stages' = [stages EXCEPT ![t] = s]
    BY <1>3 DEF R!Begin, R!Place, R!Keep, R!Tell, R!Fail, R!To
  <2>4. PICK h \in [at : KnownAt, its : Nat, apart : BOOLEAN] :
               /\ has' = [has EXCEPT ![t] = h] /\ h.its <= life /\ h.at.run \in Runs
               /\ s \in {"started", "placed"} /\ h.its = life =>
                    Fits(h.at) /\ (R!There => h.at = NotedOf)
    <3>0. has[t] \in [at : KnownAt, its : Nat, apart : BOOLEAN] /\ has[t].its <= life
      BY DEF RepHolds
    <3>1. CASE R!Begin(t)
      <4> DEFINE h == [has[t] EXCEPT !.at = NotedOf, !.its = life]
      <4>1. has' = [has EXCEPT ![t] = h] /\ R!There
        BY <3>1 DEF R!Begin, NotedOf, RepHolds
      <4>2. h \in [at : KnownAt, its : Nat, apart : BOOLEAN] /\ h.its = life /\ h.at = NotedOf
        BY <3>0 DEF RepNotes
      <4>3. NotedOf.run \in Runs /\ Fits(NotedOf)
        BY <4>1 DEF R!There, NotedOf, RepNotes, KnownAt
      <4>4. h.its <= life
        BY <4>2 DEF RepNotes
      <4> HIDE DEF h
      <4>5. QED
        BY <4>1, <4>2, <4>3, <4>4
    <3>2. CASE R!Place(t)
      <4>1. stages[t] = "started" /\ has[t].at.run \in Runs /\ s = "placed"
        BY <2>3, <3>2 DEF R!Place, R!At, R!To, RepHolds
      <4> DEFINE run == IF R!There THEN runs[Writer] ELSE has[t].at.run
                 at == [has[t].at EXCEPT !.run = run]
                 h == [has[t] EXCEPT !.at = at]
      <4>2. has' = [has EXCEPT ![t] = h]
        BY <3>2 DEF R!Place, RepHolds
      <4>3. run \in Runs
        BY <4>1 DEF RepNotes, NotedOf, KnownAt, R!There
      <4>4. at \in KnownAt /\ at.run = run /\ at.parent = has[t].at.parent
        <5> HIDE DEF run
        <5>1. QED
          BY <3>0, <4>3 DEF KnownAt
      <4>5. h \in [at : KnownAt, its : Nat, apart : BOOLEAN] /\ h.its = has[t].its /\ h.at = at
        <5> HIDE DEF at
        <5>1. QED
          BY <3>0, <4>4
      <4>6. has[t].its = life => at = has[t].at
        <5>1. CASE R!There
          BY <5>1, <4>1, <3>0 DEF RepHolds, NotedOf, KnownAt
        <5>2. CASE ~R!There
          BY <5>2, <3>0 DEF KnownAt
        <5>3. QED
          BY <5>1, <5>2
      <4>7. has[t].its = life => Fits(has[t].at) /\ (R!There => has[t].at = NotedOf)
        BY <4>1 DEF RepHolds
      <4> HIDE DEF h, at, run
      <4>8. QED
        BY <3>0, <4>2, <4>3, <4>4, <4>5, <4>6, <4>7
    <3>3. CASE R!Keep(t)
      <4> DEFINE b == life # has[t].its
                 h == [has[t] EXCEPT !.apart = b]
      <4>1. stages[t] = "placed" /\ has' = [has EXCEPT ![t] = h] /\ s = "kept"
        BY <2>3, <3>3 DEF R!Keep, R!At, R!To, RepHolds
      <4>2. h \in [at : KnownAt, its : Nat, apart : BOOLEAN] /\ h.its = has[t].its
              /\ h.at = has[t].at
        BY <3>0
      <4>3. has[t].at.run \in Runs
        BY <4>1 DEF RepHolds
      <4> HIDE DEF h
      <4>4. QED
        BY <3>0, <4>1, <4>2, <4>3
    <3>4. CASE R!Tell(t) \/ R!Fail(t)
      <4>1. stages[t] # "none" /\ s = "over" /\ UNCHANGED has
        BY <2>3, <3>4 DEF R!Tell, R!Fail, R!At, R!To, RepHolds
      <4>2. has' = [has EXCEPT ![t] = has[t]] /\ has[t].at.run \in Runs
        BY <4>1 DEF RepHolds
      <4>3. QED
        BY <3>0, <4>1, <4>2
    <3>5. QED
      BY <1>3, <3>1, <3>2, <3>3, <3>4
  <2>5. RepHolds'
    <3>1. NotedOf' = NotedOf /\ (R!There' <=> R!There)
      BY <2>1 DEF NotedOf, R!There
    <3>2. stages' \in [Tools -> {"none", "started", "placed", "kept", "over"}]
      BY <2>3 DEF RepHolds
    <3>3. has' \in [Tools -> [at : KnownAt, its : Nat, apart : BOOLEAN]]
      BY <2>4 DEF RepHolds
    <3>4. \A u \in Tools \ {t} : has'[u] = has[u] /\ stages'[u] = stages[u]
      BY <2>3, <2>4 DEF RepHolds
    <3>5. has'[t] = h /\ stages'[t] = s
      BY <2>3, <2>4 DEF RepHolds
    <3>6. ASSUME NEW u \in Tools
          PROVE  /\ has'[u].its <= life
                 /\ stages'[u] # "none" => has'[u].at.run \in Runs
                 /\ stages'[u] \in {"started", "placed"} /\ has'[u].its = life =>
                      Fits(has'[u].at) /\ (R!There => has'[u].at = NotedOf)
      <4>1. CASE u = t
        BY <2>4, <3>5, <4>1
      <4>2. CASE u # t
        BY <3>4, <4>2 DEF RepHolds
      <4>3. QED
        BY <4>1, <4>2
    <3>7. QED
      BY <2>1, <3>1, <3>2, <3>3, <3>6 DEF RepHolds, Fits, OthersRuns
  <2>6. QED
    BY <2>2, <2>5
<1>4. ASSUME R!Read \/ \E x \in Ids \ {Writer} : R!Look(x)
      PROVE  RepNotes' /\ RepHolds'
  BY <1>4 DEF R!Read, R!Look, RepNotes, RepHolds, R!There, NotedOf, Fits, OthersRuns
<1>5. QED
  BY <1>1, <1>2, <1>3, <1>4 DEF R!Next

\* Every step keeps the file a report, which whoever was told of it finds.
LEMMA RepFileKept ==
  ASSUME RepNotes, RepHolds, RepFile, RepTold, R!Next
  PROVE  RepFile' /\ RepTold'
<1> DEFINE Found(t) == stages[t] = "kept" \/ t \in told =>
                         report.of = t \/ \E s \in Tools \ {t} : stages[s] \in {"kept", "over"}
<1>1. ASSUME (\E p \in (Ids \ {Writer}) \cup {Nobody} : R!Start(p)) \/ R!End \/ R!Read
             \/ \E x \in Ids \ {Writer} : R!Look(x)
      PROVE  RepFile' /\ RepTold'
  <2>1. UNCHANGED <<report, stages, has, told>>
    BY <1>1 DEF R!Start, R!End, R!Read, R!Look
  <2>2. QED
    BY <2>1 DEF RepFile, RepTold, Handed, Fits, OthersRuns
<1>2. ASSUME NEW t \in Tools, R!Begin(t) \/ R!Place(t) \/ R!Fail(t) \/ R!Tell(t)
      PROVE  RepFile' /\ RepTold'
  <2>1. /\ stages[t] \in {"none", "started", "placed", "kept"} /\ UNCHANGED report
        /\ told' \subseteq told \cup {t}
           /\ (t \in told' \ told => stages[t] = "kept" /\ stages'[t] = "over")
    BY <1>2 DEF R!Begin, R!Place, R!Fail, R!Tell, R!At, R!To, RepHolds
  <2>2. PICK s \in {"started", "placed", "over"} : stages' = [stages EXCEPT ![t] = s]
    BY <1>2 DEF R!Begin, R!Place, R!Fail, R!Tell, R!To
  <2>3. (stages[t] = "kept" => s = "over") /\ t \notin told
    BY <1>2, <2>2 DEF R!Begin, R!Place, R!Fail, R!Tell, R!At, R!To, RepHolds, RepTold
  <2>4. \A u \in Tools : /\ stages'[u] = IF u = t THEN s ELSE stages[u]
                         /\ stages[u] \in {"kept", "over"} => stages'[u] \in {"kept", "over"}
    BY <2>1, <2>2, <2>3 DEF RepHolds
  <2>5. ASSUME NEW u \in Tools, stages[u] \in {"kept", "over"}
        PROVE  has'[u].apart = has[u].apart
    BY <1>2, <2>5 DEF R!Begin, R!Place, R!Fail, R!Tell, R!At, R!To, RepHolds
  <2>6. RepFile'
    BY <2>1, <2>4, <2>5, RepKinds DEF RepFile, Handed, Fits, OthersRuns
  <2>7. \A u \in Tools : Found(u)
    BY DEF RepTold
  <2>8. ASSUME NEW u \in Tools
        PROVE  Found(u)'
    <3>1. (stages'[u] = "kept" \/ u \in told') => stages[u] = "kept" \/ u \in told
      BY <2>1, <2>2, <2>4
    <3>2. (\E v \in Tools \ {u} : stages[v] \in {"kept", "over"})
            => \E v \in Tools \ {u} : stages'[v] \in {"kept", "over"}
      BY <2>4
    <3>3. QED
      BY <2>1, <2>7, <3>1, <3>2
  <2>9. told' \subseteq Tools /\ \A u \in told' : stages'[u] = "over"
    BY <2>1, <2>2, <2>3, <2>4 DEF RepTold
  <2>10. QED
    <3> HIDE DEF Found
    <3>1. (\A u \in Tools : Found(u)') /\ (told' \subseteq Tools)
            /\ \A u \in told' : stages'[u] = "over"
      BY <2>8, <2>9
    <3> USE DEF Found
    <3>2. QED
      BY <2>6, <3>1 DEF RepTold
<1>3. ASSUME NEW t \in Tools, R!Keep(t)
      PROVE  RepFile' /\ RepTold'
  <2>1. /\ stages[t] = "placed" /\ stages' = [stages EXCEPT ![t] = "kept"]
        /\ report' = [of |-> t, at |-> has[t].at, lines |-> Says[t]] /\ UNCHANGED told
        /\ has' = [has EXCEPT ![t].apart = life # has[t].its]
    BY <1>3 DEF R!Keep, R!At, R!To
  <2>2. \A u \in Tools : stages'[u] = IF u = t THEN "kept" ELSE stages[u]
    BY <2>1 DEF RepHolds
  <2>3. RepFile'
    <3>1. report'.of = t /\ report'.at = has[t].at /\ report'.lines = Says[t]
      BY <2>1
    <3>2. has[t].at \in KnownAt /\ has[t].at.run \in Runs
      BY <2>1 DEF RepHolds
    <3>3. has'[t].apart <=> life # has[t].its
      BY <2>1 DEF RepHolds
    <3>4. ~has'[t].apart => Fits(has[t].at)
      BY <2>1, <3>3 DEF RepHolds
    <3>5. Handed(t)'
      BY <2>2 DEF Handed
    <3>6. QED
      BY <3>1, <3>2, <3>4, <3>5 DEF RepFile, Fits, OthersRuns
  <2>4. RepTold'
    BY <2>1, <2>2 DEF RepTold
  <2>5. QED
    BY <2>3, <2>4
<1>4. QED
  BY <1>1, <1>2, <1>3 DEF R!Next

\* A set of naturals that is not empty has a least element.
LEMMA LeastNat ==
  ASSUME NEW X \in SUBSET Nat, X # {}
  PROVE  \E n \in X : \A m \in X : n <= m
<1> DEFINE Less == {pair \in Nat \X Nat : pair[1] < pair[2]}
<1>1. IsWellFoundedOn(Less, Nat)
  BY NatLessThanWellFounded DEF OpToRel
<1>2. PICK n \in X : \A m \in X : ~(<<m, n>> \in Less)
  <2> HIDE DEF Less
  <2>1. QED
    BY <1>1, WFMin
<1>3. \A m \in X : ~(m < n)
  <2>1. SUFFICES ASSUME NEW m \in X, m < n
                 PROVE  FALSE
    OBVIOUS
  <2>2. <<m, n>> \in Less
    BY <2>1
  <2>3. QED
    BY <2>2, <1>2
<1>4. QED
  BY <1>3

\* A page ends within its report, and begins with a line of it if there is one.
LEMMA PageWithin ==
  ASSUME NEW lines \in Seq(Nat), NEW first \in 0..Len(lines)
  PROVE  /\ R!PageEnd(lines, first) \in first..Len(lines)
         /\ first < Len(lines) => R!PageEnd(lines, first) > first
<1>0. Len(lines) \in Nat /\ PageLines \in Nat \ {0}
  BY RepKinds
<1> DEFINE n == Len(lines)
           Fitting(last) == /\ last - first <= PageLines
                            /\ last <= first + 1 \/ R!Bytes(lines, first + 1, last) <= PageBytes
           whole == {last \in first..n : Fitting(last)}
<1>1. R!PageEnd(lines, first) = CHOOSE last \in whole : \A l \in whole : l <= last
  BY DEF R!PageEnd
<1>2. first \in whole /\ (first < n => first + 1 \in whole)
  BY <1>0
<1>3. whole \subseteq first..n
  OBVIOUS
<1> HIDE DEF whole
<1>4. \E last \in whole : \A l \in whole : l <= last
  <2> DEFINE X == {n - l : l \in whole}
  <2>1. X \in SUBSET Nat /\ X # {}
    BY <1>0, <1>2, <1>3
  <2>2. PICK m \in X : \A k \in X : m <= k
    <3> HIDE DEF X
    <3>1. QED
      BY <2>1, LeastNat
  <2>3. PICK last \in whole : m = n - last
    OBVIOUS
  <2>4. \A l \in whole : l <= last
    <3>1. SUFFICES ASSUME NEW l \in whole
                   PROVE  l <= last
      OBVIOUS
    <3>2. n - l \in X /\ l \in first..n /\ last \in first..n
      BY <1>3
    <3>3. n - last <= n - l
      BY <2>2, <2>3, <3>2
    <3>4. QED
      BY <1>0, <3>2, <3>3
  <2>5. QED
    BY <2>4
<1>5. R!PageEnd(lines, first) \in whole /\ \A l \in whole : l <= R!PageEnd(lines, first)
  BY <1>1, <1>4
<1>6. first < n => first + 1 <= R!PageEnd(lines, first)
  BY <1>2, <1>5
<1>7. R!PageEnd(lines, first) \in first..n
  BY <1>3, <1>5
<1>8. \A p \in first..n : first + 1 <= p => p > first
  BY <1>0
<1>9. QED
  BY <1>6, <1>7, <1>8

\* Two sequences, one after the other.
LEMMA Joined ==
  ASSUME NEW T, NEW s \in Seq(T), NEW m \in Seq(T)
  PROVE  /\ s \o m \in Seq(T) /\ Len(s \o m) = Len(s) + Len(m)
         /\ \A i \in 1..Len(s) : (s \o m)[i] = s[i]
         /\ \A i \in Len(s) + 1..Len(s) + Len(m) : (s \o m)[i] = m[i - Len(s)]
OBVIOUS

\* What is a beginning of a report.
LEMMA IsLines ==
  ASSUME NEW T, NEW t \in Seq(T), NEW r, NEW n \in Nat, Len(t) = n,
           \A i \in 1..n : t[i] = <<r, i>>
  PROVE  t = Lines(r, n)
<1>1. DOMAIN t = 1..n /\ t = [i \in 1..n |-> t[i]]
  OBVIOUS
<1>2. QED
  BY <1>1 DEF Lines

\* t is s and k lines more of r, from the one after first.
Adds(s, t, r, first, k) ==
  /\ Len(t) = Len(s) + k /\ \A i \in 1..Len(s) : t[i] = s[i]
  /\ \A i \in Len(s) + 1..Len(s) + k : t[i] = <<r, first + (i - Len(s))>>

\* What a page adds to what was shown.
LEMMA RepMore ==
  ASSUME NEW T, NEW s \in Seq(T), NEW t \in Seq(T), NEW r, NEW first \in Nat, NEW k \in Nat,
         Adds(s, t, r, first, k)
  PROVE  /\ Differ(s) => Differ(t)
         /\ s = Lines(r, first) => t = Lines(r, first + k)
         /\ s # <<>> /\ k > 0 /\ s[1][1] # r => Differ(t)
<1>3. Len(s) \in Nat /\ DOMAIN s = 1..Len(s)
  OBVIOUS
<1>4. /\ Len(t) = Len(s) + k /\ \A i \in 1..Len(s) : t[i] = s[i]
      /\ \A i \in Len(s) + 1..Len(s) + k : t[i] = <<r, first + (i - Len(s))>>
  BY DEF Adds
<1>7. DOMAIN t = 1..Len(s) + k
  BY <1>4
<1>8. Differ(s) => Differ(t)
  BY <1>3, <1>4, <1>7 DEF Differ
<1>9. ASSUME s = Lines(r, first)
      PROVE  t = Lines(r, first + k)
  <2>1. Len(s) = first
    <3>1. DOMAIN s = 1..first
      BY <1>9 DEF Lines
    <3>2. 1..Len(s) = 1..first
      BY <1>3, <3>1
    <3>3. \A m, n \in Nat : 1..m = 1..n => m = n
      <4>1. \A m, n \in Nat : m < n => n \in 1..n /\ n \notin 1..m
        OBVIOUS
      <4>2. QED
        BY <4>1
    <3>4. QED
      BY <1>3, <3>2, <3>3
  <2>0. \A i \in 1..first : s[i] = <<r, i>>
    BY <1>9 DEF Lines
  <2>2. \A i \in 1..first + k : t[i] = <<r, i>>
    <3>1. SUFFICES ASSUME NEW i \in 1..first + k
                   PROVE  t[i] = <<r, i>>
      OBVIOUS
    <3>2. CASE i \in 1..first
      BY <1>4, <2>0, <2>1, <3>2
    <3>3. CASE i \in first + 1..first + k
      <4>1. i \in Len(s) + 1..Len(s) + k
        BY <2>1, <3>3
      <4>2. t[i] = <<r, first + (i - Len(s))>>
        BY <1>4, <4>1
      <4>3. first + (i - Len(s)) = i
        BY <2>1, <3>3
      <4>4. QED
        BY <4>2, <4>3
    <3>4. i \in 1..first \/ i \in first + 1..first + k
      BY <3>1
    <3>5. QED
      BY <3>2, <3>3, <3>4, Zenon
  <2>3. Len(t) = first + k
    BY <1>4, <2>1
  <2>4. QED
    BY <2>2, <2>3, IsLines
<1>10. ASSUME s # <<>>, k > 0, s[1][1] # r
       PROVE  Differ(t)
  <2>1. 1 \in 1..Len(s) /\ Len(s) + 1 \in Len(s) + 1..Len(s) + k
    BY <1>3, <1>10
  <2>2. t[1] = s[1] /\ t[Len(s) + 1][1] = r
    BY <1>4, <2>1
  <2>3. 1 \in DOMAIN t /\ Len(s) + 1 \in DOMAIN t
    BY <1>3, <1>7, <2>1
  <2>4. t[1][1] # t[Len(s) + 1][1]
    BY <1>10, <2>2
  <2>5. QED
    BY <2>3, <2>4 DEF Differ
<1>11. s = Lines(r, first) => t = Lines(r, first + k)
  BY <1>9
<1>12. s # <<>> /\ k > 0 /\ s[1][1] # r => Differ(t)
  BY <1>10
<1>13. QED
  BY <1>8, <1>11, <1>12

\* Whoever reads a page might have asked its writer.
LEMMA RepLooks ==
  ASSUME RepLook, look.by # Nobody
  PROVE  /\ look.by \in Ids \ {Writer} /\ look.forked \in SUBSET Ids /\ look.next \in Nat \ {0}
         /\ look.shown \in Seq((Tools \cup {Old}) \X Nat) /\ look.whole \in BOOLEAN
            /\ look.within
         /\ look.its # Nobody => ~look.whole
         /\ look.its # Nobody /\ look.its = <<life, R!There>> =>
              look.forked = IF R!There THEN R!Children(parents, Ids, look.by) ELSE {}
         /\ Shown
<1>1. look # R!NoLook
  BY DEF R!NoLook
<1>2. QED
  BY <1>1 DEF RepLook

\* What one reads is of a writer it could have asked.
LEMMA RepWithin ==
  ASSUME RepNotes, RepHolds, RepFile, RepLook, R!Read
  PROVE  R!Within(look.by)
<1>0. /\ look.by \in Ids \ {Writer} /\ look.its # Nobody /\ report.of # NoReport
      /\ ~R!Barred(look.by, look.forked)
  BY RepLooks DEF R!Read
<1>1. SUFFICES ASSUME report.of # Old, ~has[report.of].apart, look.its = <<life, R!There>>
               PROVE  R!Within(look.by)
  BY DEF R!Within
<1>2. /\ report.of \in Tools /\ report.at \in KnownAt /\ report.at.run \in Runs
         /\ Fits(report.at)
  <2>1. report # [of |-> NoReport]
    BY <1>0
  <2>2. QED
    BY <1>1, <2>1 DEF RepFile
<1>3. look.forked = IF R!There THEN R!Children(parents, Ids, look.by) ELSE {}
  BY <1>0, <1>1, RepLooks, RepKinds
<1> DEFINE me == R!Whom(parents, runs, look.by)
           live == R!Whom(parents, runs, Writer)
           kept == report.at.run
           them == [id |-> Writer,
                    parent |-> IF parents[Writer] = Nobody THEN report.at.parent
                      ELSE parents[Writer],
                    root |-> IF parents[Writer] = Nobody /\ ~R!There /\ kept # NoRun THEN kept
                      ELSE live.root]
           then == [id |-> Writer, parent |-> report.at.parent, root |-> report.at.run]
<1>4. /\ R!There => report.at.run = runs[Writer]
      /\ R!MayReach(me, IF Writer \in look.forked THEN "child" ELSE R!Between(me, them), Talk)
  BY <1>0, <1>2, RepKinds DEF R!Barred, R!BarredByWalls
<1>5. live.id = Writer /\ live.parent = parents[Writer] /\ me.id = look.by
  BY DEF R!Whom
<1>6. CASE R!There
  <2>1. R!MayReach(me, R!Between(me, live), Talk)
    <3>1. CASE Writer \in look.forked
      <4>1. parents[Writer] = look.by
        BY <1>3, <1>6, <3>1 DEF R!Children
      <4>2. R!Between(me, live) \in {"parent", "child"}
        BY <1>0, <1>5, <4>1 DEF R!Between
      <4>3. QED
        BY <4>2 DEF R!MayReach
    <3>2. CASE Writer \notin look.forked
      <4>1. parents[Writer] = Nobody => report.at.parent = Nobody
        <5>1. SUFFICES ASSUME parents[Writer] = Nobody, report.at.parent # Nobody
                       PROVE  FALSE
          OBVIOUS
        <5>2. runs[Writer] \notin OthersRuns
          BY <1>6, <5>1 DEF RepNotes, Fits, NotedOf
        <5>3. report.at.run = Others[report.at.parent].run /\ report.at.parent \in DOMAIN Others
          BY <1>2, <5>1, RepKinds DEF Fits, KnownAt
        <5>4. QED
          BY <1>4, <1>6, <5>2, <5>3 DEF OthersRuns
      <4>2. them = live
        BY <1>5, <1>6, <4>1 DEF R!Whom
      <4>3. QED
        BY <1>4, <3>2, <4>2
    <3>3. QED
      BY <3>1, <3>2
  <2>2. QED
    BY <1>4, <1>6, <2>1 DEF R!Within
<1>7. CASE ~R!There
  <2>1. Writer \notin look.forked
    BY <1>3, <1>7
  <2>2. them = then
    <3>1. parents[Writer] = Nobody /\ kept # NoRun
      BY <1>2, <1>7, RepKinds DEF RepNotes
    <3>2. QED
      BY <1>7, <3>1
  <2>3. QED
    BY <1>4, <2>1, <2>2 DEF R!Within
<1>8. QED
  BY <1>6, <1>7

\* Sequences are the same if their elements are.
LEMMA Alike ==
  ASSUME NEW T, NEW s \in Seq(T), NEW t \in Seq(T), Len(s) = Len(t),
           \A i \in 1..Len(t) : s[i] = t[i]
  PROVE  s = t
OBVIOUS

\* What a page leaves is as it was, with more of the same report or of another.
LEMMA RepPaged ==
  ASSUME RepNotes, RepHolds, RepFile, RepLook, R!Read
  PROVE  RepLook'
<1>0. /\ look.by \in Ids \ {Writer} /\ look.forked \in SUBSET Ids /\ look.next \in Nat \ {0}
      /\ look.shown \in Seq((Tools \cup {Old}) \X Nat) /\ look.within /\ ~look.whole /\ Shown
      /\ look.its # Nobody /\ report.of # NoReport
  BY RepLooks DEF R!Read
<1> DEFINE r == report.of
           n == Len(report.lines)
           first == IF look.next - 1 < n THEN look.next - 1 ELSE n
           last == R!PageEnd(report.lines, first)
           k == last - first
           shown == look.shown \o [i \in 1..k |-> <<r, first + i>>]
           within == look.within /\ R!Within(look.by)
           whole == last >= n
<1>1. r \in Tools \cup {Old} /\ Handed(r) /\ report.lines = Says[r]
  <2>1. report # [of |-> NoReport]
    BY <1>0
  <2>2. QED
    BY <2>1 DEF RepFile, Handed
<1>2. report.lines \in Seq(Nat) /\ n \in Nat \ {0}
  BY <1>1, RepKinds
<1>3. first \in 0..n
  BY <1>0, <1>2
<1>4. last \in first..n /\ (first < n => last > first)
  <2> HIDE DEF first
  <2>1. QED
    BY <1>2, <1>3, PageWithin
<1>5. look' = [look EXCEPT !.shown = shown, !.its = Nobody, !.next = last + 1, !.whole = whole, !.within = within]
  BY DEF R!Read
<1>6. within
  BY <1>0, RepWithin
<1>7. UNCHANGED <<report, stages>>
  BY DEF R!Read
<1>8. k \in Nat /\ first + k = last /\ last \in Nat /\ first \in Nat
  BY <1>2, <1>3, <1>4
<1>9. /\ shown \in Seq((Tools \cup {Old}) \X Nat)
      /\ Differ(look.shown) => Differ(shown)
      /\ look.shown = Lines(r, first) => shown = Lines(r, last)
      /\ look.shown # <<>> /\ k > 0 /\ look.shown[1][1] # r => Differ(shown)
      /\ k = 0 => shown = look.shown
  <2> HIDE DEF first, last
  <2> DEFINE T == (Tools \cup {Old}) \X Nat
  <2>1. look.shown \in Seq(T) /\ \A i \in Nat : <<r, i>> \in T
    BY <1>0, <1>1
  <2> HIDE DEF T, r
  <2>2. /\ shown \in Seq(T) /\ Len(shown) = Len(look.shown) + k
        /\ \A i \in 1..Len(look.shown) : shown[i] = look.shown[i]
        /\ Differ(look.shown) => Differ(shown)
        /\ look.shown = Lines(r, first) => shown = Lines(r, first + k)
        /\ look.shown # <<>> /\ k > 0 /\ look.shown[1][1] # r => Differ(shown)
    <3>1. k \in Nat /\ first \in Nat
      BY <1>8
    <3> DEFINE more == [i \in 1..k |-> <<r, first + i>>]
    <3> HIDE DEF k
    <3>2. more \in Seq(T) /\ Len(more) = k /\ \A i \in 1..k : more[i] = <<r, first + i>>
      BY <2>1, <3>1
    <3>3. shown = look.shown \o more
      OBVIOUS
    <3> HIDE DEF more, shown
    <3>4. /\ shown \in Seq(T) /\ Len(shown) = Len(look.shown) + k
          /\ \A i \in 1..Len(look.shown) : shown[i] = look.shown[i]
          /\ \A i \in Len(look.shown) + 1..Len(look.shown) + k : shown[i] = more[i - Len(look.shown)]
      <4> DEFINE both == look.shown \o more
      <4>1. /\ both \in Seq(T) /\ Len(both) = Len(look.shown) + Len(more)
            /\ \A i \in 1..Len(look.shown) : both[i] = look.shown[i]
            /\ \A i \in Len(look.shown) + 1..Len(look.shown) + Len(more) : both[i] = more[i - Len(look.shown)]
        BY <2>1, <3>2, Joined, Zenon
      <4>2. both = shown /\ Len(more) = k
        BY <3>2, <3>3, Zenon
      <4> HIDE DEF both
      <4>3. QED
        BY <4>1, <4>2, Zenon
    <3>5. Adds(look.shown, shown, r, first, k)
      <4>1. ASSUME NEW i \in Len(look.shown) + 1..Len(look.shown) + k
            PROVE  shown[i] = <<r, first + (i - Len(look.shown))>>
        <5>1. i - Len(look.shown) \in 1..k
          BY <2>1, <3>1
        <5>2. QED
          BY <3>2, <3>4, <5>1, Zenon
      <4>2. QED
        BY <3>4, <4>1 DEF Adds
    <3>6. /\ Differ(look.shown) => Differ(shown)
          /\ look.shown = Lines(r, first) => shown = Lines(r, first + k)
          /\ look.shown # <<>> /\ k > 0 /\ look.shown[1][1] # r => Differ(shown)
      <4>1. look.shown \in Seq(T) /\ shown \in Seq(T)
        BY <2>1, <3>4
      <4>2. QED
        BY <3>1, <3>5, <4>1, RepMore, Zenon
    <3>7. QED
      BY <3>4, <3>6, Zenon
  <2>3. k = 0 => shown = look.shown
    <3>1. Len(look.shown) \in Nat
      BY <2>1
    <3> HIDE DEF shown
    <3>2. k = 0 => Len(shown) = Len(look.shown)
            /\ \A i \in 1..Len(look.shown) : shown[i] = look.shown[i]
      BY <2>2, <3>1
    <3>3. QED
      BY <2>1, <2>2, <3>2, Alike
  <2>4. QED
    BY <1>8, <2>2, <2>3 DEF T
<1> HIDE DEF shown, last, first, within, whole
<1>10. /\ look'.by = look.by /\ look'.its = Nobody /\ look'.forked = look.forked
          /\ look'.next = last + 1
       /\ look'.shown = shown /\ look'.within = within /\ (look'.whole <=> whole)
       /\ look' \in [by : Ids \ {Writer}, its : {look'.its}, forked : SUBSET Ids, next : Nat \ {0},
                     shown : Seq((Tools \cup {Old}) \X Nat), whole : BOOLEAN, within : {TRUE}]
  <2>1. look # R!NoLook
    BY <1>0, RepKinds DEF R!NoLook
  <2>2. look \in [by : Ids \ {Writer}, its : {look.its}, forked : SUBSET Ids, next : Nat \ {0},
                  shown : Seq((Tools \cup {Old}) \X Nat), whole : BOOLEAN, within : {TRUE}]
    BY <2>1 DEF RepLook
  <2>3. last + 1 \in Nat \ {0} /\ whole \in BOOLEAN /\ within = TRUE
    <3>1. whole \in BOOLEAN
      BY DEF whole
    <3>2. within = TRUE
      BY <1>6 DEF within
    <3>3. QED
      BY <1>8, <3>1, <3>2
  <2>4. QED
    BY <1>5, <1>9, <2>2, <2>3
<1>11. last + 1 - 1 = last /\ last \in 1..n /\ (whole <=> last = n) /\ n = Len(Says[r])
  <2>1. first < n \/ first = n
    BY <1>2, <1>3
  <2>2. last >= 1
    BY <1>2, <1>3, <1>4, <2>1
  <2>3. QED
    BY <1>1, <1>2, <1>3, <1>4, <2>2 DEF whole
<1> DEFINE Shows == \/ Differ(shown)
                    \/ shown = Lines(r, last)
                    \/ \E q \in Tools \cup {Old}, m \in Nat \ {0} :
                         Handed(q) /\ shown = Lines(q, m) /\ whole /\ report.of # q
<1>12. Shows
  <2>1. CASE Differ(look.shown)
    BY <1>9, <2>1
  <2>2. CASE look.shown = <<>> /\ look.next = 1 /\ ~look.whole
    <3>1. first = 0
      BY <1>2, <2>2 DEF first
    <3>2. look.shown = Lines(r, first)
      BY <2>2, <3>1 DEF Lines
    <3>3. QED
      BY <1>9, <3>2
  <2>3. ASSUME NEW q \in Tools \cup {Old},
               /\ Handed(q) /\ look.next - 1 \in 1..Len(Says[q])
                  /\ look.shown = Lines(q, look.next - 1)
               /\ look.whole <=> look.next - 1 = Len(Says[q])
        PROVE  Shows
    <3>0. Len(Says[q]) \in Nat /\ look.next - 1 \in Nat \ {0}
      BY <1>0, <2>3, RepKinds
    <3>1. CASE q = r
      <4>1. first = look.next - 1
        BY <1>0, <1>1, <2>3, <3>0, <3>1 DEF first
      <4>2. QED
        BY <1>9, <2>3, <3>1, <4>1
    <3>2. CASE q # r /\ k > 0
      <4>1. look.shown # <<>> /\ look.shown[1][1] # r
        <5>1. ASSUME NEW m \in Nat \ {0}
              PROVE  Len(Lines(q, m)) = m /\ Lines(q, m)[1] = <<q, 1>> /\ m > 0
          <6>1. m \in Nat /\ m > 0
            OBVIOUS
          <6>2. QED
            BY <6>1 DEF Lines
        <5>2. Len(look.shown) > 0 /\ look.shown[1] = <<q, 1>>
          BY <2>3, <3>0, <5>1
        <5>3. QED
          BY <3>2, <5>2
      <4>2. QED
        BY <1>9, <3>2, <4>1
    <3>3. CASE q # r /\ k = 0
      <4>1. shown = Lines(q, look.next - 1)
        BY <1>9, <2>3, <3>3
      <4>2. whole
        BY <1>2, <1>3, <1>4, <1>8, <1>11, <3>3
      <4>3. QED
        BY <2>3, <3>0, <3>3, <4>1, <4>2
    <3>4. QED
      BY <1>8, <3>1, <3>2, <3>3
  <2>4. QED
    BY <1>0, <2>1, <2>2, <2>3 DEF Shown
<1>13. Shown'
  <2>1. (\A q : Handed(q)' <=> Handed(q)) /\ report'.of = r
    BY <1>7 DEF Handed
  <2>2. CASE Differ(shown)
    BY <1>10, <2>2 DEF Shown, Differ
  <2>3. CASE shown = Lines(r, last)
    <3>1. PICK q \in Tools \cup {Old} : q = r /\ Handed(q)
      BY <1>1
    <3>2. /\ Handed(q)' /\ look'.next - 1 \in 1..Len(Says[q])
             /\ look'.shown = Lines(q, look'.next - 1)
          /\ look'.whole <=> look'.next - 1 = Len(Says[q])
      BY <1>10, <1>11, <2>1, <2>3, <3>1
    <3>3. QED
      BY <3>2 DEF Shown
  <2>4. ASSUME NEW q \in Tools \cup {Old}, NEW m \in Nat \ {0},
               Handed(q) /\ shown = Lines(q, m) /\ whole /\ report.of # q
        PROVE  Shown'
    <3>1. Handed(q)' /\ look'.shown = Lines(q, m) /\ look'.whole /\ report'.of # q
      BY <1>10, <2>1, <2>4
    <3>2. QED
      BY <3>1 DEF Shown, Lines
  <2>5. QED
    BY <1>12, <2>2, <2>3, <2>4
<1>14. QED
  BY <1>10, <1>13 DEF RepLook

\* As others go on, what is shown stays the beginning of a report.
LEMMA ShownStays ==
  ASSUME Shown, UNCHANGED look, \A r : Handed(r) => Handed(r)'
           /\ (report.of # r => report'.of # r)
  PROVE  Shown'
BY DEF Shown

\* What is known of who has a name tells how many had it, and whether it is there.
LEMMA SameSession ==
  ASSUME NEW n, NEW m, NEW b \in BOOLEAN, NEW c \in BOOLEAN
  PROVE  <<n, b>> = <<m, c>> <=> n = m /\ (b <=> c)
<1>1. CASE b = TRUE /\ c = TRUE
  BY <1>1
<1>2. CASE b = TRUE /\ c = FALSE
  BY <1>2
<1>3. CASE b = FALSE /\ c = TRUE
  BY <1>3
<1>4. CASE b = FALSE /\ c = FALSE
  BY <1>4
<1>5. QED
  BY <1>1, <1>2, <1>3, <1>4

\* ... as it is after a step.
LEMMA SameAfter ==
  ASSUME NEW n, NEW b \in BOOLEAN
  PROVE  <<n, b>> = <<life', R!There'>> <=> n = life' /\ (b <=> R!There')
<1>1. R!There' \in BOOLEAN
  BY DEF R!There
<1>2. QED
  BY <1>1, SameSession

\* Every step keeps what is read.
LEMMA RepLookKept ==
  ASSUME RepNotes, RepHolds, RepFile, RepLook, R!Next
  PROVE  RepLook'
<1>0. CASE look = R!NoLook /\ UNCHANGED look
  BY <1>0 DEF RepLook, R!NoLook
<1> DEFINE Looking == [by : Ids \ {Writer}, its : {look.its}, forked : SUBSET Ids, next : Nat \ {0},
                       shown : Seq((Tools \cup {Old}) \X Nat), whole : BOOLEAN, within : {TRUE}]
           Fresh == look.its # Nobody =>
                      ~look.whole /\ look.its \in (0..life) \X BOOLEAN
                        /\ (look.its = <<life, FALSE>> => ~R!There)
           Forked == look.its # Nobody /\ look.its = <<life, R!There>> =>
                       look.forked = IF R!There THEN R!Children(parents, Ids, look.by) ELSE {}
<1>1. ASSUME look # R!NoLook
      PROVE  look \in Looking /\ Fresh /\ Forked /\ Shown
  BY <1>1 DEF RepLook
<1>2. ASSUME look' \in Looking', Fresh', Forked', Shown'
      PROVE  RepLook'
  BY <1>2 DEF RepLook
<1>3. ASSUME UNCHANGED look, look # R!NoLook,
             R!End \/ \E p \in (Ids \ {Writer}) \cup {Nobody} : R!Start(p)
      PROVE  RepLook'
  <2>1. UNCHANGED <<report, stages>>
    BY <1>3 DEF R!End, R!Start
  <2>2. Shown'
    BY <1>1, <1>3, <2>1, ShownStays DEF Handed
  <2>3. look' \in Looking'
    BY <1>1, <1>3
  <2>4. Fresh' /\ Forked'
    <3>1. CASE look.its = Nobody
      BY <1>3, <3>1
    <3>2. CASE look.its # Nobody
      <4>1. PICK n \in 0..life, b \in BOOLEAN : look.its = <<n, b>>
        BY <1>1, <1>3, <3>2
      <4>2. CASE R!End
        <5>1. R!There /\ ~R!There' /\ life' = life /\ life \in Nat
          BY <4>2, RepKinds DEF R!End, R!There, RepNotes
        <5>2. look.its # <<life, FALSE>>
          BY <1>1, <1>3, <3>2, <5>1
        <5>3. ~(n = life' /\ (b <=> R!There'))
          BY <4>1, <5>1, <5>2
        <5>4. look'.its # <<life', R!There'>>
          BY <1>3, <4>1, <5>3, SameAfter
        <5>5. look'.its \in (0..life') \X BOOLEAN /\ ~look'.whole
          BY <1>1, <1>3, <3>2, <4>1, <5>1
        <5>6. QED
          BY <5>1, <5>4, <5>5
      <4>3. CASE \E p \in (Ids \ {Writer}) \cup {Nobody} : R!Start(p)
        <5>1. life' = life + 1 /\ life \in Nat
          BY <4>3 DEF R!Start, RepNotes
        <5>2. n # life' /\ n \in 0..life'
          BY <4>1, <5>1
        <5>3. look'.its \in (0..life') \X BOOLEAN /\ ~look'.whole
          BY <1>1, <1>3, <3>2, <4>1, <5>2
        <5>4. look'.its # <<life', R!There'>>
          BY <1>3, <4>1, <5>2, SameAfter
        <5>5. <<n, b>> = <<life', FALSE>> <=> n = life' /\ (b <=> FALSE)
          BY SameSession
        <5>6. look'.its # <<life', FALSE>>
          BY <1>3, <4>1, <5>2, <5>5
        <5>7. QED
          BY <5>3, <5>4, <5>6
      <4>4. QED
        BY <1>3, <4>2, <4>3
    <3>3. QED
      BY <3>1, <3>2
  <2>5. QED
    BY <1>2, <2>2, <2>3, <2>4
<1>4. ASSUME look # R!NoLook, NEW t \in Tools, R!Begin(t) \/ R!Place(t) \/ R!Keep(t)
               \/ R!Tell(t) \/ R!Fail(t)
      PROVE  RepLook'
  <2>1. UNCHANGED <<parents, runs, life, look>>
    BY <1>4 DEF R!Begin, R!Place, R!Keep, R!Tell, R!Fail
  <2>2. R!There' <=> R!There
    BY <2>1 DEF R!There
  <2>3. ASSUME NEW r
        PROVE  Handed(r) => Handed(r)' /\ (report.of # r => report'.of # r)
    <3>1. CASE R!Keep(t)
      <4>1. /\ stages[t] = "placed" /\ stages' = [stages EXCEPT ![t] = "kept"] /\ report'.of = t
        BY <3>1 DEF R!Keep, R!At, R!To
      <4>2. QED
        BY <4>1, RepKinds DEF Handed, RepHolds
    <3>2. CASE R!Begin(t) \/ R!Place(t) \/ R!Tell(t) \/ R!Fail(t)
      <4>1. UNCHANGED report
        BY <3>2 DEF R!Begin, R!Place, R!Tell, R!Fail
      <4>2. PICK s \in {"started", "placed", "over"} : stages' = [stages EXCEPT ![t] = s]
        BY <3>2 DEF R!Begin, R!Place, R!Tell, R!Fail, R!To
      <4>3. stages[t] \in {"kept", "over"} => s = "over"
        BY <3>2, <4>2 DEF R!Begin, R!Place, R!Tell, R!Fail, R!At, R!To, RepHolds
      <4>4. QED
        BY <4>1, <4>2, <4>3 DEF Handed, RepHolds
    <3>3. QED
      BY <1>4, <3>1, <3>2
  <2>4. Shown'
    BY <1>1, <1>4, <2>1, <2>3, ShownStays
  <2>5. look' \in Looking' /\ Fresh' /\ Forked'
    BY <1>1, <1>4, <2>1, <2>2 DEF R!Children
  <2>6. QED
    BY <1>2, <2>4, <2>5
<1>5. ASSUME NEW x \in Ids \ {Writer}, R!Look(x)
      PROVE  RepLook'
  <2> DEFINE l == IF look.by = x THEN look
    ELSE [next |-> 1, shown |-> <<>>, whole |-> FALSE, within |-> TRUE]
             forked == IF R!There THEN R!Children(parents, Ids, x) ELSE {}
  <2>1. look' = [by |-> x, its |-> <<life, R!There>>, forked |-> forked,
                 next |-> l.next, shown |-> l.shown, whole |-> l.whole, within |-> l.within]
    BY <1>5 DEF R!Look
  <2>2. UNCHANGED <<parents, runs, life, report, stages>>
    BY <1>5 DEF R!Look
  <2>3. /\ l.next \in Nat \ {0} /\ l.shown \in Seq((Tools \cup {Old}) \X Nat) /\ l.whole = FALSE
           /\ l.within = TRUE
    <3>1. CASE look.by = x
      <4>1. look.by # Nobody /\ l = look
        BY <3>1, RepKinds
      <4>2. ~look.whole
        BY <1>5, <4>1 DEF R!Look
      <4>3. QED
        BY <4>1, <4>2, RepLooks
    <3>2. CASE look.by # x
      BY <3>2
    <3>3. QED
      BY <3>1, <3>2
  <2>4. forked \in SUBSET Ids
    BY DEF R!Children
  <2>5. (R!There' <=> R!There) /\ life \in Nat /\ life' = life /\ R!There \in BOOLEAN
    BY <2>2 DEF R!There, RepNotes
  <2>6. Shown'
    <3>1. CASE look.by = x
      <4>1. look.by # Nobody /\ l = look
        BY <3>1, RepKinds
      <4>2. Shown
        BY <4>1, RepLooks
      <4>3. look'.shown = look.shown /\ look'.next = look.next /\ look'.whole = look.whole
        BY <2>1, <4>1
      <4>4. \A r : (Handed(r)' <=> Handed(r)) /\ report'.of = report.of
        BY <2>2 DEF Handed
      <4>5. QED
        BY <4>2, <4>3, <4>4 DEF Shown
    <3>2. CASE look.by # x
      <4>1. look'.shown = <<>> /\ look'.next = 1 /\ ~look'.whole
        BY <2>1, <3>2
      <4>2. QED
        BY <4>1 DEF Shown
    <3>3. QED
      BY <3>1, <3>2
  <2> HIDE DEF l
  <2>7. /\ look'.by = x /\ look'.its = <<life, R!There>> /\ look'.forked = forked
           /\ look'.whole = FALSE
        /\ look'.next = l.next /\ look'.shown = l.shown /\ look'.within = l.within
    BY <2>1, <2>3
  <2> HIDE DEF forked
  <2>8. look' \in Looking'
    BY <2>1, <2>3, <2>4
  <2>9. Fresh'
    <3>1. look'.its \in (0..life') \X BOOLEAN /\ ~look'.whole
      BY <2>5, <2>7
    <3>2. look'.its = <<life', FALSE>> => ~R!There'
      <4>1. <<life, FALSE>> = <<life', R!There'>> => ~R!There'
        BY SameAfter
      <4>2. <<life, R!There>> = <<life', R!There'>>
        BY <2>5, SameAfter
      <4>3. QED
        BY <2>5, <2>7, <4>1, <4>2
    <3>3. QED
      BY <3>1, <3>2
  <2> USE DEF forked
  <2>10. Forked'
    BY <2>2, <2>5, <2>7 DEF R!Children
  <2>11. QED
    BY <1>2, <2>6, <2>8, <2>9, <2>10
<1>6. (\E x \in Ids \ {Writer} : R!Look(x)) \/ R!Read \/ UNCHANGED look
  BY DEF R!Next, R!Start, R!End, R!Begin, R!Place, R!Keep, R!Tell, R!Fail
<1>7. QED
  BY <1>0, <1>3, <1>4, <1>5, <1>6, RepPaged DEF R!Next, R!Start, R!End

\* For any sessions, reports and sizes of page: nobody reads what its writer would not have
\* told,
\* the pages of a report that was not handed in anew are all of it, each line once and in order,
\* and whoever was told of one finds it (hand_in and read in verbs/reporting.rs).
THEOREM ReportsAreWhole == Books => []ReportIsTheirs
<1>1. Begins => RepInv
  BY RepBegins DEF Begins
<1>2. ASSUME RepInv, [Moves]_<<part, vars, reporting>>
      PROVE  RepInv'
  <2>1. CASE R!Next
    <3>1. RepNotes /\ RepHolds /\ RepFile /\ RepTold /\ RepLook
      BY <1>2 DEF RepInv
    <3>2. (RepNotes' /\ RepHolds') /\ (RepFile' /\ RepTold') /\ RepLook'
      BY <2>1, <3>1, RepNotesKept, RepFileKept, RepLookKept
    <3>3. QED
      BY <3>2 DEF RepInv
  <2>2. CASE UNCHANGED reporting
    <3>1. UNCHANGED <<parents, runs, life, report, stages, has, told, look>>
      BY <2>2 DEF reporting
    <3>2. RepNotes'
      BY <1>2, <3>1 DEF RepInv, RepNotes, R!There, NotedOf, Fits, OthersRuns
    <3>3. RepHolds'
      BY <1>2, <3>1 DEF RepInv, RepHolds, R!There, NotedOf, Fits, OthersRuns
    <3>4. RepFile'
      BY <1>2, <3>1 DEF RepInv, RepFile, R!None, Handed, Fits, OthersRuns
    <3>5. RepTold'
      BY <1>2, <3>1 DEF RepInv, RepTold
    <3>6. RepLook'
      BY <1>2, <3>1 DEF RepInv, RepLook, R!NoLook, Shown, Handed, R!There, R!Children
    <3>7. QED
      BY <3>2, <3>3, <3>4, <3>5, <3>6 DEF RepInv
  <2>3. QED
    BY <1>2, <2>1, <2>2 DEF Moves
<1>3. RepInv => ReportIsTheirs
  <2> SUFFICES ASSUME RepInv
               PROVE  ReportIsTheirs
    OBVIOUS
  <2>1. R!WithinWalls
    BY RepLooks DEF RepInv, R!WithinWalls
  <2>2. R!ToldOfWhatIsThere
    BY DEF RepInv, RepTold, R!ToldOfWhatIsThere
  <2>3. ASSUME look.by # Nobody, look.whole, ~Differ(look.shown)
        PROVE  \E r \in {look.shown[i][1] : i \in DOMAIN look.shown} :
                 /\ \A i \in DOMAIN look.shown : look.shown[i] = <<r, i>>
                 /\ (report.of = r => Len(look.shown) = Len(report.lines))
    <3>1. PICK r \in Tools \cup {Old}, n \in Nat \ {0} :
            look.shown = Lines(r, n) /\ (report.of # r \/ n = Len(Says[r]))
      BY <2>3, RepLooks, RepKinds DEF RepInv, Shown
    <3>2. report.of = r => report.lines = Says[r]
      BY <3>1, RepKinds DEF RepInv, RepFile
    <3>3. Len(look.shown) = n /\ 1 \in DOMAIN look.shown /\ look.shown[1][1] = r
      <4>1. Lines(r, n) \in Seq((Tools \cup {Old}) \X Nat) /\ Len(Lines(r, n)) = n /\ 1 \in 1..n
        BY DEF Lines
      <4>2. Lines(r, n)[1] = <<r, 1>> /\ DOMAIN Lines(r, n) = 1..n
        BY <4>1 DEF Lines
      <4>3. QED
        BY <3>1, <4>1, <4>2
    <3>4. \A i \in DOMAIN look.shown : look.shown[i] = <<r, i>>
      BY <3>1 DEF Lines
    <3>5. QED
      BY <3>1, <3>2, <3>3, <3>4
  <2>4. R!PagesWhole
    BY <2>3 DEF R!PagesWhole, Differ
  <2>5. QED
    BY <2>1, <2>2, <2>4 DEF ReportIsTheirs
<1>4. RepInv /\ [Moves]_<<part, vars, reporting>> => RepInv'
  BY <1>2
<1>5. QED
  BY <1>1, <1>3, <1>4, PTL DEF Books
=================================================================================
