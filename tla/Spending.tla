-------------------------------- MODULE Spending --------------------------------
(***************************************************************************)
(* What a run has spent on models: the asks of its sessions, each in a     *)
(* process of its own, add what they cost to one ledger file, and an ask   *)
(* of a run that has reached its cap is not sent.                          *)
(*                                                                         *)
(*   asking              running.rs: the check, then what is heard of cost *)
(*   Meter, Ledger       spending.rs: flock <run>.lock, read <run>, write  *)
(*                       <run>.next beside it, rename                      *)
(*   close               by the session that began the run, as it ends     *)
(*                                                                         *)
(* Amounts are small numbers; Full stands for u64::MAX, where a ledger     *)
(* that was once reached stays.                                            *)
(***************************************************************************)
EXTENDS Integers, FiniteSets

CONSTANTS
  Asks,     \* asks of the run, each made once
  Costs,    \* what an ask may be heard to cost so far
  Cap,      \* spend_cap_usd
  Full,     \* the largest number a ledger holds
  Inodes,   \* inodes of the lock file
  NoInode,  \* what a path that is not there leads to
  Nobody    \* who holds a lock nobody holds

ASSUME SpendingKinds ==
  /\ Costs \subseteq Nat /\ Cap \in 1..Full /\ Full \in Nat
  /\ NoInode \notin Inodes /\ Nobody \notin Asks

NoFile  == -1
Torn    == -2  \* a ledger half written

VARIABLES
  ledger,   \* the total at <run>, or NoFile
  next,     \* what is at <run>.next
  lockAt,   \* the inode at <run>.lock
  flock,    \* who holds the lock of each inode
  stage,    \* where each ask is
  fd,       \* the lock file each ask has open
  total,    \* the total an ask is about to write
  heard,    \* what an ask was last heard to cost
  charged,  \* Meter.charged: what of it is in the ledger
  owing,    \* whether the last settlement failed
  closing   \* how much of close is done

lock == <<lockAt, flock>>
vars == <<ledger, next, lock, stage, fd, total, heard, charged, owing, closing>>

Init ==
  /\ ledger = NoFile /\ next = NoFile
  /\ lockAt = NoInode /\ flock = [i \in Inodes |-> Nobody]
  /\ stage = [a \in Asks |-> "new"]
  /\ fd = [a \in Asks |-> NoInode] /\ total = [a \in Asks |-> 0]
  /\ heard = [a \in Asks |-> 0] /\ charged = [a \in Asks |-> 0]
  /\ owing = [a \in Asks |-> FALSE]
  /\ closing = 0

Goes(a, from, to) == stage[a] = from /\ stage' = [stage EXCEPT ![a] = to]

\* What a ledger is read as; one never written is nothing spent.
Read == IF ledger = NoFile THEN 0 ELSE ledger

----------------------------------------------------------------------------
\* An ask

\* A total that cannot be read counts as Full: spent() is u64::MAX then.
Begin(a) ==
  /\ LET spent == IF Read = Torn THEN Full ELSE Read
     IN Goes(a, "new", IF spent >= Cap THEN "refused" ELSE "asking")
  /\ UNCHANGED <<ledger, next, lock, fd, total, heard, charged, owing, closing>>

\* The whole cost so far, failed attempts included.  It may be less than before: a price
\* the provider states takes the place of an estimate.  The same as charged settles nothing.
Hear(a, cost) ==
  /\ heard' = [heard EXCEPT ![a] = cost]
  /\ IF cost = charged[a]
     THEN /\ stage[a] = "asking" /\ UNCHANGED stage
          /\ owing' = [owing EXCEPT ![a] = FALSE]
     ELSE Goes(a, "asking", "settling") /\ UNCHANGED owing
  /\ UNCHANGED <<ledger, next, lock, fd, total, charged, closing>>

Open(a) ==
  /\ Goes(a, "settling", "waiting")
  /\ \/ lockAt # NoInode /\ UNCHANGED lockAt
     \/ lockAt = NoInode /\ lockAt' \in {i \in Inodes : flock[i] = Nobody /\ \A b \in Asks : fd[b] # i}
  /\ fd' = [fd EXCEPT ![a] = lockAt']
  /\ UNCHANGED <<ledger, next, flock, total, heard, charged, owing, closing>>

\* As it would be with a lock that does not exclude.
LockAnyhow(a) ==
  /\ Goes(a, "waiting", "locked")
  /\ UNCHANGED <<ledger, next, lock, fd, total, heard, charged, owing, closing>>

Lock(a) ==
  /\ Goes(a, "waiting", "locked")
  /\ flock[fd[a]] = Nobody
  /\ flock' = [flock EXCEPT ![fd[a]] = a]
  /\ UNCHANGED <<ledger, next, lockAt, fd, total, heard, charged, owing, closing>>

LetGo(a) == /\ fd' = [fd EXCEPT ![a] = NoInode] /\ total' = [total EXCEPT ![a] = 0]
            /\ flock' = [i \in Inodes |-> IF flock[i] = a THEN Nobody ELSE flock[i]]

\* The settlement fails: said in the log, and made good by the next one that does not.
GiveUp(a) ==
  /\ stage' = [stage EXCEPT ![a] = "asking"]
  /\ LetGo(a)
  /\ owing' = [owing EXCEPT ![a] = TRUE]
  /\ UNCHANGED <<ledger, next, lockAt, heard, charged, closing>>

\* Another ask holds the lock for PATIENCE, or the directory went with close.
LockFails(a) == /\ \/ stage[a] = "waiting" /\ flock[fd[a]] # Nobody
                   \/ stage[a] = "settling" /\ closing = 4
                /\ GiveUp(a)

\* What this ask charged before goes out of the total, what it costs now goes in.
Sum(a) ==
  /\ stage[a] = "locked"
  /\ Read = Full \/ Read - charged[a] >= 0
  /\ stage' = [stage EXCEPT ![a] = "summed"]
  /\ LET sum == Read - charged[a] + heard[a]
     IN total' = [total EXCEPT ![a] = IF Read = Full \/ sum > Full THEN Full ELSE sum]
  /\ UNCHANGED <<ledger, next, lock, fd, heard, charged, owing, closing>>

\* The ledger no longer contains what this ask charged.
SumFails(a) == stage[a] = "locked" /\ Read # Full /\ Read < charged[a] /\ GiveUp(a)

\* As it would be if the ledger were written in place.
WriteOver(a) ==
  /\ Goes(a, "summed", "written")
  /\ next' = total[a] /\ ledger' = Torn
  /\ UNCHANGED <<lock, fd, total, heard, charged, owing, closing>>

Write(a) ==
  /\ Goes(a, "summed", "written")
  /\ next' = total[a]
  /\ UNCHANGED <<ledger, lock, fd, total, heard, charged, owing, closing>>

Rename(a) ==
  /\ next # NoFile
  /\ Goes(a, "written", "renamed")
  /\ ledger' = next /\ next' = NoFile
  /\ UNCHANGED <<lock, fd, total, heard, charged, owing, closing>>

RenameFails(a) == stage[a] = "written" /\ next = NoFile /\ GiveUp(a)

\* As it would be if the meter did not note what it replaced.
SettleForgets(a) ==
  /\ Goes(a, "renamed", "asking")
  /\ LetGo(a)
  /\ owing' = [owing EXCEPT ![a] = FALSE]
  /\ UNCHANGED <<ledger, next, lockAt, heard, charged, closing>>

Settle(a) ==
  /\ Goes(a, "renamed", "asking")
  /\ LetGo(a)
  /\ charged' = [charged EXCEPT ![a] = heard[a]]
  /\ owing' = [owing EXCEPT ![a] = FALSE]
  /\ UNCHANGED <<ledger, next, lockAt, heard, closing>>

\* What the ledger holds of an ask.
Charge(a) == IF stage[a] = "renamed" THEN heard[a] ELSE charged[a]

\* The ask is over, or its process is killed: the kernel drops its lock, its charge stays.
End(a) ==
  /\ stage[a] \notin {"new", "refused", "over"}
  /\ stage' = [stage EXCEPT ![a] = "over"]
  /\ charged' = [charged EXCEPT ![a] = Charge(a)]
  /\ LetGo(a)
  /\ UNCHANGED <<ledger, next, lockAt, heard, owing, closing>>

----------------------------------------------------------------------------
\* The session that began the run ends

\* One unlink at a time; the directory goes if nothing else is in it.
Close ==
  /\ closing < 4 /\ closing' = closing + 1
  /\ ledger' = IF closing = 0 THEN NoFile ELSE ledger
  /\ lockAt' = IF closing = 1 THEN NoInode ELSE lockAt
  /\ next' = IF closing = 2 THEN NoFile ELSE next
  /\ UNCHANGED <<flock, stage, fd, total, heard, charged, owing>>

Next == \/ Close
        \/ \E a \in Asks :
             \/ Begin(a) \/ \E c \in Costs : Hear(a, c)
             \/ Open(a) \/ Lock(a) \/ LockFails(a) \/ Sum(a) \/ SumFails(a)
             \/ Write(a) \/ Rename(a) \/ RenameFails(a) \/ Settle(a) \/ End(a)

Spec == Init /\ [][Next]_vars

----------------------------------------------------------------------------
\* Properties

Stages == {"new", "refused", "asking", "settling", "waiting", "locked", "summed",
           "written", "renamed", "over"}

\* The sum of what asks are charged, each unit of it told apart.
Units(S) == UNION {{a} \X (1..Charge(a)) : a \in S}
Charges(S) == Cardinality(Units(S))

\* Until the run is closed the ledger is the sum of what its asks cost, those that were killed
\* half way through a settlement included, or as much as a ledger holds; and what could not be kept
\* of a charge is kept with the next settlement: where the last has not failed, the whole of what
\* the ask was heard to cost is charged.
Accounted ==
  /\ closing = 0 => Read \in {Charges(Asks), Full}
  /\ \A a \in Asks : stage[a] = "asking" /\ ~owing[a] => charged[a] = heard[a]

\* Until the run is closed an ask is refused only when the asks of its run were charged the cap:
\* never because it looked while another was writing.
RefusedAtCap ==
  [][closing = 0 => \A a \in Asks : stage[a] # "refused" /\ stage'[a] = "refused"
                                      => Charges(Asks) >= Cap \/ ledger = Full]_stage

Settling(a) == stage[a] \in {"locked", "summed", "written", "renamed"}

\* Until the run is closed a charge is replaced under the ledger's lock: no two asks are at it at
\* once, so that the charges of asks made at the same time all stay counted.  close unlinks the
\* lock file, and whoever comes next locks another.
OneAtATime == closing = 0 => \A a, b \in Asks : Settling(a) /\ Settling(b) => a = b
=============================================================================
